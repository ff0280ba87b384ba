---------------------- MODULE LiveChatManManagerProofs ----------------------
(***************************************************************************)
(* Proofs about the two models of LiveChatManManager.                      *)
(*                                                                         *)
(* CouponSend, for any users, messages and setups: its invariant has three *)
(* parts, that everything is well typed, who has which message, and why no *)
(* coupon is used unasked.                                                 *)
(*                                                                         *)
(* ManagerLogin, for any request threads and scenarios: its invariant says *)
(* who waits for the receive thread, and why what a login has connected is *)
(* still there, or followed by another login, when it returns.             *)
(***************************************************************************)
EXTENDS CouponSend, ManagerLogin, TLAPS

-----------------------------------------------------------------------------
(* CouponSend: messages that wait for a coupon. *)

Counters ==
  /\ setup \in Setups
  /\ linked \in BOOLEAN /\ online \in BOOLEAN /\ history \in BOOLEAN /\ autoLogin \in BOOLEAN
  /\ turned \subseteq Messages
  /\ chatType \in [Users -> {"other"} \union InChat] /\ inviteId \subseteq Users
  /\ http \in [Kinds -> [Users -> Nat]] /\ tickets \in [Users -> Nat]
  /\ asking \in Nat /\ talk \in Nat
  /\ DOMAIN counts = {"drops", "externs", "outs"}
  /\ \A what \in DOMAIN counts : counts[what] \in 0..setup[what]

Flow == tasks \in Seq(Tasks) /\ app \in Apps /\ req \in Reqs /\ cb \in Cbs

Goods ==
  /\ sendList \in [Users -> Seq(Messages)]
  /\ \A u \in Users : IsInjective(sendList[u]) /\ \A m \in ToSet(sendList[u]) : To[m] = u
  /\ status \in [Messages -> {"Unprocess", "Processing"} \union Final]
  /\ sendingMap \subseteq Messages /\ requestMap \subseteq setup.photos /\ wire \subseteq Messages
  /\ uploads \subseteq setup.photos /\ hand \in [Threads -> Messages \union {None}]
  /\ cb.at = "upload" <=> hand["http"] # None

Held(m) == Begun(m) \/ Listed(m) \/ Carried(m) \/ Noted(m)
InOrder(m) ==
  /\ Held(m) => status[m] = "Processing"
  /\ status[m] = "Processing" /\ Kept(m) => Held(m)
  /\ Begun(m) => ~Listed(m) /\ ~Carried(m) /\ ~Noted(m)
  /\ Listed(m) => ~Carried(m) /\ ~Noted(m)
  /\ Carried(m) => ~Noted(m)

Places == OneByOne /\ OneAtATime /\ NotedLast /\ \A m \in Messages : InOrder(m)

LEMMA Types == TypeOK <=> Counters /\ Flow /\ Goods
BY DEF TypeOK, Counters, Flow, Goods

LEMMA OwnedMeans == Owned <=> \A m \in Messages : InOrder(m)
<1>1. ASSUME NEW m \in Messages
      PROVE  /\ "app" \in Holders(m) <=> Begun(m)
             /\ "list" \in Holders(m) <=> Listed(m)
             /\ "thread" \in Holders(m) <=> Carried(m)
             /\ "map" \in Holders(m) <=> Noted(m)
             /\ Holders(m) \subseteq {"app", "list", "thread", "map"}
  BY DEF Holders
<1>2. ASSUME NEW m \in Messages
      PROVE  /\ Holders(m) # {} <=> Held(m)
             /\ (\A g, h \in Holders(m) : g = h) <=>
                  /\ Begun(m) => ~Listed(m) /\ ~Carried(m) /\ ~Noted(m)
                  /\ Listed(m) => ~Carried(m) /\ ~Noted(m)
                  /\ Carried(m) => ~Noted(m)
  BY <1>1 DEF Held
<1>. QED BY <1>2 DEF Owned, InOrder

LEMMA Parts ==
  CouponIInv <=> Counters /\ Flow /\ Goods /\ Places /\ LostBefore /\ Unasked /\ NothingAsked
BY Types, OwnedMeans DEF CouponIInv, MessagesInv, Places

-----------------------------------------------------------------------------
(* Lists, tasks and what threads can be at                                 *)

LEMMA Appended ==
  ASSUME NEW S, NEW s \in Seq(S), NEW e \in S
  PROVE  /\ Append(s, e) \in Seq(S) /\ ToSet(Append(s, e)) = ToSet(s) \union {e}
         /\ IsInjective(s) /\ e \notin ToSet(s) => IsInjective(Append(s, e))
<1>. DEFINE t == Append(s, e)
<1>1. /\ t \in Seq(S) /\ Len(s) \in Nat /\ DOMAIN s = 1..Len(s) /\ DOMAIN t = 1..(Len(s) + 1)
      /\ t[Len(s) + 1] = e /\ \A j \in DOMAIN s : t[j] = s[j]
  OBVIOUS
<1>2. DOMAIN t = DOMAIN s \union {Len(s) + 1}
  BY <1>1
<1>. HIDE DEF t
<1>3. ToSet(t) = ToSet(s) \union {e}
  BY <1>1, <1>2 DEF ToSet
<1>4. ASSUME IsInjective(s), e \notin ToSet(s) PROVE IsInjective(t)
  BY <1>1, <1>2, <1>4 DEF IsInjective, ToSet
<1>. QED BY <1>1, <1>3, <1>4 DEF t

LEMMA Shortened ==
  ASSUME NEW S, NEW s \in Seq(S), s # <<>>
  PROVE  /\ Tail(s) \in Seq(S) /\ Head(s) \in S /\ ToSet(s) = ToSet(Tail(s)) \union {Head(s)}
         /\ IsInjective(s) => IsInjective(Tail(s)) /\ Head(s) \notin ToSet(Tail(s))
<1>. DEFINE t == Tail(s)
<1>1. /\ t \in Seq(S) /\ Len(s) \in Nat /\ Len(s) > 0 /\ DOMAIN s = 1..Len(s) /\ DOMAIN t = 1..(Len(s) - 1)
      /\ Head(s) = s[1] /\ s[1] \in S /\ \A j \in DOMAIN t : t[j] = s[j + 1]
  OBVIOUS
<1>. HIDE DEF t
<1>2. \A j \in DOMAIN t : j + 1 \in DOMAIN s /\ j + 1 # 1
  BY <1>1
<1>3. \A j \in DOMAIN s : j # 1 => \E k \in DOMAIN t : j = k + 1
  <2>1. ASSUME NEW j \in DOMAIN s, j # 1 PROVE j - 1 \in DOMAIN t /\ j = (j - 1) + 1
    <3>1. j \in Nat /\ j >= 1 /\ j <= Len(s)
      BY <1>1
    <3>2. j - 1 \in 1..(Len(s) - 1) /\ j = (j - 1) + 1
      BY <1>1, <2>1, <3>1
    <3>. QED BY <1>1, <3>2
  <2>. QED BY <2>1
<1>4. 1 \in DOMAIN s
  BY <1>1
<1>5. ToSet(s) = ToSet(t) \union {Head(s)}
  <2>1. ASSUME NEW j \in DOMAIN t PROVE t[j] \in ToSet(s)
    BY <1>1, <1>2 DEF ToSet
  <2>2. ASSUME NEW j \in DOMAIN s, j # 1 PROVE s[j] \in ToSet(t)
    BY <1>1, <1>3, <2>2 DEF ToSet
  <2>. QED BY <1>1, <1>4, <2>1, <2>2 DEF ToSet
<1>6. ASSUME IsInjective(s) PROVE IsInjective(t) /\ Head(s) \notin ToSet(t)
  <2>1. ASSUME NEW j \in DOMAIN t, NEW k \in DOMAIN t, t[j] = t[k] PROVE j = k
    <3>1. j + 1 = k + 1
      BY <1>1, <1>2, <1>6, <2>1 DEF IsInjective
    <3>. QED BY <1>1, <3>1
  <2>2. ASSUME NEW j \in DOMAIN t PROVE t[j] # Head(s)
    BY <1>1, <1>2, <1>4, <1>6 DEF IsInjective
  <2>. QED BY <2>1, <2>2 DEF IsInjective, ToSet
<1>. QED BY <1>1, <1>5, <1>6 DEF t

LEMMA Emptied == <<>> \in Seq(Messages) /\ ToSet(<<>>) = {} /\ IsInjective(<<>>)
BY DEF ToSet, IsInjective

LEMMA TasksMade ==
  /\ \A do \in {"send", "use", "count"}, u \in Users :
       Of(do, u) \in Tasks /\ (do # "use" => \A v \in Users : Of(do, u) # Of("use", v))
  /\ \A do \in {"history", "to send"} :
       [do |-> do] \in Tasks /\ \A v \in Users : [do |-> do] # Of("use", v)
BY DEF Tasks, Of

LEMMA TasksAre ==
  ASSUME NEW k \in Tasks
  PROVE  /\ k.do \in {"history", "to send", "send", "use", "count"}
         /\ k.do \in {"send", "use", "count"} => k.user \in Users /\ k = Of(k.do, k.user)
BY DEF Tasks, Of

LEMMA IdleAt == Idle.at = "idle"
BY DEF Idle

LEMMA AppsMade ==
  /\ Idle \in Apps /\ [at |-> "logout"] \in Apps
  /\ \A a \in {"later", "wait", "check", "now", "ask"}, m \in Messages : [at |-> a, m |-> m] \in Apps
  /\ \A u \in Users : [at |-> "opt", user |-> u] \in Apps
BY DEF Apps, Idle

LEMMA AppsAre ==
  ASSUME NEW a \in Apps
  PROVE  /\ a.at \in {"idle", "logout", "later", "wait", "check", "now", "ask", "opt"}
         /\ a.at \in {"later", "wait", "check", "now", "ask"} => a.m \in Messages /\ a = [at |-> a.at, m |-> a.m]
         /\ a.at = "idle" <=> a = Idle
BY DEF Apps, Idle

LEMMA ReqsMade ==
  /\ Idle \in Reqs
  /\ \A a \in {"history", "to send"}, V \in SUBSET Users : [at |-> a, users |-> V] \in Reqs
  /\ \A a \in {"use", "count", "note count", "fail"}, u \in Users : [at |-> a, user |-> u] \in Reqs
  /\ \A u \in Users, l \in Seq(Messages) : [at |-> "send", user |-> u, left |-> l] \in Reqs
BY DEF Reqs, Idle

LEMMA ReqsAre ==
  ASSUME NEW r \in Reqs
  PROVE  /\ r.at \in {"idle", "history", "to send", "send", "use", "count", "note count", "fail"}
         /\ r.at \in {"history", "to send"} => r \in [at : {"history", "to send"}, users : SUBSET Users]
         /\ r.at = "send" => r \in [at : {"send"}, user : Users, left : Seq(Messages)]
         /\ r.at \in {"use", "count", "note count", "fail", "send"} => r.user \in Users
         /\ r.at = "idle" <=> r = Idle
<1>1. CASE r = Idle
  BY <1>1 DEF Idle
<1>2. CASE r \in [at : {"history", "to send"}, users : SUBSET Users]
  <2>1. r.at \in {"history", "to send"}
    BY <1>2
  <2>2. r # Idle
    BY <2>1, IdleAt
  <2>. QED BY <1>2, <2>1, <2>2, Zenon
<1>3. CASE r \in [at : {"send"}, user : Users, left : Seq(Messages)]
  <2>1. r.at = "send" /\ r.user \in Users
    BY <1>3
  <2>2. r # Idle
    BY <2>1, IdleAt
  <2>. QED BY <1>3, <2>1, <2>2, Zenon
<1>4. CASE r \in [at : {"use", "count", "note count", "fail"}, user : Users]
  <2>1. r.at \in {"use", "count", "note count", "fail"} /\ r.user \in Users
    BY <1>4
  <2>2. r # Idle
    BY <2>1, IdleAt
  <2>. QED BY <2>1, <2>2, Zenon
<1>. QED BY <1>1, <1>2, <1>3, <1>4, Zenon DEF Reqs

LEMMA Sendings ==
  ASSUME NEW r \in Reqs, r.at = "send", NEW l
  PROVE  /\ r.left \in Seq(Messages) /\ r.user \in Users
         /\ [r EXCEPT !.left = l] = [at |-> "send", user |-> r.user, left |-> l]
<1>1. r \in [at : {"send"}, user : Users, left : Seq(Messages)]
  BY ReqsAre
<1>. QED BY <1>1

LEMMA ToSends ==
  ASSUME NEW r \in Reqs, r.at = "to send"
  PROVE  r.users \in SUBSET Users
<1>1. r \in [at : {"history", "to send"}, users : SUBSET Users]
  BY ReqsAre
<1>. QED BY <1>1

LEMMA CbsMade ==
  Idle \in Cbs /\ [at |-> "upload"] \in Cbs /\ \A u \in Users : [at |-> "fail", user |-> u] \in Cbs
BY DEF Cbs

LEMMA CbsAre ==
  ASSUME NEW c \in Cbs
  PROVE  /\ c.at \in {"idle", "upload", "fail"} /\ (c.at = "fail" => c.user \in Users)
         /\ c.at = "idle" <=> c = Idle
BY DEF Cbs, Idle

-----------------------------------------------------------------------------
(* The flags and counters                                                  *)

LEMMA Bounds ==
  ASSUME setup \in Setups
  PROVE  /\ setup.drops \in Nat /\ setup.externs \in Nat /\ setup.outs \in Nat /\ setup.photos \subseteq Messages
         /\ setup.written \subseteq Messages /\ setup.early \in BOOLEAN
<1>1. setup \in [early : BOOLEAN, failures : BOOLEAN, written : SUBSET Messages,
                photos : SUBSET Messages, drops : Nat, externs : Nat, outs : Nat]
  BY CouponAssumption
<1>. QED BY <1>1

LEMMA Starts ==
  ASSUME Counters, NEW k \in Kinds, NEW u \in Users, StartHttp(k, u)
  PROVE  /\ http' \in [Kinds -> [Users -> Nat]]
         /\ \A j \in Kinds \ {k}, v \in Users : http'[j][v] = http[j][v]
BY DEF Counters, StartHttp

LEMMA Ends ==
  ASSUME Counters, NEW k \in Kinds, NEW u \in Users, EndHttp(k, u)
  PROVE  /\ http' \in [Kinds -> [Users -> Nat]] /\ http[k][u] > 0
         /\ \A j \in Kinds, v \in Users : http'[j][v] <= http[j][v]
<1>1. http[k][u] \in Nat /\ http[k][u] > 0 /\ http[k][u] - 1 \in Nat /\ http[k][u] - 1 <= http[k][u]
  BY DEF Counters, EndHttp
<1>2. http' \in [Kinds -> [Users -> Nat]]
  BY <1>1 DEF Counters, EndHttp
<1>3. ASSUME NEW j \in Kinds, NEW v \in Users PROVE http'[j][v] <= http[j][v]
  <2>1. http[j][v] \in Nat
    BY DEF Counters
  <2>2. http'[j][v] = IF j = k /\ v = u THEN http[k][u] - 1 ELSE http[j][v]
    BY DEF Counters, EndHttp
  <2>. QED BY <1>1, <2>1, <2>2
<1>. QED BY <1>1, <1>2, <1>3

LEMMA Counting ==
  ASSUME Counters, UNCHANGED setup, NEW what \in {"drops", "externs", "outs"}, Count(what)
  PROVE  /\ DOMAIN counts' = {"drops", "externs", "outs"}
         /\ \A w \in DOMAIN counts' : counts'[w] \in 0..setup'[w]
         /\ Undisturbed' => Undisturbed
         /\ what \in {"drops", "outs"} => ~Undisturbed'
<1>1. \A w \in {"drops", "externs", "outs"} : setup[w] \in Nat /\ counts[w] \in 0..setup[w]
  <2>1. setup["drops"] \in Nat /\ setup["externs"] \in Nat /\ setup["outs"] \in Nat
    BY Bounds DEF Counters
  <2>. QED BY <2>1 DEF Counters
<1>2. counts[what] < setup[what] /\ setup' = setup
  BY DEF Count
<1>3. counts[what] + 1 \in 0..setup[what] /\ counts[what] + 1 > 0
  BY <1>1, <1>2
<1>4. /\ DOMAIN counts' = {"drops", "externs", "outs"}
      /\ \A w \in {"drops", "externs", "outs"} : counts'[w] = IF w = what THEN counts[what] + 1 ELSE counts[w]
  BY DEF Counters, Count
<1>5. \A w \in {"drops", "externs", "outs"} : counts'[w] \in 0..setup[w] /\ (counts'[w] = 0 => counts[w] = 0)
  BY <1>1, <1>3, <1>4
<1>6. \A w \in DOMAIN counts' : counts'[w] \in 0..setup'[w]
  BY <1>2, <1>4, <1>5
<1>7. counts'[what] # 0
  BY <1>3, <1>4
<1>. QED BY <1>4, <1>5, <1>6, <1>7 DEF Undisturbed

LEMMA Writers ==
  ASSUME Flow
  PROVE  /\ app.at \in {"later", "wait", "check", "now", "ask"} => app.m \in Messages /\ To[app.m] \in Users
         /\ req.at \in {"use", "count", "note count", "fail", "send"} => req.user \in Users
         /\ cb.at = "fail" => cb.user \in Users
BY AppsAre, ReqsAre, CbsAre, CouponAssumption DEF Flow

LEMMA AppCounters ==
  ASSUME Counters, Flow, UNCHANGED setup, AppStep \/ \E u \in Users : CheckCoupon(u)
  PROVE  Counters'
<1>. USE DEF gate, user, https
<1>1. CASE SendNow \/ InsertSendMsgList \/ NoteOpt \/ LogoutDone
  BY <1>1 DEF Counters, SendNow, InsertSendMsgList, NoteOpt, LogoutDone, net
<1>2. CASE CheckCouponProc
  <2>1. http' \in [Kinds -> [Users -> Nat]]
    <3>1. "check" \in Kinds /\ To[app.m] \in Users
      BY <1>2, Writers DEF CheckCouponProc, Kinds
    <3>. QED BY <1>2, <3>1, Starts DEF CheckCouponProc, Counters
  <2>. QED BY <1>2, <2>1 DEF Counters, CheckCouponProc, net
<1>3. CASE \E u \in Users : CheckCoupon(u)
  <2>1. PICK u \in Users : CheckCoupon(u)
    BY <1>3
  <2>2. http' \in [Kinds -> [Users -> Nat]]
    BY <2>1, Starts DEF CheckCoupon, Kinds
  <2>3. /\ DOMAIN counts' = {"drops", "externs", "outs"}
        /\ \A w \in DOMAIN counts' : counts'[w] \in 0..setup'[w]
    BY <2>1, Counting DEF CheckCoupon
  <2>. QED BY <2>1, <2>2, <2>3 DEF Counters, CheckCoupon, net
<1>4. CASE SendLater
  <2>1. app.m \in Messages
    BY <1>4, Writers DEF SendLater
  <2>2. turned' \subseteq Messages
    BY <1>4, <2>1 DEF Counters, SendLater
  <2>. QED BY <1>4, <2>2 DEF Counters, SendLater, net
<1>. QED BY <1>1, <1>2, <1>3, <1>4 DEF AppStep

LEMMA RequestCounters ==
  ASSUME Counters, Flow, UNCHANGED setup, RequestStep
  PROVE  Counters'
<1>. USE DEF gate, user, https
<1>1. CASE ToSendDone \/ SendNext \/ ListSent \/ NoteCount \/ FailByRequest \/ PopRequestTask
  BY <1>1 DEF Counters, ToSendDone, SendNext, ListSent, NoteCount, FailByRequest, PopRequestTask, net
<1>2. CASE GetUsersHistoryMessage
  <2>1. /\ asking' = asking \/ asking' = asking + 1
        /\ history' = history \/ history' = TRUE
    BY <1>2, Zenon DEF GetUsersHistoryMessage
  <2>2. asking \in Nat /\ history \in BOOLEAN
    BY DEF Counters
  <2>3. asking' \in Nat
    BY <2>1, <2>2
  <2>4. history' \in BOOLEAN
    BY <2>1, <2>2
  <2>. QED BY <1>2, <2>3, <2>4 DEF Counters, GetUsersHistoryMessage, net
<1>3. CASE CheckToSendUser
  <2>1. PICK u \in req.users : StartHttp("check", u) \/ UNCHANGED http
    BY <1>3 DEF CheckToSendUser
  <2>2. u \in Users /\ "check" \in Kinds
    BY <1>3, ToSends DEF CheckToSendUser, Flow, Kinds
  <2>3. http' \in [Kinds -> [Users -> Nat]]
    BY <2>1, <2>2, Starts DEF Counters
  <2>. QED BY <1>3, <2>3 DEF Counters, CheckToSendUser, net
<1>4. CASE UseTryTicketProc
  <2>1. http' \in [Kinds -> [Users -> Nat]]
    <3>1. "use" \in Kinds /\ req.user \in Users
      BY <1>4, Writers DEF UseTryTicketProc, Kinds
    <3>. QED BY <1>4, <3>1, Starts DEF Counters, UseTryTicketProc
  <2>. QED BY <1>4, <2>1 DEF Counters, UseTryTicketProc, net
<1>5. CASE GetCountProc
  <2>1. http' \in [Kinds -> [Users -> Nat]]
    <3>1. "count" \in Kinds /\ req.user \in Users
      BY <1>5, Writers DEF GetCountProc, Kinds
    <3>. QED BY <1>5, <3>1, Starts DEF Counters, GetCountProc
  <2>. QED BY <1>5, <2>1 DEF Counters, GetCountProc, net
<1>. QED BY <1>1, <1>2, <1>3, <1>4, <1>5 DEF RequestStep

LEMMA HttpCounters ==
  ASSUME Counters, Flow, UNCHANGED setup, NEW u \in Users, HttpStep(u)
  PROVE  Counters'
<1>. USE DEF gate, user, https
<1>0. {"check", "extern", "use", "count"} \subseteq Kinds
  BY DEF Kinds
<1>1. http' \in [Kinds -> [Users -> Nat]]
  BY <1>0, Ends DEF HttpStep, OnCheckCoupon, OnExternCheck, OnUseCoupon, OnGetCount
<1>2. CASE OnCheckCoupon(u) \/ OnExternCheck(u) \/ OnGetCount(u)
  BY <1>1, <1>2 DEF Counters, OnCheckCoupon, OnExternCheck, OnGetCount, net
<1>3. CASE OnUseCoupon(u)
  <2>1. tickets' \in [Users -> Nat]
    BY <1>3 DEF Counters, OnUseCoupon
  <2>. QED BY <1>1, <1>3, <2>1 DEF Counters, OnUseCoupon
<1>. QED BY <1>2, <1>3 DEF HttpStep

LEMMA AnswerCounters ==
  ASSUME Counters, Flow, UNCHANGED setup,
         \/ \E m \in Messages : SendTextMessage(m) \/ OnUpload(m) \/ OnSendAnswer(m)
         \/ \E t \in Threads : Note(t)
         \/ FailByHttp \/ OnQueryChatRecordMutiple
  PROVE  Counters'
<1>. USE DEF gate, user, https
<1>1. CASE \E m \in Messages : SendTextMessage(m) \/ OnUpload(m) \/ OnSendAnswer(m)
  BY <1>1 DEF Counters, SendTextMessage, OnUpload, OnSendAnswer, net
<1>2. CASE FailByHttp \/ \E t \in Threads : Note(t)
  BY <1>2 DEF Counters, FailByHttp, Note, net
<1>3. CASE OnQueryChatRecordMutiple
  <2>1. asking > 0 /\ asking' = asking - 1 /\ history' = TRUE
    BY <1>3 DEF OnQueryChatRecordMutiple
  <2>2. asking \in Nat
    BY DEF Counters
  <2>3. asking' \in Nat
    BY <2>1, <2>2
  <2>. QED BY <1>3, <2>1, <2>3 DEF Counters, OnQueryChatRecordMutiple, net
<1>. QED BY <1>1, <1>2, <1>3

LEMMA ServerCounters ==
  ASSUME Counters, Flow, UNCHANGED setup,
         \/ \E u \in Users : OnUseTryTicket(u) \/ OnTalkEvent(u)
         \/ OnGetTalkList \/ LinkLost \/ OnLogout \/ OnLogin \/ OnLoginFail \/ Logout \/ Login
  PROVE  Counters'
<1>. USE DEF gate, user, https
<1>0. {"other", "chat", "man invite"} \subseteq {"other"} \union InChat
  BY DEF InChat
<1>1. CASE \E u \in Users : OnUseTryTicket(u)
  <2>1. PICK u \in Users : OnUseTryTicket(u)
    BY <1>1
  <2>2. tickets' \in [Users -> Nat]
    <3>1. tickets \in [Users -> Nat] /\ tickets[u] > 0 /\ tickets' = [tickets EXCEPT ![u] = tickets[u] - 1]
      BY <2>1 DEF Counters, OnUseTryTicket
    <3>2. tickets[u] - 1 \in Nat
      BY <3>1
    <3>. QED BY <3>1, <3>2
  <2>3. chatType' \in [Users -> {"other"} \union InChat]
    BY <1>0, <2>1 DEF Counters, OnUseTryTicket
  <2>. QED BY <2>1, <2>2, <2>3 DEF Counters, OnUseTryTicket
<1>2. CASE \E u \in Users : OnTalkEvent(u)
  <2>1. PICK u \in Users : OnTalkEvent(u)
    BY <1>2
  <2>2. chatType' \in [Users -> {"other"} \union InChat]
    BY <1>0, <2>1 DEF Counters, OnTalkEvent
  <2>. QED BY <2>1, <2>2 DEF Counters, OnTalkEvent, net
<1>3. CASE OnGetTalkList
  <2>1. talk' \in Nat
    BY <1>3 DEF Counters, OnGetTalkList
  <2>2. CASE \E chats, invited \in SUBSET Users :
               /\ chatType' = [u \in Users |-> CASE u \in invited -> "other"
                                                [] u \in chats \ invited -> "chat"
                                                [] OTHER -> chatType[u]]
               /\ inviteId' = inviteId \union chats \union invited
    <3>1. PICK chats \in SUBSET Users, invited \in SUBSET Users :
               /\ chatType' = [u \in Users |-> CASE u \in invited -> "other"
                                                [] u \in chats \ invited -> "chat"
                                                [] OTHER -> chatType[u]]
               /\ inviteId' = inviteId \union chats \union invited
      BY <2>2
    <3>2. ASSUME NEW u \in Users PROVE chatType'[u] \in {"other"} \union InChat
      BY <1>0, <3>1 DEF Counters
    <3>3. chatType' \in [Users -> {"other"} \union InChat] /\ inviteId' \subseteq Users
      BY <3>1, <3>2 DEF Counters
    <3>. QED BY <1>3, <2>1, <3>3 DEF Counters, OnGetTalkList
  <2>3. CASE UNCHANGED user
    BY <1>3, <2>1, <2>3 DEF Counters, OnGetTalkList
  <2>. QED BY <1>3, <2>2, <2>3 DEF OnGetTalkList
<1>4. CASE LinkLost
  <2>1. /\ DOMAIN counts' = {"drops", "externs", "outs"}
        /\ \A w \in DOMAIN counts' : counts'[w] \in 0..setup'[w]
    BY <1>4, Counting DEF LinkLost
  <2>. QED BY <1>4, <2>1 DEF Counters, LinkLost
<1>5. CASE OnLogout
  BY <1>5 DEF Counters, OnLogout, net
<1>6. CASE OnLogin
  BY <1>6 DEF Counters, OnLogin
<1>7. CASE OnLoginFail \/ Logout
  <2>1. /\ DOMAIN counts' = {"drops", "externs", "outs"}
        /\ \A w \in DOMAIN counts' : counts'[w] \in 0..setup'[w]
    BY <1>7, Counting DEF OnLoginFail, Logout
  <2>. QED BY <1>7, <2>1 DEF Counters, OnLoginFail, Logout, net
<1>8. CASE Login
  BY <1>8 DEF Counters, Login, net
<1>. QED BY <1>1, <1>2, <1>3, <1>4, <1>5, <1>6, <1>7, <1>8

LEMMA CountersKept ==
  ASSUME Counters, Flow, Next
  PROVE  Counters'
BY AppCounters, RequestCounters, HttpCounters, AnswerCounters, ServerCounters DEF Next, Step

-----------------------------------------------------------------------------
(* Where the threads are                                                   *)

LEMMA Inserted ==
  ASSUME Flow, NEW k \in Tasks, InsertRequestTask(k)
  PROVE  tasks' \in Seq(Tasks) /\ ToSet(tasks') = ToSet(tasks) \union {k}
BY Appended DEF Flow, InsertRequestTask

LEMMA AppFlow ==
  ASSUME Flow, UNCHANGED setup, AppStep \/ \E u \in Users : CheckCoupon(u)
  PROVE  Flow'
<1>1. UNCHANGED <<req, cb, tasks>>
  BY DEF AppStep, SendNow, SendLater, InsertSendMsgList, CheckCouponProc, NoteOpt, LogoutDone, CheckCoupon
<1>2. app' \in Apps
  <2>1. CASE SendNow \/ CheckCouponProc \/ NoteOpt \/ LogoutDone
    BY <2>1, AppsMade DEF SendNow, CheckCouponProc, NoteOpt, LogoutDone
  <2>2. CASE InsertSendMsgList
    <3>1. app.m \in Messages
      BY <2>2, Writers DEF InsertSendMsgList
    <3>. QED BY <2>2, <3>1, AppsMade DEF InsertSendMsgList
  <2>3. CASE \E u \in Users : CheckCoupon(u)
    BY <2>3, AppsMade DEF CheckCoupon
  <2>4. CASE SendLater
    <3>1. app.m \in Messages /\ app = [at |-> app.at, m |-> app.m]
      BY <2>4, AppsAre DEF Flow, SendLater
    <3>2. app' = Idle \/ app' = [app EXCEPT !.at = "wait"]
      BY <2>4 DEF SendLater
    <3>3. app' = Idle \/ app' = [at |-> "wait", m |-> app.m]
      BY <3>1, <3>2
    <3>. QED BY <3>1, <3>3, AppsMade
  <2>. QED BY <2>1, <2>2, <2>3, <2>4 DEF AppStep
<1>. QED BY <1>1, <1>2 DEF Flow

LEMMA PopFlow ==
  ASSUME Flow, Goods, PopRequestTask
  PROVE  Flow'
<1>1. tasks # <<>> /\ tasks' = Tail(tasks) /\ UNCHANGED <<app, cb>>
  BY DEF PopRequestTask
<1>2. tasks' \in Seq(Tasks) /\ Head(tasks) \in Tasks
  BY <1>1, Shortened DEF Flow
<1>3. req' \in Reqs
  <2>. DEFINE task == Head(tasks)
  <2>1. task.do \in {"history", "to send", "send", "use", "count"}
    BY <1>2, TasksAre
  <2>2. task.do \in {"send", "use", "count"} => task.user \in Users
    BY <1>2, TasksAre
  <2>3. req' = CASE task.do = "history" -> [at |-> "history", users |-> {u \in Users : chatType[u] \in InChat}]
                 [] task.do = "to send" -> [at |-> "to send", users |-> {u \in Users : sendList[u] # <<>>}]
                 [] task.do = "send" -> [at |-> "send", user |-> task.user, left |-> sendList[task.user]]
                 [] OTHER -> [at |-> task.do, user |-> task.user]
    BY DEF PopRequestTask
  <2>. HIDE DEF task
  <2>4. CASE task.do = "history"
    <3>1. {u \in Users : chatType[u] \in InChat} \in SUBSET Users
      OBVIOUS
    <3>. QED BY <2>3, <2>4, <3>1, ReqsMade
  <2>5. CASE task.do = "to send"
    <3>1. {u \in Users : sendList[u] # <<>>} \in SUBSET Users
      OBVIOUS
    <3>. QED BY <2>3, <2>5, <3>1, ReqsMade
  <2>6. CASE task.do = "send"
    <3>1. sendList[task.user] \in Seq(Messages)
      BY <2>2, <2>6 DEF Goods
    <3>. QED BY <2>2, <2>3, <2>6, <3>1, ReqsMade
  <2>7. CASE task.do \in {"use", "count"}
    BY <2>2, <2>3, <2>7, ReqsMade
  <2>. QED BY <2>1, <2>4, <2>5, <2>6, <2>7
<1>. QED BY <1>1, <1>2, <1>3 DEF Flow

LEMMA RequestFlow ==
  ASSUME Flow, Goods, UNCHANGED setup, RequestStep, ~PopRequestTask
  PROVE  Flow'
<1>1. UNCHANGED <<app, cb>>
  BY DEF RequestStep, GetUsersHistoryMessage, CheckToSendUser, ToSendDone, SendNext, ListSent, UseTryTicketProc,
         GetCountProc, NoteCount, FailByRequest
<1>2. CASE GetUsersHistoryMessage \/ ToSendDone \/ ListSent \/ NoteCount \/ FailByRequest
  BY <1>1, <1>2, ReqsMade DEF Flow, GetUsersHistoryMessage, ToSendDone, ListSent, NoteCount, FailByRequest
<1>3. CASE CheckToSendUser
  <2>1. PICK u \in req.users : /\ req' = [at |-> "to send", users |-> req.users \ {u}]
                               /\ InsertRequestTask(Of("send", u)) \/ UNCHANGED tasks
    BY <1>3 DEF CheckToSendUser
  <2>2. req.users \in SUBSET Users
    BY <1>3, ToSends DEF Flow, CheckToSendUser
  <2>3. req.users \ {u} \in SUBSET Users /\ u \in Users
    BY <2>2
  <2>4. Of("send", u) \in Tasks
    BY <2>3, TasksMade
  <2>5. tasks' \in Seq(Tasks)
    BY <2>1, <2>4, Inserted DEF Flow
  <2>6. req' \in Reqs
    BY <2>1, <2>3, ReqsMade
  <2>. QED BY <1>1, <2>5, <2>6 DEF Flow
<1>4. CASE SendNext
  <2>1. /\ req.at = "send" /\ req' = [req EXCEPT !.left = Tail(req.left)] /\ req.left # <<>>
        /\ tasks' = tasks
    BY <1>4 DEF SendNext
  <2>2. req.left \in Seq(Messages) /\ req.user \in Users
    BY <2>1, Sendings DEF Flow
  <2>3. Tail(req.left) \in Seq(Messages)
    BY <2>1, <2>2, Shortened
  <2>4. req' = [at |-> "send", user |-> req.user, left |-> Tail(req.left)]
    BY <2>1, Sendings DEF Flow
  <2>. QED BY <1>1, <2>1, <2>2, <2>3, <2>4, ReqsMade DEF Flow
<1>5. CASE UseTryTicketProc
  <2>1. req' = Idle /\ (tasks' = tasks \/ InsertRequestTask(Of("count", req.user))) /\ req.at = "use"
    BY <1>5 DEF UseTryTicketProc
  <2>2. Of("count", req.user) \in Tasks
    BY <2>1, Writers, TasksMade
  <2>3. tasks' \in Seq(Tasks)
    BY <2>1, <2>2, Inserted DEF Flow
  <2>. QED BY <1>1, <2>1, <2>3, ReqsMade DEF Flow
<1>6. CASE GetCountProc
  <2>1. req.user \in Users /\ tasks' = tasks
    BY <1>6, Writers DEF GetCountProc
  <2>2. req' \in Reqs
    BY <1>6, <2>1, ReqsMade DEF GetCountProc
  <2>. QED BY <1>1, <2>1, <2>2 DEF Flow
<1>. QED BY <1>2, <1>3, <1>4, <1>5, <1>6 DEF RequestStep

LEMMA HttpFlow ==
  ASSUME Flow, UNCHANGED setup, NEW u \in Users, HttpStep(u) \/ OnUseTryTicket(u) \/ OnTalkEvent(u)
  PROVE  Flow'
<1>1. UNCHANGED <<app, req>>
  BY DEF HttpStep, OnCheckCoupon, OnExternCheck, OnUseCoupon, OnGetCount, OnUseTryTicket, OnTalkEvent, threads
<1>2. tasks' = tasks \/ \E do \in {"send", "use", "count"} : InsertRequestTask(Of(do, u))
  BY DEF HttpStep, OnCheckCoupon, OnExternCheck, OnUseCoupon, OnGetCount, OnUseTryTicket, OnTalkEvent
<1>3. \A do \in {"send", "use", "count"} : Of(do, u) \in Tasks
  BY TasksMade
<1>4. tasks' \in Seq(Tasks)
  BY <1>2, <1>3, Inserted DEF Flow
<1>5. cb' = cb \/ cb' = [at |-> "fail", user |-> u]
  BY DEF HttpStep, OnCheckCoupon, OnExternCheck, OnUseCoupon, OnGetCount, OnUseTryTicket, OnTalkEvent, threads
<1>6. cb' \in Cbs
  BY <1>5, CbsMade DEF Flow
<1>. QED BY <1>1, <1>4, <1>6 DEF Flow

LEMMA AnswerFlow ==
  ASSUME Flow, UNCHANGED setup,
         \/ \E m \in Messages : SendTextMessage(m) \/ OnUpload(m) \/ OnSendAnswer(m)
         \/ \E t \in Threads : Note(t)
         \/ FailByHttp \/ OnQueryChatRecordMutiple
  PROVE  Flow'
<1>1. CASE \E m \in Messages : SendTextMessage(m)
  <2>1. PICK m \in Messages : SendTextMessage(m)
    BY <1>1
  <2>2. PICK a \in {"later", "check", "now"} : app' = [at |-> a, m |-> m]
    BY <2>1, Zenon DEF SendTextMessage
  <2>3. app' \in Apps
    BY <2>2, AppsMade
  <2>. QED BY <2>1, <2>3 DEF Flow, SendTextMessage
<1>2. CASE \E m \in Messages : OnUpload(m)
  BY <1>2, CbsMade DEF Flow, OnUpload
<1>3. CASE \E m \in Messages : OnSendAnswer(m)
  BY <1>3 DEF Flow, OnSendAnswer, threads
<1>4. CASE FailByHttp \/ \E t \in Threads : Note(t)
  BY <1>4, CbsMade DEF Flow, FailByHttp, Note
<1>5. CASE OnQueryChatRecordMutiple
  <2>1. [do |-> "to send"] \in Tasks
    BY TasksMade
  <2>2. tasks' \in Seq(Tasks)
    BY <1>5, <2>1, Inserted DEF Flow, OnQueryChatRecordMutiple
  <2>. QED BY <1>5, <2>2 DEF Flow, OnQueryChatRecordMutiple, threads
<1>. QED BY <1>1, <1>2, <1>3, <1>4, <1>5

LEMMA ServerFlow ==
  ASSUME Flow, UNCHANGED setup,
         OnGetTalkList \/ LinkLost \/ OnLogout \/ OnLogin \/ OnLoginFail \/ Logout \/ Login
  PROVE  Flow'
<1>1. CASE OnGetTalkList
  <2>1. [do |-> "history"] \in Tasks
    BY TasksMade
  <2>2. tasks' = tasks \/ InsertRequestTask([do |-> "history"])
    BY <1>1 DEF OnGetTalkList
  <2>3. tasks' \in Seq(Tasks)
    BY <2>1, <2>2, Inserted DEF Flow
  <2>. QED BY <1>1, <2>3 DEF Flow, OnGetTalkList, threads
<1>2. CASE LinkLost \/ OnLogout \/ OnLogin \/ OnLoginFail \/ Login
  BY <1>2 DEF Flow, LinkLost, OnLogout, OnLogin, OnLoginFail, Login, threads
<1>3. CASE Logout
  BY <1>3, AppsMade DEF Flow, Logout
<1>. QED BY <1>1, <1>2, <1>3

LEMMA FlowKept ==
  ASSUME Flow, Goods, Next
  PROVE  Flow'
BY AppFlow, PopFlow, RequestFlow, HttpFlow, AnswerFlow, ServerFlow DEF Next, Step

-----------------------------------------------------------------------------
(* Steps that move no message                                              *)

\* What was lost or given up stays so, and a message that is to be kept was to be kept before.
Lasting == (Undisturbed' => Undisturbed) /\ turned \subseteq turned'

LEMMA NeverFewer ==
  ASSUME Counters, Next
  PROVE  Lasting
<1>1. (counts' = counts \/ \E what \in {"drops", "externs", "outs"} : Count(what)) /\ turned \subseteq turned'
  BY DEF Next, Step, AppStep, RequestStep, HttpStep, SendTextMessage, OnUpload, OnSendAnswer, CheckCoupon,
         OnCheckCoupon, OnExternCheck, OnUseCoupon, OnGetCount, OnUseTryTicket, OnTalkEvent, Note, SendNow,
         SendLater, InsertSendMsgList, CheckCouponProc, NoteOpt, LogoutDone, GetUsersHistoryMessage,
         CheckToSendUser, ToSendDone, SendNext, ListSent, UseTryTicketProc, GetCountProc, NoteCount,
         FailByRequest, PopRequestTask, FailByHttp, OnQueryChatRecordMutiple, OnGetTalkList, LinkLost, OnLogout,
         OnLogin, OnLoginFail, Logout, Login, gate
<1>2. CASE counts' = counts
  BY <1>1, <1>2 DEF Lasting, Undisturbed
<1>3. CASE \E what \in {"drops", "externs", "outs"} : Count(what)
  BY <1>1, <1>3, Counting DEF Next, Lasting
<1>. QED BY <1>1, <1>2, <1>3

LEMMA StillKept ==
  ASSUME Lasting, UNCHANGED setup
  PROVE  \A m \in Messages : Kept(m)' => Kept(m)
BY DEF Lasting, Kept

LEMMA Photos ==
  ASSUME Counters, Goods
  PROVE  setup.photos \subseteq Messages /\ requestMap \subseteq Messages /\ uploads \subseteq Messages
<1>1. setup.photos \subseteq Messages
  BY Bounds DEF Counters
<1>. QED BY <1>1 DEF Goods

LEMMA Unmoved ==
  ASSUME Counters, Goods, Places, Lasting,
         UNCHANGED <<setup, sendList, status, notes, wire, uploads, hand>>,
         app' = app \/ (app.at \notin {"later", "wait", "check", "now"} /\ app'.at \notin {"later", "wait", "check", "now"}),
         app' # Idle => hand["app"] = None,
         req' = req \/ (req.at # "send" /\ req'.at # "send"),
         cb.at = "upload" <=> cb'.at = "upload"
  PROVE  Goods' /\ Places'
<1>1. Goods'
  BY DEF Goods, notes
<1>2. ASSUME NEW m \in Messages
      PROVE  (Begun(m)' <=> Begun(m)) /\ (Listed(m)' <=> Listed(m)) /\ (Carried(m)' <=> Carried(m)) /\ (Noted(m)' <=> Noted(m))
  <2>1. Begun(m)' <=> Begun(m)
    BY DEF Begun
  <2>2. Listed(m)' <=> Listed(m)
    BY DEF Listed, Locked
  <2>3. (Carried(m)' <=> Carried(m)) /\ (Noted(m)' <=> Noted(m))
    BY DEF Carried, Noted, notes
  <2>. QED BY <2>1, <2>2, <2>3
<1>3. ASSUME NEW m \in Messages PROVE InOrder(m)'
  <2>1. InOrder(m) /\ (Kept(m)' => Kept(m)) /\ status'[m] = status[m]
    BY StillKept DEF Places
  <2>2. Held(m)' <=> Held(m)
    BY <1>2 DEF Held
  <2>. QED BY <1>2, <2>1, <2>2 DEF InOrder
<1>4. OneByOne'
  BY DEF Places, OneByOne
<1>5. OneAtATime'
  BY DEF Places, OneAtATime
<1>6. NotedLast'
  <2>1. requestMap \subseteq Messages
    BY Photos
  <2>. QED BY <1>2, <2>1 DEF Places, NotedLast, notes
<1>. QED BY <1>1, <1>3, <1>4, <1>5, <1>6 DEF Places

\* The steps that look for coupons, ask and are answered, and those of the connection.
Calm ==
  \/ CheckCouponProc \/ NoteOpt \/ GetUsersHistoryMessage \/ CheckToSendUser \/ ToSendDone
  \/ UseTryTicketProc \/ GetCountProc \/ NoteCount \/ OnQueryChatRecordMutiple \/ OnGetTalkList \/ LinkLost
  \/ OnLogin \/ Logout \/ LogoutDone \/ Login
  \/ \E u \in Users : CheckCoupon(u) \/ HttpStep(u) \/ OnUseTryTicket(u) \/ OnTalkEvent(u)

LEMMA CalmGoods ==
  ASSUME Counters, Flow, Goods, Places, Lasting, UNCHANGED setup, Calm
  PROVE  Goods' /\ Places'
<1>1. UNCHANGED <<sendList, status, notes, wire, uploads, hand>>
  BY DEF Calm, Logout, LogoutDone, CheckCouponProc, NoteOpt, GetUsersHistoryMessage, CheckToSendUser, ToSendDone, UseTryTicketProc,
         GetCountProc, NoteCount, OnQueryChatRecordMutiple, OnGetTalkList, LinkLost, OnLogin, Login, CheckCoupon, HttpStep,
         OnCheckCoupon, OnExternCheck, OnUseCoupon, OnGetCount, OnUseTryTicket, OnTalkEvent, net, threads
<1>2. /\ app' = app \/ (app.at \notin {"later", "wait", "check", "now"} /\ app'.at \notin {"later", "wait", "check", "now"})
      /\ app' # Idle => hand["app"] = None
  <2>1. CASE CheckCouponProc \/ NoteOpt \/ LogoutDone
    BY <2>1, IdleAt DEF CheckCouponProc, NoteOpt, LogoutDone
  <2>2. CASE \E u \in Users : CheckCoupon(u)
    <3>1. app.at = "idle" /\ app'.at = "opt" /\ hand["app"] = None
      BY <2>2, IdleAt DEF CheckCoupon
    <3>. QED BY <3>1
  <2>3. CASE app' = app
    BY <2>3 DEF Places, OneAtATime
  <2>4. CASE Logout
    <3>1. app.at = "idle" /\ app'.at = "logout" /\ hand["app"] = None
      BY <2>4, IdleAt DEF Logout
    <3>. QED BY <3>1
  <2>. QED BY <2>1, <2>2, <2>3, <2>4 DEF Calm, GetUsersHistoryMessage, CheckToSendUser, ToSendDone, UseTryTicketProc,
         GetCountProc, NoteCount, OnQueryChatRecordMutiple, OnGetTalkList, LinkLost, OnLogin, Login, HttpStep,
         OnCheckCoupon, OnExternCheck, OnUseCoupon, OnGetCount, OnUseTryTicket, OnTalkEvent, threads
<1>3. req' = req \/ (req.at # "send" /\ req'.at # "send")
  <2>1. CASE GetUsersHistoryMessage \/ ToSendDone \/ UseTryTicketProc \/ NoteCount
    BY <2>1, IdleAt DEF GetUsersHistoryMessage, ToSendDone, UseTryTicketProc, NoteCount
  <2>2. CASE CheckToSendUser
    <3>1. PICK u \in req.users : req' = [at |-> "to send", users |-> req.users \ {u}]
      BY <2>2 DEF CheckToSendUser
    <3>2. req'.at = "to send" /\ req.at = "to send"
      BY <2>2, <3>1 DEF CheckToSendUser
    <3>. QED BY <3>2
  <2>3. CASE GetCountProc
    <3>1. PICK a \in {"note count", "fail"} : req' = [at |-> a, user |-> req.user]
      BY <2>3 DEF GetCountProc
    <3>2. req'.at = a /\ req.at = "count"
      BY <2>3, <3>1 DEF GetCountProc
    <3>. QED BY <3>2
  <2>4. CASE req' = req
    BY <2>4
  <2>. QED BY <2>1, <2>2, <2>3, <2>4 DEF Calm, CheckCouponProc, NoteOpt, Logout, LogoutDone, OnQueryChatRecordMutiple, OnGetTalkList,
         LinkLost, OnLogin, Login, CheckCoupon, HttpStep, OnCheckCoupon, OnExternCheck, OnUseCoupon, OnGetCount,
         OnUseTryTicket, OnTalkEvent, threads
<1>4. cb.at = "upload" <=> cb'.at = "upload"
  <2>1. CASE \E u \in Users : OnGetCount(u)
    <3>1. cb.at = "idle" /\ (cb' = cb \/ cb'.at = "fail")
      <4>1. PICK u \in Users : cb = Idle /\ (cb' = cb \/ cb' = [at |-> "fail", user |-> u])
        BY <2>1 DEF OnGetCount, MutexFree
      <4>2. cb' = cb \/ cb'.at = "fail"
        BY <4>1
      <4>. QED BY <4>1, <4>2, IdleAt
    <3>. QED BY <3>1
  <2>2. CASE cb' = cb
    BY <2>2
  <2>. QED BY <2>1, <2>2 DEF Calm, CheckCouponProc, NoteOpt, Logout, LogoutDone, GetUsersHistoryMessage, CheckToSendUser, ToSendDone,
         UseTryTicketProc, GetCountProc, NoteCount, OnQueryChatRecordMutiple, OnGetTalkList, LinkLost, OnLogin, Login,
         CheckCoupon, HttpStep, OnCheckCoupon, OnExternCheck, OnUseCoupon, OnUseTryTicket, OnTalkEvent, threads
<1>. QED BY <1>1, <1>2, <1>3, <1>4, Unmoved

LEMMA LostBeforeKept ==
  ASSUME Counters, Lasting, LostBefore, Next
  PROVE  LostBefore'
<1>1. CASE LinkLost \/ Logout
  <2>1. ~Undisturbed'
    BY <1>1, Counting DEF LinkLost, Logout, Next
  <2>. QED BY <2>1 DEF LostBefore
<1>2. CASE OnLogout \/ OnLogin
  BY <1>2 DEF LostBefore, OnLogout, OnLogin
<1>3. CASE UNCHANGED <<linked, online>>
  BY <1>3 DEF LostBefore, Lasting
<1>4. LinkLost \/ Logout \/ OnLogout \/ OnLogin \/ UNCHANGED <<linked, online>>
  BY DEF Next, Step, AppStep, RequestStep, HttpStep, SendTextMessage, OnUpload, OnSendAnswer, CheckCoupon,
         OnCheckCoupon, OnExternCheck, OnUseCoupon, OnGetCount, OnUseTryTicket, OnTalkEvent, Note, SendNow,
         SendLater, InsertSendMsgList, CheckCouponProc, NoteOpt, LogoutDone, GetUsersHistoryMessage,
         CheckToSendUser, ToSendDone, SendNext, ListSent, UseTryTicketProc, GetCountProc, NoteCount,
         FailByRequest, PopRequestTask, FailByHttp, OnQueryChatRecordMutiple, OnGetTalkList, OnLoginFail, Login,
         net, gate
<1>. QED BY <1>1, <1>2, <1>3, <1>4

-----------------------------------------------------------------------------
(* Steps that move a message                                               *)

LEMMA Same ==
  /\ app' = app => \A m \in Messages : Begun(m)' <=> Begun(m)
  /\ req' = req /\ sendList' = sendList => \A m \in Messages : Listed(m)' <=> Listed(m)
  /\ hand' = hand => \A m \in Messages : Carried(m)' <=> Carried(m)
  /\ sendingMap' = sendingMap /\ requestMap' = requestMap /\ uploads' = uploads =>
       \A m \in Messages : Noted(m)' <=> Noted(m)
<1>1. app' = app => \A m \in Messages : Begun(m)' <=> Begun(m)
  BY DEF Begun
<1>2. req' = req /\ sendList' = sendList => \A m \in Messages : Listed(m)' <=> Listed(m)
  BY DEF Listed, Locked
<1>3. hand' = hand => \A m \in Messages : Carried(m)' <=> Carried(m)
  BY DEF Carried
<1>4. sendingMap' = sendingMap /\ requestMap' = requestMap /\ uploads' = uploads =>
        \A m \in Messages : Noted(m)' <=> Noted(m)
  BY DEF Noted
<1>. QED BY <1>1, <1>2, <1>3, <1>4

\* Only x changes its place.
LEMMA Moved ==
  ASSUME Places, Lasting, UNCHANGED setup, NEW x \in Messages, InOrder(x)',
         \A m \in Messages \ {x} : /\ Begun(m)' <=> Begun(m)
                                   /\ Listed(m)' <=> Listed(m)
                                   /\ Carried(m)' <=> Carried(m)
                                   /\ Noted(m)' <=> Noted(m)
                                   /\ status'[m] = status[m]
  PROVE  \A m \in Messages : InOrder(m)'
<1>1. ASSUME NEW m \in Messages, m # x PROVE InOrder(m)'
  <2>1. InOrder(m) /\ (Kept(m)' => Kept(m))
    BY StillKept DEF Places
  <2>2. Held(m)' <=> Held(m)
    BY <1>1 DEF Held
  <2>. QED BY <1>1, <2>1, <2>2 DEF InOrder
<1>. QED BY <1>1

LEMMA WriteGoods ==
  ASSUME Counters, Flow, Goods, Places, Lasting, UNCHANGED setup,
         NEW x \in Messages, SendTextMessage(x)
  PROVE  Goods' /\ Places'
<1>1. /\ app = Idle /\ hand["app"] = None /\ status[x] = "Unprocess"
      /\ status' = [status EXCEPT ![x] = "Processing"]
      /\ UNCHANGED <<sendList, req, cb, hand, sendingMap, requestMap, uploads, wire>>
  BY DEF SendTextMessage, net, notes
<1>2. PICK a \in {"later", "check", "now"} : app' = [at |-> a, m |-> x]
  BY Zenon DEF SendTextMessage
<1>3. app'.at \in {"later", "wait", "check", "now"} /\ app'.m = x
  BY <1>2
<1>4. /\ status' \in [Messages -> {"Unprocess", "Processing"} \union Final]
      /\ status'[x] = "Processing" /\ \A m \in Messages \ {x} : status'[m] = status[m]
  BY <1>1 DEF Goods
<1>5. Goods'
  BY <1>1, <1>4 DEF Goods
<1>6. /\ \A m \in Messages : Listed(m)' <=> Listed(m)
      /\ \A m \in Messages : Carried(m)' <=> Carried(m)
      /\ \A m \in Messages : Noted(m)' <=> Noted(m)
  BY <1>1, Same
<1>7. \A m \in Messages : ~Begun(m) /\ (Begun(m)' <=> m = x)
  BY <1>1, <1>3, IdleAt DEF Begun
<1>8. ~Held(x)
  BY <1>1 DEF Places, InOrder
<1>9. InOrder(x)'
  BY <1>4, <1>6, <1>7, <1>8 DEF InOrder, Held
<1>10. \A m \in Messages : InOrder(m)'
  BY <1>4, <1>6, <1>7, <1>9, Moved
<1>11. OneByOne' /\ OneAtATime'
  BY <1>1 DEF Places, OneByOne, OneAtATime
<1>12. NotedLast'
  <2>1. x \notin requestMap /\ requestMap \subseteq Messages
    BY <1>1, Photos DEF Places, NotedLast
  <2>. QED BY <1>1, <1>4, <1>6, <1>7, <2>1 DEF Places, NotedLast
<1>. QED BY <1>5, <1>10, <1>11, <1>12 DEF Places

\* SendTextMessageProc or SendPhotoProc: the message is in the thread's hands, or it failed.
LEMMA SentOn ==
  ASSUME Counters, Goods, UNCHANGED setup, NEW t \in {"app", "request"}, NEW x \in Messages, SendMessageItem(t, x)
  PROVE  /\ \/ hand' = [hand EXCEPT ![t] = x] /\ status' = status /\ (x \in setup.photos => x \in uploads')
            \/ hand' = hand /\ status' = [status EXCEPT ![x] = "Fail"]
         /\ uploads \subseteq uploads' /\ uploads' \subseteq uploads \union {x} /\ uploads' \subseteq setup.photos
         /\ wire' \subseteq Messages
<1>1. CASE x \in setup.photos
  BY <1>1 DEF SendMessageItem, StartUpload, Goods
<1>2. CASE x \notin setup.photos
  BY <1>2 DEF SendMessageItem, ClientSend, Goods
<1>. QED BY <1>1, <1>2

\* What follows for message x, which was in no map, and for the others.
LEMMA SentPlaces ==
  ASSUME Counters, Goods, Places, UNCHANGED <<setup, sendingMap, requestMap, cb>>,
         NEW t \in {"app", "request"}, NEW x \in Messages, SendMessageItem(t, x),
         hand[t] = None, Begun(x) \/ Listed(x)
  PROVE  /\ hand' \in [Threads -> Messages \union {None}]
         /\ status' \in [Messages -> {"Unprocess", "Processing"} \union Final]
         /\ uploads' \subseteq setup.photos /\ wire' \subseteq Messages
         /\ cb'.at = "upload" <=> hand'["http"] # None
         /\ \A s \in Threads \ {t} : hand'[s] = hand[s]
         /\ \A r, s \in Threads : hand'[r] = hand'[s] => r = s \/ hand'[r] = None
         /\ \A s \in {"app", "request"} : ~setup.early /\ hand'[s] \in setup.photos => hand'[s] \in uploads'
         /\ sendingMap' \intersect requestMap' \intersect uploads' = {}
         /\ x \notin requestMap /\ ~Noted(x)'
         /\ \A m \in Messages \ {x} : (Carried(m)' <=> Carried(m)) /\ (Noted(m)' <=> Noted(m)) /\ status'[m] = status[m]
         /\ \/ status'[x] = "Processing" /\ Carried(x)' /\ hand'[t] = x
            \/ status'[x] = "Fail" /\ ~Carried(x)' /\ hand'[t] = None
<1>1. /\ status[x] = "Processing" /\ ~Carried(x) /\ ~Noted(x) /\ x \notin requestMap /\ x \notin sendingMap
      /\ x # None /\ t \in Threads /\ t # "http"
  <2>1. InOrder(x) /\ x \notin requestMap
    BY DEF Places, NotedLast
  <2>2. x # None /\ t \in Threads
    BY CouponAssumption DEF Threads
  <2>. QED BY <2>1, <2>2 DEF InOrder, Held, Noted
<1>2. /\ uploads \subseteq uploads' /\ uploads' \subseteq uploads \union {x} /\ uploads' \subseteq setup.photos
      /\ wire' \subseteq Messages
  BY SentOn
<1>3. ~Noted(x)' /\ \A m \in Messages \ {x} : Noted(m)' <=> Noted(m)
  BY <1>1, <1>2 DEF Noted
<1>4. sendingMap' \intersect requestMap' \intersect uploads' = {}
  BY <1>1, <1>2 DEF Places, NotedLast
<1>5. CASE hand' = [hand EXCEPT ![t] = x] /\ status' = status /\ (x \in setup.photos => x \in uploads')
  <2>1. /\ hand' \in [Threads -> Messages \union {None}]
        /\ hand'[t] = x /\ \A s \in Threads \ {t} : hand'[s] = hand[s]
    BY <1>1, <1>5 DEF Goods
  <2>2. cb'.at = "upload" <=> hand'["http"] # None
    BY <1>1, <2>1 DEF Goods, Threads
  <2>3. \A s \in Threads : hand[s] # x
    BY <1>1 DEF Carried
  <2>4. \A r, s \in Threads : hand'[r] = hand'[s] => r = s \/ hand'[r] = None
    BY <2>1, <2>3 DEF Places, OneAtATime
  <2>5. \A s \in {"app", "request"} : ~setup.early /\ hand'[s] \in setup.photos => hand'[s] \in uploads'
    BY <1>2, <1>5, <2>1 DEF Places, NotedLast, Threads
  <2>6. Carried(x)' /\ \A m \in Messages \ {x} : Carried(m)' <=> Carried(m)
    <3>1. \A m \in Messages \ {x} : m # None
      BY CouponAssumption
    <3>. QED BY <1>1, <2>1, <3>1 DEF Carried
  <2>7. status' \in [Messages -> {"Unprocess", "Processing"} \union Final]
    BY <1>5 DEF Goods
  <2>. QED BY <1>1, <1>2, <1>3, <1>4, <1>5, <2>1, <2>2, <2>4, <2>5, <2>6, <2>7
<1>6. CASE hand' = hand /\ status' = [status EXCEPT ![x] = "Fail"]
  <2>1. /\ status' \in [Messages -> {"Unprocess", "Processing"} \union Final]
        /\ status'[x] = "Fail" /\ \A m \in Messages \ {x} : status'[m] = status[m]
    BY <1>6 DEF Goods, Final
  <2>2. \A m \in Messages : Carried(m)' <=> Carried(m)
    BY <1>6, Same
  <2>3. /\ hand' \in [Threads -> Messages \union {None}]
        /\ cb'.at = "upload" <=> hand'["http"] # None
        /\ \A s \in Threads \ {t} : hand'[s] = hand[s]
    BY <1>6 DEF Goods
  <2>4. \A r, s \in Threads : hand'[r] = hand'[s] => r = s \/ hand'[r] = None
    BY <1>6 DEF Places, OneAtATime
  <2>5. \A s \in {"app", "request"} : ~setup.early /\ hand'[s] \in setup.photos => hand'[s] \in uploads'
    BY <1>2, <1>6 DEF Places, NotedLast
  <2>. QED BY <1>1, <1>2, <1>3, <1>4, <1>6, <2>1, <2>2, <2>3, <2>4, <2>5
<1>. QED BY <1>5, <1>6, SentOn

LEMMA SendNowGoods ==
  ASSUME Counters, Flow, Goods, Places, Lasting, UNCHANGED setup, SendNow
  PROVE  Goods' /\ Places'
<1>1. /\ app.at = "now" /\ app' = Idle /\ SendMessageItem("app", app.m)
      /\ UNCHANGED <<sendList, req, cb, sendingMap, requestMap>>
  BY DEF SendNow, notes
<1>2. PICK x \in Messages : x = app.m
  BY <1>1, Writers
<1>3. Begun(x) /\ hand["app"] = None /\ SendMessageItem("app", x)
  BY <1>1, <1>2, IdleAt DEF Begun, Places, OneAtATime
<1>4. /\ hand' \in [Threads -> Messages \union {None}]
      /\ status' \in [Messages -> {"Unprocess", "Processing"} \union Final]
      /\ uploads' \subseteq setup.photos /\ wire' \subseteq Messages
      /\ cb'.at = "upload" <=> hand'["http"] # None
      /\ \A s \in Threads \ {"app"} : hand'[s] = hand[s]
      /\ \A r, s \in Threads : hand'[r] = hand'[s] => r = s \/ hand'[r] = None
      /\ \A s \in {"app", "request"} : ~setup.early /\ hand'[s] \in setup.photos => hand'[s] \in uploads'
      /\ sendingMap' \intersect requestMap' \intersect uploads' = {}
      /\ x \notin requestMap /\ ~Noted(x)'
      /\ \A m \in Messages \ {x} : (Carried(m)' <=> Carried(m)) /\ (Noted(m)' <=> Noted(m)) /\ status'[m] = status[m]
      /\ \/ status'[x] = "Processing" /\ Carried(x)' /\ hand'["app"] = x
         \/ status'[x] = "Fail" /\ ~Carried(x)' /\ hand'["app"] = None
  BY <1>1, <1>3, SentPlaces
<1>5. Goods'
  BY <1>1, <1>4 DEF Goods
<1>6. \A m \in Messages : Listed(m)' <=> Listed(m)
  BY <1>1, Same
<1>7. \A m \in Messages : ~Begun(m)' /\ (Begun(m) <=> m = x)
  BY <1>1, <1>2, IdleAt DEF Begun
<1>8. ~Listed(x)
  BY <1>3 DEF Places, InOrder
<1>9. InOrder(x)'
  BY <1>4, <1>6, <1>7, <1>8 DEF InOrder, Held
<1>10. \A m \in Messages : InOrder(m)'
  BY <1>4, <1>6, <1>7, <1>9, Moved
<1>11. OneByOne' /\ OneAtATime'
  BY <1>1, <1>4 DEF Places, OneByOne, OneAtATime
<1>12. NotedLast'
  <2>1. requestMap \subseteq Messages
    BY Photos
  <2>2. {"app", "request"} \subseteq Threads
    BY DEF Threads
  <2>3. ASSUME NEW m \in requestMap' PROVE status'[m] # "Unprocess" /\ m \notin {hand'["app"], hand'["request"]}
    <3>1. m \in Messages \ {x} /\ m \in requestMap /\ m # None
      BY <1>1, <1>4, <2>1, CouponAssumption
    <3>2. status'[m] = status[m] /\ hand'["request"] = hand["request"] /\ hand'["app"] # m
      BY <1>4, <2>2, <3>1
    <3>. QED BY <3>1, <3>2 DEF Places, NotedLast
  <2>. QED BY <1>1, <1>4, <1>6, <1>7, <2>1, <2>3 DEF Places, NotedLast
<1>. QED BY <1>5, <1>10, <1>11, <1>12 DEF Places

LEMMA SendNextGoods ==
  ASSUME Counters, Flow, Goods, Places, Lasting, UNCHANGED setup, SendNext
  PROVE  Goods' /\ Places'
<1>1. /\ req.at = "send" /\ req.left # <<>> /\ hand["request"] = None
      /\ SendMessageItem("request", Head(req.left)) /\ req' = [req EXCEPT !.left = Tail(req.left)]
      /\ UNCHANGED <<sendList, app, cb, sendingMap, requestMap>>
  BY DEF SendNext, notes
<1>2. PICK x, l, u : x = Head(req.left) /\ l = Tail(req.left) /\ u = req.user
  OBVIOUS
<1>3. /\ req.left \in Seq(Messages) /\ u \in Users
      /\ req' = [at |-> "send", user |-> u, left |-> l]
  BY <1>1, <1>2, Sendings DEF Flow
<1>4. req'.at = "send" /\ req'.user = u /\ req'.left = l
  BY <1>3
<1>5. /\ x \in Messages /\ ToSet(req.left) = ToSet(l) \union {x} /\ x \notin ToSet(l) /\ IsInjective(l)
      /\ ToSet(req.left) \subseteq ToSet(sendList[u])
  BY <1>1, <1>2, <1>3, Shortened DEF Places, OneByOne
<1>6. To[x] = u
  BY <1>3, <1>5 DEF Goods
<1>7. Listed(x) /\ ~Listed(x)' /\ \A m \in Messages \ {x} : Listed(m)' <=> Listed(m)
  <2>1. \A v : (Locked(v) <=> v = u) /\ (Locked(v)' <=> v = u)
    BY <1>1, <1>2, <1>4 DEF Locked
  <2>. QED BY <1>1, <1>4, <1>5, <1>6, <2>1 DEF Listed
<1>8. SendMessageItem("request", x)
  BY <1>1, <1>2
<1>9. /\ hand' \in [Threads -> Messages \union {None}]
      /\ status' \in [Messages -> {"Unprocess", "Processing"} \union Final]
      /\ uploads' \subseteq setup.photos /\ wire' \subseteq Messages
      /\ cb'.at = "upload" <=> hand'["http"] # None
      /\ \A s \in Threads \ {"request"} : hand'[s] = hand[s]
      /\ \A r, s \in Threads : hand'[r] = hand'[s] => r = s \/ hand'[r] = None
      /\ \A s \in {"app", "request"} : ~setup.early /\ hand'[s] \in setup.photos => hand'[s] \in uploads'
      /\ sendingMap' \intersect requestMap' \intersect uploads' = {}
      /\ x \notin requestMap /\ ~Noted(x)'
      /\ \A m \in Messages \ {x} : (Carried(m)' <=> Carried(m)) /\ (Noted(m)' <=> Noted(m)) /\ status'[m] = status[m]
      /\ \/ status'[x] = "Processing" /\ Carried(x)' /\ hand'["request"] = x
         \/ status'[x] = "Fail" /\ ~Carried(x)' /\ hand'["request"] = None
  BY <1>1, <1>5, <1>7, <1>8, SentPlaces
<1>10. Goods'
  BY <1>1, <1>9 DEF Goods
<1>11. (\A m \in Messages : Begun(m)' <=> Begun(m)) /\ ~Begun(x)
  BY <1>1, <1>5, <1>7, Same DEF Places, InOrder
<1>12. InOrder(x)'
  BY <1>5, <1>7, <1>9, <1>11 DEF InOrder, Held
<1>13. \A m \in Messages : InOrder(m)'
  BY <1>5, <1>7, <1>9, <1>11, <1>12, Moved
<1>14. OneByOne'
  BY <1>1, <1>4, <1>5 DEF OneByOne
<1>15. OneAtATime'
  BY <1>1, <1>9 DEF Places, OneAtATime, Threads
<1>16. NotedLast'
  <2>1. requestMap \subseteq Messages
    BY Photos
  <2>2. {"app", "request"} \subseteq Threads
    BY DEF Threads
  <2>3. ASSUME NEW m \in requestMap' PROVE status'[m] # "Unprocess" /\ m \notin {hand'["app"], hand'["request"]}
    <3>1. m \in Messages \ {x} /\ m \in requestMap /\ m # None
      BY <1>1, <1>9, <2>1, CouponAssumption
    <3>2. status'[m] = status[m] /\ hand'["app"] = hand["app"] /\ hand'["request"] # m
      BY <1>9, <2>2, <3>1
    <3>. QED BY <3>1, <3>2 DEF Places, NotedLast
  <2>. QED BY <1>1, <1>7, <1>9, <1>11, <2>1, <2>3 DEF Places, NotedLast
<1>. QED BY <1>10, <1>13, <1>14, <1>15, <1>16 DEF Places

\* A message that is turned away is in no place, and not to be kept.
LEMMA LaterGoods ==
  ASSUME Counters, Flow, Goods, Places, Lasting, UNCHANGED setup, SendLater
  PROVE  Goods' /\ Places'
<1>1. PICK x : x = app.m
  OBVIOUS
<1>2. /\ app.at = "later"
      /\ app' = [app EXCEPT !.at = "wait"] \/ (app' = Idle /\ x \in turned')
      /\ UNCHANGED <<sendList, req, cb, hand, sendingMap, requestMap, uploads, wire, status>>
  BY <1>1 DEF SendLater, net, notes
<1>3. x \in Messages /\ app = [at |-> "later", m |-> x]
  BY <1>1, <1>2, AppsAre DEF Flow
<1>4. \/ app'.at = "wait" /\ app'.m = x
      \/ app'.at = "idle" /\ x \in turned'
  BY <1>2, <1>3, IdleAt
<1>5. /\ \A m \in Messages : Listed(m)' <=> Listed(m)
      /\ \A m \in Messages : Carried(m)' <=> Carried(m)
      /\ \A m \in Messages : Noted(m)' <=> Noted(m)
  BY <1>2, Same
<1>6. Begun(x) /\ (Begun(x)' \/ ~Kept(x)') /\ \A m \in Messages \ {x} : ~Begun(m) /\ ~Begun(m)'
  BY <1>1, <1>2, <1>4 DEF Begun, Kept
<1>7. ~Listed(x) /\ ~Carried(x) /\ ~Noted(x) /\ status[x] = "Processing"
  BY <1>3, <1>6 DEF Places, InOrder, Held
<1>8. InOrder(x)'
  BY <1>2, <1>3, <1>5, <1>6, <1>7 DEF InOrder, Held
<1>9. \A m \in Messages : InOrder(m)'
  BY <1>2, <1>3, <1>5, <1>6, <1>8, Moved
<1>10. Goods' /\ OneByOne'
  BY <1>2 DEF Goods, Places, OneByOne
<1>11. OneAtATime'
  <2>1. app # Idle
    BY <1>2, IdleAt
  <2>. QED BY <1>2, <2>1 DEF Places, OneAtATime
<1>12. NotedLast'
  <2>1. requestMap \subseteq Messages
    BY Photos
  <2>2. x \notin requestMap
    BY <1>6 DEF Places, NotedLast
  <2>. QED BY <1>2, <1>5, <1>6, <2>1, <2>2 DEF Places, NotedLast
<1>. QED BY <1>9, <1>10, <1>11, <1>12 DEF Places

LEMMA InsertGoods ==
  ASSUME Counters, Flow, Goods, Places, Lasting, UNCHANGED setup, InsertSendMsgList
  PROVE  Goods' /\ Places'
<1>1. PICK x, u : x = app.m /\ u = To[app.m]
  OBVIOUS
<1>2. /\ app.at \in {"wait", "check"} /\ ~Locked(u)
      /\ sendList' = [sendList EXCEPT ![u] = Append(sendList[u], x)]
      /\ app' = Idle \/ app' = [at |-> "ask", m |-> app.m]
      /\ UNCHANGED <<req, cb, hand, sendingMap, requestMap, uploads, wire, status>>
  BY <1>1 DEF InsertSendMsgList, net, notes
<1>3. x \in Messages /\ u \in Users /\ To[x] = u
  BY <1>1, <1>2, Writers
<1>4. app'.at \notin {"later", "wait", "check", "now"}
  BY <1>2, IdleAt
<1>5. Begun(x) /\ \A m \in Messages : ~Begun(m)' /\ (Begun(m) <=> m = x)
  BY <1>1, <1>2, <1>4 DEF Begun
<1>6. ~Listed(x) /\ ~Carried(x) /\ ~Noted(x) /\ status[x] = "Processing" /\ x \notin requestMap
  BY <1>3, <1>5 DEF Places, InOrder, Held, NotedLast
<1>7. x \notin ToSet(sendList[u])
  BY <1>2, <1>3, <1>6 DEF Listed
<1>8. /\ sendList'[u] \in Seq(Messages) /\ ToSet(sendList'[u]) = ToSet(sendList[u]) \union {x}
      /\ IsInjective(sendList'[u])
      /\ \A v \in Users \ {u} : sendList'[v] = sendList[v]
      /\ sendList' \in [Users -> Seq(Messages)]
  <2>1. sendList[u] \in Seq(Messages) /\ IsInjective(sendList[u])
    BY <1>3 DEF Goods
  <2>2. /\ Append(sendList[u], x) \in Seq(Messages) /\ IsInjective(Append(sendList[u], x))
        /\ ToSet(Append(sendList[u], x)) = ToSet(sendList[u]) \union {x}
    BY <1>3, <1>7, <2>1, Appended
  <2>3. sendList'[u] = Append(sendList[u], x) /\ \A v \in Users \ {u} : sendList'[v] = sendList[v]
    BY <1>2, <1>3 DEF Goods
  <2>4. sendList' \in [Users -> Seq(Messages)]
    BY <1>2, <2>2 DEF Goods
  <2>. QED BY <2>2, <2>3, <2>4
<1>9. \A v \in Users : IsInjective(sendList'[v]) /\ \A m \in ToSet(sendList'[v]) : To[m] = v
  BY <1>3, <1>8 DEF Goods
<1>10. Goods'
  BY <1>2, <1>8, <1>9 DEF Goods
<1>11. Listed(x)' /\ \A m \in Messages \ {x} : Listed(m)' <=> Listed(m)
  <2>1. \A v : Locked(v)' <=> Locked(v)
    BY <1>2 DEF Locked
  <2>2. Listed(x)'
    BY <1>2, <1>3, <1>8, <2>1 DEF Listed
  <2>3. ASSUME NEW m \in Messages \ {x} PROVE Listed(m)' <=> Listed(m)
    <3>1. To[m] \in Users
      BY CouponAssumption
    <3>2. m \in ToSet(sendList'[To[m]]) <=> m \in ToSet(sendList[To[m]])
      BY <1>8, <3>1
    <3>. QED BY <1>2, <2>1, <3>2 DEF Listed
  <2>. QED BY <2>2, <2>3
<1>12. /\ \A m \in Messages : Carried(m)' <=> Carried(m)
       /\ \A m \in Messages : Noted(m)' <=> Noted(m)
  BY <1>2, Same
<1>13. InOrder(x)'
  BY <1>2, <1>3, <1>5, <1>6, <1>11, <1>12 DEF InOrder, Held
<1>14. \A m \in Messages : InOrder(m)'
  BY <1>2, <1>3, <1>5, <1>11, <1>12, <1>13, Moved
<1>15. OneByOne'
  <2>1. req.at = "send" => req.user \in Users \ {u}
    BY <1>2, Writers DEF Locked
  <2>. QED BY <1>2, <1>8, <2>1 DEF Places, OneByOne
<1>16. OneAtATime'
  <2>1. app # Idle
    BY <1>2, IdleAt
  <2>. QED BY <1>2, <2>1 DEF Places, OneAtATime
<1>17. NotedLast'
  <2>1. requestMap \subseteq Messages
    BY Photos
  <2>. QED BY <1>2, <1>5, <1>6, <1>11, <2>1 DEF Places, NotedLast
<1>. QED BY <1>10, <1>14, <1>15, <1>16, <1>17 DEF Places

\* The lists change hands, and each message stays where it is.
LEMMA ListsPassed ==
  ASSUME Counters, Goods, Places, Lasting, UNCHANGED <<setup, status, notes, uploads, hand, app>>,
         \A m \in Messages : Listed(m)' <=> Listed(m),
         OneByOne'
  PROVE  Places'
<1>1. /\ \A m \in Messages : Begun(m)' <=> Begun(m)
      /\ \A m \in Messages : Carried(m)' <=> Carried(m)
      /\ \A m \in Messages : Noted(m)' <=> Noted(m)
  BY Same DEF notes
<1>2. ASSUME NEW m \in Messages PROVE InOrder(m)'
  <2>1. InOrder(m) /\ (Kept(m)' => Kept(m)) /\ status'[m] = status[m]
    BY StillKept DEF Places
  <2>2. Held(m)' <=> Held(m)
    BY <1>1 DEF Held
  <2>. QED BY <1>1, <2>1, <2>2 DEF InOrder
<1>3. OneAtATime'
  BY DEF Places, OneAtATime
<1>4. NotedLast'
  <2>1. requestMap \subseteq Messages
    BY Photos
  <2>. QED BY <1>1, <2>1 DEF Places, NotedLast, notes
<1>. QED BY <1>2, <1>3, <1>4 DEF Places

LEMMA PopGoods ==
  ASSUME Counters, Flow, Goods, Places, Lasting, UNCHANGED setup, PopRequestTask
  PROVE  Goods' /\ Places'
<1>1. /\ req = Idle /\ tasks # <<>> /\ UNCHANGED <<sendList, status, notes, wire, uploads, hand, app, cb>>
  BY DEF PopRequestTask, net
<1>2. PICK task \in Tasks : task = Head(tasks)
  BY <1>1, Shortened DEF Flow
<1>3. req' = CASE task.do = "history" -> [at |-> "history", users |-> {u \in Users : chatType[u] \in InChat}]
               [] task.do = "to send" -> [at |-> "to send", users |-> {u \in Users : sendList[u] # <<>>}]
               [] task.do = "send" -> [at |-> "send", user |-> task.user, left |-> sendList[task.user]]
               [] OTHER -> [at |-> task.do, user |-> task.user]
  BY <1>2 DEF PopRequestTask
<1>4. req.at = "idle"
  BY <1>1, IdleAt
<1>5. CASE task.do = "send"
  <2>1. task.user \in Users /\ req' = [at |-> "send", user |-> task.user, left |-> sendList[task.user]]
    BY <1>3, <1>5, TasksAre
  <2>2. req'.at = "send" /\ req'.user = task.user /\ req'.left = sendList[task.user]
    BY <2>1
  <2>3. Goods'
    BY <1>1 DEF Goods, notes
  <2>4. \A m \in Messages : Listed(m)' <=> Listed(m)
    <3>1. \A v : ~Locked(v) /\ (Locked(v)' <=> v = task.user)
      BY <1>4, <2>2 DEF Locked
    <3>. QED BY <1>1, <2>2, <3>1 DEF Listed
  <2>5. OneByOne'
    BY <1>1, <2>1, <2>2 DEF Goods, OneByOne
  <2>. QED BY <1>1, <2>3, <2>4, <2>5, ListsPassed
<1>6. CASE task.do # "send"
  <2>1. task.do \in {"history", "to send", "use", "count"}
    BY <1>6, TasksAre
  <2>2. req'.at = task.do
    <3>1. CASE task.do = "history"
      BY <1>3, <3>1
    <3>2. CASE task.do = "to send"
      BY <1>3, <3>2
    <3>3. CASE task.do \in {"use", "count"}
      BY <1>3, <3>3
    <3>. QED BY <2>1, <3>1, <3>2, <3>3
  <2>3. req'.at # "send" /\ req.at # "send"
    BY <1>4, <2>1, <2>2
  <2>4. app' # Idle => hand["app"] = None
    BY <1>1 DEF Places, OneAtATime
  <2>. QED BY <1>1, <2>3, <2>4, Unmoved
<1>. QED BY <1>5, <1>6

LEMMA ListSentGoods ==
  ASSUME Counters, Flow, Goods, Places, Lasting, UNCHANGED setup, ListSent
  PROVE  Goods' /\ Places'
<1>1. PICK u : u = req.user
  OBVIOUS
<1>2. /\ req.at = "send" /\ req.left = <<>> /\ req' = Idle
      /\ sendList' = [sendList EXCEPT ![u] = <<>>]
      /\ UNCHANGED <<status, notes, wire, uploads, hand, app, cb>>
  BY <1>1 DEF ListSent, net
<1>3. u \in Users
  BY <1>1, <1>2, Writers
<1>4. /\ sendList' \in [Users -> Seq(Messages)]
      /\ sendList'[u] = <<>> /\ \A v \in Users \ {u} : sendList'[v] = sendList[v]
  BY <1>2, <1>3, Emptied DEF Goods
<1>5. \A v \in Users : IsInjective(sendList'[v]) /\ \A m \in ToSet(sendList'[v]) : To[m] = v
  BY <1>4, Emptied DEF Goods
<1>6. Goods'
  BY <1>2, <1>4, <1>5 DEF Goods, notes
<1>7. \A m \in Messages : Listed(m)' <=> Listed(m)
  <2>1. \A v : (Locked(v) <=> v = u) /\ ~Locked(v)'
    BY <1>1, <1>2, IdleAt DEF Locked
  <2>2. ASSUME NEW m \in Messages PROVE Listed(m)' <=> Listed(m)
    <3>1. To[m] \in Users
      BY CouponAssumption
    <3>2. CASE To[m] = u
      BY <1>2, <1>4, <2>1, <3>2, Emptied DEF Listed
    <3>3. CASE To[m] # u
      BY <1>4, <2>1, <3>1, <3>3 DEF Listed
    <3>. QED BY <3>2, <3>3
  <2>. QED BY <2>2
<1>8. OneByOne'
  BY <1>2, IdleAt DEF OneByOne
<1>9. Places'
  BY <1>2, <1>7, <1>8, ListsPassed
<1>. QED BY <1>6, <1>9

\* SendMessageListFailProc of u's list, with req and cb going on.
LEMMA FailGoods ==
  ASSUME Counters, Flow, Goods, Places, Lasting,
         UNCHANGED <<setup, notes, wire, uploads, hand, app>>, NEW u \in Users, FailList(u),
         req' = req \/ (req.at # "send" /\ req' = Idle),
         cb.at = "upload" <=> cb'.at = "upload"
  PROVE  Goods' /\ Places'
<1>1. /\ ~Locked(u)
      /\ sendList' = [sendList EXCEPT ![u] = <<>>]
      /\ status' = [m \in Messages |-> IF m \in ToSet(sendList[u]) THEN "Fail" ELSE status[m]]
  BY DEF FailList
<1>2. /\ sendList' \in [Users -> Seq(Messages)]
      /\ sendList'[u] = <<>> /\ \A v \in Users \ {u} : sendList'[v] = sendList[v]
  BY <1>1, Emptied DEF Goods
<1>3. \A v \in Users : IsInjective(sendList'[v]) /\ \A m \in ToSet(sendList'[v]) : To[m] = v
  BY <1>2, Emptied DEF Goods
<1>4. status' \in [Messages -> {"Unprocess", "Processing"} \union Final]
  <2>1. ASSUME NEW m \in Messages PROVE status'[m] \in {"Unprocess", "Processing"} \union Final
    BY <1>1 DEF Goods, Final
  <2>. QED BY <1>1, <2>1
<1>5. Goods'
  BY <1>2, <1>3, <1>4 DEF Goods, notes
<1>6. \A v : Locked(v)' <=> Locked(v)
  BY IdleAt DEF Locked
<1>7. ASSUME NEW m \in Messages
      PROVE  \/ m \in ToSet(sendList[u]) /\ Listed(m) /\ ~Listed(m)' /\ status'[m] = "Fail"
             \/ m \notin ToSet(sendList[u]) /\ (Listed(m)' <=> Listed(m)) /\ status'[m] = status[m]
  <2>1. To[m] \in Users
    BY CouponAssumption
  <2>2. CASE m \in ToSet(sendList[u])
    <3>1. To[m] = u
      BY <2>2 DEF Goods
    <3>2. Listed(m) /\ ~Listed(m)'
      BY <1>1, <1>2, <1>6, <2>2, <3>1, Emptied DEF Listed
    <3>. QED BY <1>1, <2>2, <3>2
  <2>3. CASE m \notin ToSet(sendList[u])
    <3>1. Listed(m)' <=> Listed(m)
      <4>1. CASE To[m] = u
        BY <1>1, <1>2, <1>6, <2>3, <4>1, Emptied DEF Listed
      <4>2. CASE To[m] # u
        <5>1. sendList'[To[m]] = sendList[To[m]]
          BY <1>2, <2>1, <4>2
        <5>2. Locked(To[m]) => req' = req
          BY DEF Locked
        <5>. QED BY <1>6, <5>1, <5>2 DEF Listed
      <4>. QED BY <4>1, <4>2
    <3>. QED BY <1>1, <2>3, <3>1
  <2>. QED BY <2>2, <2>3
<1>8. /\ \A m \in Messages : Begun(m)' <=> Begun(m)
      /\ \A m \in Messages : Carried(m)' <=> Carried(m)
      /\ \A m \in Messages : Noted(m)' <=> Noted(m)
  BY Same DEF notes
<1>9. ASSUME NEW m \in Messages PROVE InOrder(m)'
  <2>1. InOrder(m) /\ (Kept(m)' => Kept(m))
    BY StillKept DEF Places
  <2>2. CASE Listed(m) /\ ~Listed(m)' /\ status'[m] = "Fail"
    BY <1>8, <2>1, <2>2 DEF InOrder, Held
  <2>3. CASE (Listed(m)' <=> Listed(m)) /\ status'[m] = status[m]
    BY <1>8, <2>1, <2>3 DEF InOrder, Held
  <2>. QED BY <1>7, <2>2, <2>3
<1>10. OneByOne'
  <2>1. req.at = "send" => req.user \in Users \ {u} /\ req' = req
    BY <1>1, Writers, IdleAt DEF Locked
  <2>2. req'.at = "send" => req.at = "send"
    BY IdleAt
  <2>. QED BY <1>2, <2>1, <2>2 DEF Places, OneByOne
<1>11. OneAtATime'
  BY DEF Places, OneAtATime
<1>12. NotedLast'
  <2>1. requestMap \subseteq Messages
    BY Photos
  <2>2. ASSUME NEW m \in requestMap PROVE status'[m] # "Unprocess" /\ ~Listed(m)' /\ ~Begun(m)'
    <3>1. m \in Messages /\ status[m] # "Unprocess" /\ ~Listed(m) /\ ~Begun(m)
      BY <2>1 DEF Places, NotedLast
    <3>. QED BY <1>7, <1>8, <3>1
  <2>. QED BY <2>2 DEF Places, NotedLast, notes
<1>. QED BY <1>5, <1>9, <1>10, <1>11, <1>12 DEF Places

LEMMA ListFailedGoods ==
  ASSUME Counters, Flow, Goods, Places, Lasting, UNCHANGED setup, FailByRequest \/ FailByHttp
  PROVE  Goods' /\ Places'
<1>1. CASE FailByRequest
  <2>1. /\ req.user \in Users /\ FailList(req.user) /\ req.at = "fail" /\ req' = Idle
        /\ UNCHANGED <<notes, wire, uploads, hand, app, cb>>
    BY <1>1, Writers DEF FailByRequest, net
  <2>. QED BY <2>1, FailGoods
<1>2. CASE FailByHttp
  <2>1. /\ cb.user \in Users /\ FailList(cb.user) /\ cb.at = "fail" /\ cb' = Idle
        /\ UNCHANGED <<notes, wire, uploads, hand, app, req>>
    BY <1>2, Writers DEF FailByHttp, net
  <2>2. cb.at = "upload" <=> cb'.at = "upload"
    BY <2>1, IdleAt
  <2>. QED BY <2>1, <2>2, FailGoods
<1>. QED BY <1>1, <1>2

LEMMA NoteGoods ==
  ASSUME Counters, Flow, Goods, Places, Lasting, UNCHANGED setup, NEW t \in Threads, Note(t)
  PROVE  Goods' /\ Places'
<1>1. PICK x : x = hand[t]
  OBVIOUS
<1>2. /\ x # None /\ hand' = [hand EXCEPT ![t] = None]
      /\ \/ t # "http" /\ x \in setup.photos /\ requestMap' = requestMap \union {x} /\ sendingMap' = sendingMap
         \/ (t = "http" \/ x \notin setup.photos) /\ requestMap' = requestMap /\ sendingMap' = sendingMap \union {x}
      /\ cb' = IF t = "http" THEN Idle ELSE cb
      /\ UNCHANGED <<sendList, status, wire, uploads, app, req>>
  BY <1>1 DEF Note, net
<1>3. x \in Messages
  BY <1>1, <1>2 DEF Goods
<1>4. /\ hand' \in [Threads -> Messages \union {None}]
      /\ hand'[t] = None /\ \A s \in Threads \ {t} : hand'[s] = hand[s] /\ hand[s] # x
  BY <1>1, <1>2 DEF Goods, Places, OneAtATime
<1>5. cb'.at = "upload" <=> hand'["http"] # None
  <2>1. CASE t = "http"
    BY <1>2, <1>4, <2>1, IdleAt
  <2>2. CASE t # "http"
    <3>1. hand'["http"] = hand["http"]
      BY <1>4, <2>2 DEF Threads
    <3>. QED BY <1>2, <2>2, <3>1 DEF Goods
  <2>. QED BY <2>1, <2>2
<1>6. Goods'
  BY <1>2, <1>3, <1>4, <1>5 DEF Goods
<1>7. Carried(x) /\ ~Carried(x)' /\ \A m \in Messages \ {x} : Carried(m)' <=> Carried(m)
  <2>1. \A m \in Messages : m # None
    BY CouponAssumption
  <2>2. Carried(x)
    BY <1>1 DEF Carried
  <2>3. ~Carried(x)'
    BY <1>2, <1>4 DEF Carried
  <2>4. ASSUME NEW m \in Messages, m # x PROVE Carried(m)' <=> Carried(m)
    BY <1>1, <1>4, <2>1, <2>4 DEF Carried
  <2>. QED BY <2>2, <2>3, <2>4
<1>8. ~Begun(x) /\ ~Listed(x) /\ ~Noted(x) /\ status[x] = "Processing"
  BY <1>3, <1>7 DEF Places, InOrder, Held
<1>9. /\ \A m \in Messages : Begun(m)' <=> Begun(m)
      /\ \A m \in Messages : Listed(m)' <=> Listed(m)
  BY <1>2, Same
<1>10. \A m \in Messages \ {x} : Noted(m)' <=> Noted(m)
  BY <1>2 DEF Noted
<1>11. ~setup.early => Noted(x)'
  <2>1. CASE t # "http" /\ x \in setup.photos
    <3>1. t \in {"app", "request"}
      BY <2>1 DEF Threads
    <3>2. ~setup.early => x \in uploads
      BY <1>1, <2>1, <3>1 DEF Places, NotedLast
    <3>. QED BY <1>2, <2>1, <3>2 DEF Noted
  <2>2. CASE t = "http" \/ x \notin setup.photos
    BY <1>2, <2>2 DEF Noted
  <2>. QED BY <2>1, <2>2
<1>12. InOrder(x)'
  <2>1. Kept(x)' => ~setup.early
    BY DEF Kept
  <2>. QED BY <1>2, <1>3, <1>7, <1>8, <1>9, <1>11, <2>1 DEF InOrder, Held
<1>13. \A m \in Messages : InOrder(m)'
  BY <1>2, <1>3, <1>7, <1>9, <1>10, <1>12, Moved
<1>14. OneByOne'
  BY <1>2 DEF Places, OneByOne
<1>15. OneAtATime'
  <2>1. app' # Idle => hand'["app"] = None
    BY <1>2, <1>4 DEF Places, OneAtATime, Threads
  <2>2. \A r, s \in Threads : hand'[r] = hand'[s] => r = s \/ hand'[r] = None
    BY <1>4 DEF Places, OneAtATime
  <2>. QED BY <2>1, <2>2 DEF OneAtATime
<1>16. NotedLast'
  <2>1. requestMap \subseteq Messages /\ setup.photos \subseteq Messages /\ {"app", "request"} \subseteq Threads
    BY Photos DEF Threads
  <2>2. \A s \in {"app", "request"} : ~setup.early /\ hand'[s] \in setup.photos => hand'[s] \in uploads'
    <3>1. None \notin setup.photos
      BY <2>1, CouponAssumption
    <3>. QED BY <1>2, <1>4, <2>1, <3>1 DEF Places, NotedLast
  <2>3. sendingMap' \intersect requestMap' \intersect uploads' = {}
    <3>1. x \notin sendingMap /\ (x \in requestMap => x \notin uploads)
      BY <1>8 DEF Noted
    <3>2. sendingMap \intersect requestMap \intersect uploads = {}
      BY DEF Places, NotedLast
    <3>. QED BY <1>2, <3>1, <3>2
  <2>4. ASSUME NEW m \in requestMap'
        PROVE  status'[m] # "Unprocess" /\ ~Begun(m)' /\ ~Listed(m)' /\ m \notin {hand'["app"], hand'["request"]}
    <3>1. CASE m = x
      BY <1>2, <1>3, <1>7, <1>8, <1>9, <2>1, <3>1 DEF Carried
    <3>2. CASE m # x
      <4>1. m \in requestMap /\ m \in Messages /\ m # None
        BY <1>2, <2>1, <3>2, CouponAssumption
      <4>2. status[m] # "Unprocess" /\ ~Begun(m) /\ ~Listed(m) /\ m \notin {hand["app"], hand["request"]}
        BY <4>1 DEF Places, NotedLast
      <4>3. hand'["app"] \in {hand["app"], None} /\ hand'["request"] \in {hand["request"], None}
        BY <1>4, <2>1
      <4>. QED BY <1>2, <1>9, <4>1, <4>2, <4>3
    <3>. QED BY <3>1, <3>2
  <2>. QED BY <2>2, <2>3, <2>4 DEF NotedLast
<1>. QED BY <1>6, <1>13, <1>14, <1>15, <1>16 DEF Places

LEMMA UploadGoods ==
  ASSUME Counters, Flow, Goods, Places, Lasting, UNCHANGED setup, NEW x \in Messages, OnUpload(x)
  PROVE  Goods' /\ Places'
<1>1. /\ cb = Idle /\ x \in uploads /\ uploads' = uploads \ {x}
      /\ setup.early \/ x \notin {hand["app"], hand["request"]}
      /\ UNCHANGED <<sendList, sendingMap, requestMap, app, req>>
  BY DEF OnUpload, MutexFree, notes
<1>2. /\ \A m \in Messages : Begun(m)' <=> Begun(m)
      /\ \A m \in Messages : Listed(m)' <=> Listed(m)
  BY <1>1, Same
<1>3. \A m \in Messages \ {x} : Noted(m)' <=> Noted(m)
  BY <1>1 DEF Noted
<1>4. OneByOne'
  BY <1>1 DEF Places, OneByOne
<1>5. requestMap \subseteq Messages /\ InOrder(x)
  BY Photos DEF Places
<1>6. sendingMap' \intersect requestMap' \intersect uploads' = {}
  BY <1>1 DEF Places, NotedLast
<1>7. CASE /\ x \in requestMap /\ wire' = wire \union {x} /\ hand' = [hand EXCEPT !["http"] = x]
           /\ cb' = [at |-> "upload"] /\ status' = status
  <2>1. hand["http"] = None /\ x # None /\ "http" \in Threads
    BY <1>1, IdleAt, CouponAssumption DEF Goods, Threads
  <2>2. /\ hand' \in [Threads -> Messages \union {None}]
        /\ hand'["http"] = x /\ \A s \in Threads \ {"http"} : hand'[s] = hand[s]
    BY <1>7, <2>1 DEF Goods
  <2>3. cb'.at = "upload"
    BY <1>7
  <2>4. Goods'
    BY <1>1, <1>7, <2>1, <2>2, <2>3 DEF Goods
  <2>5. Noted(x) /\ ~Noted(x)'
    BY <1>1, <1>7 DEF Noted, Places, NotedLast
  <2>6. ~Begun(x) /\ ~Listed(x) /\ ~Carried(x) /\ status[x] = "Processing"
    BY <1>5, <2>5 DEF InOrder, Held
  <2>7. Carried(x)' /\ \A m \in Messages \ {x} : Carried(m)' <=> Carried(m)
    <3>1. \A m \in Messages : m # None
      BY CouponAssumption
    <3>. QED BY <2>1, <2>2, <3>1 DEF Carried
  <2>8. InOrder(x)'
    BY <1>2, <1>7, <2>5, <2>6, <2>7 DEF InOrder, Held
  <2>9. \A m \in Messages : InOrder(m)'
    BY <1>2, <1>3, <1>7, <2>7, <2>8, Moved
  <2>10. OneAtATime'
    <3>1. \A s \in Threads : hand[s] # x
      BY <2>6 DEF Carried
    <3>2. app' # Idle => hand'["app"] = None
      BY <1>1, <2>2 DEF Places, OneAtATime, Threads
    <3>3. \A r, s \in Threads : hand'[r] = hand'[s] => r = s \/ hand'[r] = None
      BY <2>2, <3>1 DEF Places, OneAtATime
    <3>. QED BY <3>2, <3>3 DEF OneAtATime
  <2>11. NotedLast'
    <3>1. hand'["app"] = hand["app"] /\ hand'["request"] = hand["request"]
      BY <2>2 DEF Threads
    <3>2. \A s \in {"app", "request"} : ~setup.early /\ hand'[s] \in setup.photos => hand'[s] \in uploads'
      BY <1>1, <3>1 DEF Places, NotedLast
    <3>. QED BY <1>1, <1>2, <1>5, <1>6, <1>7, <3>1, <3>2 DEF Places, NotedLast
  <2>. QED BY <1>4, <2>4, <2>9, <2>10, <2>11 DEF Places
<1>8. ASSUME hand' = hand, cb' = cb, wire' = wire,
             \/ x \in requestMap /\ status' = [status EXCEPT ![x] = "Fail"]
             \/ x \notin requestMap /\ status' = status
      PROVE  Goods' /\ Places'
  <2>1. /\ status' \in [Messages -> {"Unprocess", "Processing"} \union Final]
        /\ \A m \in Messages \ {x} : status'[m] = status[m]
        /\ x \in requestMap => status'[x] = "Fail"
        /\ x \notin requestMap => status'[x] = status[x]
    BY <1>8 DEF Goods, Final
  <2>2. Goods'
    BY <1>1, <1>8, <2>1 DEF Goods
  <2>3. \A m \in Messages : Carried(m)' <=> Carried(m)
    BY <1>8, Same
  <2>4. InOrder(x)'
    <3>1. CASE x \in requestMap
      <4>1. Noted(x) /\ ~Noted(x)' /\ status'[x] = "Fail"
        BY <1>1, <2>1, <3>1 DEF Noted, Places, NotedLast
      <4>2. ~Begun(x) /\ ~Listed(x) /\ ~Carried(x)
        BY <1>5, <4>1 DEF InOrder
      <4>. QED BY <1>2, <2>3, <4>1, <4>2 DEF InOrder, Held
    <3>2. CASE x \notin requestMap
      <4>1. (Noted(x)' <=> Noted(x)) /\ status'[x] = status[x]
        BY <1>1, <2>1, <3>2 DEF Noted
      <4>2. Kept(x)' => Kept(x)
        BY StillKept
      <4>. QED BY <1>2, <1>5, <2>3, <4>1, <4>2 DEF InOrder, Held
    <3>. QED BY <3>1, <3>2
  <2>5. \A m \in Messages : InOrder(m)'
    BY <1>2, <1>3, <2>1, <2>3, <2>4, Moved
  <2>6. OneAtATime'
    BY <1>1, <1>8 DEF Places, OneAtATime
  <2>7. NotedLast'
    <3>1. \A s \in {"app", "request"} : ~setup.early /\ hand'[s] \in setup.photos => hand'[s] \in uploads'
      BY <1>1, <1>8 DEF Places, NotedLast
    <3>2. ASSUME NEW m \in requestMap PROVE status'[m] # "Unprocess"
      BY <1>5, <2>1 DEF Places, NotedLast
    <3>. QED BY <1>1, <1>2, <1>5, <1>6, <1>8, <3>1, <3>2 DEF Places, NotedLast
  <2>. QED BY <1>4, <2>2, <2>5, <2>6, <2>7 DEF Places
<1>. QED BY <1>7, <1>8 DEF OnUpload

LEMMA AnswerGoods ==
  ASSUME Counters, Flow, Goods, Places, Lasting, UNCHANGED setup, NEW x \in Messages, OnSendAnswer(x)
  PROVE  Goods' /\ Places'
<1>1. /\ wire' = wire \ {x} /\ sendingMap' = sendingMap \ {x}
      /\ UNCHANGED <<sendList, requestMap, uploads, hand, app, req, cb>>
  BY DEF OnSendAnswer, threads
<1>2. \/ x \in sendingMap /\ status' \in [Messages -> {"Unprocess", "Processing"} \union Final]
         /\ status'[x] \in Final /\ \A m \in Messages \ {x} : status'[m] = status[m]
      \/ x \notin sendingMap /\ status' = status
  <2>1. CASE x \in sendingMap /\ \E s \in Final : status' = [status EXCEPT ![x] = s]
    BY <2>1 DEF Goods
  <2>2. CASE x \notin sendingMap /\ status' = status
    BY <2>2
  <2>. QED BY <2>1, <2>2 DEF OnSendAnswer
<1>3. Goods'
  BY <1>1, <1>2 DEF Goods
<1>4. /\ \A m \in Messages : Begun(m)' <=> Begun(m)
      /\ \A m \in Messages : Listed(m)' <=> Listed(m)
      /\ \A m \in Messages : Carried(m)' <=> Carried(m)
  BY <1>1, Same
<1>5. \A m \in Messages \ {x} : (Noted(m)' <=> Noted(m)) /\ status'[m] = status[m]
  BY <1>1, <1>2 DEF Noted
<1>6. InOrder(x)'
  <2>1. InOrder(x) /\ (Kept(x)' => Kept(x))
    BY StillKept DEF Places
  <2>2. CASE x \in sendingMap
    <3>1. Noted(x) /\ ~Noted(x)'
      BY <1>1, <2>2 DEF Noted, Places, NotedLast
    <3>2. ~Begun(x) /\ ~Listed(x) /\ ~Carried(x)
      BY <2>1, <3>1 DEF InOrder
    <3>3. status'[x] # "Processing"
      BY <1>2, <2>2 DEF Final
    <3>. QED BY <1>4, <3>1, <3>2, <3>3 DEF InOrder, Held
  <2>3. CASE x \notin sendingMap
    <3>1. (Noted(x)' <=> Noted(x)) /\ status'[x] = status[x]
      BY <1>1, <1>2, <2>3 DEF Noted
    <3>. QED BY <1>4, <2>1, <3>1 DEF InOrder, Held
  <2>. QED BY <2>2, <2>3
<1>7. \A m \in Messages : InOrder(m)'
  BY <1>4, <1>5, <1>6, Moved
<1>8. OneByOne' /\ OneAtATime'
  BY <1>1 DEF Places, OneByOne, OneAtATime
<1>9. NotedLast'
  <2>1. requestMap \subseteq Messages
    BY Photos
  <2>2. ASSUME NEW m \in requestMap PROVE status'[m] # "Unprocess"
    BY <1>2, <2>1 DEF Places, NotedLast, Final
  <2>3. \A s \in {"app", "request"} : ~setup.early /\ hand'[s] \in setup.photos => hand'[s] \in uploads'
    BY <1>1 DEF Places, NotedLast
  <2>4. sendingMap' \intersect requestMap' \intersect uploads' = {}
    BY <1>1 DEF Places, NotedLast
  <2>. QED BY <1>1, <1>4, <2>1, <2>2, <2>3, <2>4 DEF Places, NotedLast
<1>. QED BY <1>3, <1>7, <1>8, <1>9 DEF Places

\* A photo that is forgotten here has lost its connection, or was given up.
LEMMA ResetGoods ==
  ASSUME Counters, Flow, Goods, Places, Lasting, UNCHANGED setup, ~Undisturbed', requestMap' = {},
         UNCHANGED <<sendList, sendingMap, wire, uploads, hand, app, req, cb, status>>
  PROVE  Goods' /\ Places'
<1>1. Goods'
  BY DEF Goods
<1>2. /\ \A m \in Messages : Begun(m)' <=> Begun(m)
      /\ \A m \in Messages : Listed(m)' <=> Listed(m)
      /\ \A m \in Messages : Carried(m)' <=> Carried(m)
  BY Same
<1>3. ASSUME NEW m \in Messages PROVE InOrder(m)'
  <2>1. InOrder(m) /\ (Kept(m)' => Kept(m)) /\ status'[m] = status[m]
    BY StillKept DEF Places
  <2>2. Noted(m)' => Noted(m)
    BY DEF Noted
  <2>3. Noted(m) => Noted(m)' \/ ~Kept(m)'
    BY DEF Noted, Kept, Goods
  <2>. QED BY <1>2, <2>1, <2>2, <2>3 DEF InOrder, Held
<1>4. OneByOne' /\ OneAtATime' /\ NotedLast'
  BY DEF Places, OneByOne, OneAtATime, NotedLast
<1>. QED BY <1>1, <1>3, <1>4 DEF Places

LEMMA LogoutGoods ==
  ASSUME Counters, Flow, Goods, Places, Lasting, LostBefore, UNCHANGED setup, OnLogout \/ OnLoginFail
  PROVE  Goods' /\ Places'
<1>1. UNCHANGED <<sendList, sendingMap, wire, uploads, hand, app, req, cb, status>>
  BY DEF OnLogout, OnLoginFail, net, threads
<1>2. ~Undisturbed'
  <2>1. CASE OnLogout
    BY <2>1 DEF OnLogout, LostBefore, Lasting
  <2>2. CASE OnLoginFail
    BY <2>2, Counting DEF OnLoginFail
  <2>. QED BY <2>1, <2>2
<1>3. CASE requestMap' = {}
  BY <1>1, <1>2, <1>3, ResetGoods
<1>4. CASE requestMap' = requestMap
  <2>1. app' # Idle => hand["app"] = None
    BY <1>1 DEF Places, OneAtATime
  <2>. QED BY <1>1, <1>4, <2>1, Unmoved DEF notes
<1>. QED BY <1>3, <1>4 DEF OnLogout, OnLoginFail

LEMMA GoodsKept ==
  ASSUME Counters, Flow, Goods, Places, LostBefore, Next
  PROVE  Goods' /\ Places'
<1>1. Lasting /\ UNCHANGED setup
  BY NeverFewer DEF Next
<1>2. CASE Calm
  BY <1>1, <1>2, CalmGoods
<1>3. CASE \E m \in Messages : SendTextMessage(m) \/ OnUpload(m) \/ OnSendAnswer(m)
  BY <1>1, <1>3, WriteGoods, UploadGoods, AnswerGoods
<1>4. CASE \E t \in Threads : Note(t)
  BY <1>1, <1>4, NoteGoods
<1>5. CASE SendNow \/ SendLater \/ InsertSendMsgList \/ SendNext \/ ListSent \/ PopRequestTask
  BY <1>1, <1>5, SendNowGoods, LaterGoods, InsertGoods, SendNextGoods, ListSentGoods, PopGoods
<1>6. CASE FailByRequest \/ FailByHttp \/ OnLogout \/ OnLoginFail
  BY <1>1, <1>6, ListFailedGoods, LogoutGoods
<1>. QED BY <1>2, <1>3, <1>4, <1>5, <1>6 DEF Next, Step, AppStep, RequestStep, Calm

-----------------------------------------------------------------------------
(* What becomes of a message, and of coupons without one                   *)

\* Only a message that is not done changes its status, and none is taken back.
LEMMA StatusMoves ==
  ASSUME Counters, Flow, Goods, Places, Next
  PROVE  \A m \in Messages : status'[m] = status[m] \/ (status[m] \notin Final /\ status'[m] # "Unprocess")
<1>0. \A m \in Messages : Held(m) => status[m] = "Processing"
  BY DEF Places, InOrder
<1>1. ASSUME NEW x \in Messages, SendTextMessage(x)
      PROVE  \A m \in Messages : status'[m] = status[m] \/ (status[m] \notin Final /\ status'[m] # "Unprocess")
  BY <1>1 DEF SendTextMessage, Goods, Final
<1>2. ASSUME NEW x \in Messages, Held(x), status' = status \/ \E s \in Final : status' = [status EXCEPT ![x] = s]
      PROVE  \A m \in Messages : status'[m] = status[m] \/ (status[m] \notin Final /\ status'[m] # "Unprocess")
  <2>1. status[x] = "Processing"
    BY <1>0, <1>2
  <2>. QED BY <1>2, <2>1 DEF Goods, Final
<1>3. ASSUME NEW x \in Messages, OnUpload(x), status' # status
      PROVE  Held(x) /\ \E s \in Final : status' = [status EXCEPT ![x] = s]
  BY <1>3 DEF OnUpload, Held, Noted, Final
<1>4. ASSUME NEW x \in Messages, OnSendAnswer(x), status' # status
      PROVE  Held(x) /\ \E s \in Final : status' = [status EXCEPT ![x] = s]
  BY <1>4 DEF OnSendAnswer, Held, Noted
<1>5. ASSUME NEW x \in Messages, NEW t \in {"app", "request"}, SendMessageItem(t, x), status' # status
      PROVE  \E s \in Final : status' = [status EXCEPT ![x] = s]
  BY <1>5 DEF SendMessageItem, StartUpload, ClientSend, Final
<1>6. ASSUME SendNow, status' # status
      PROVE  \E x \in Messages : Held(x) /\ \E s \in Final : status' = [status EXCEPT ![x] = s]
  <2>1. app.m \in Messages /\ SendMessageItem("app", app.m) /\ Begun(app.m)
    BY <1>6, Writers DEF SendNow, Begun
  <2>. QED BY <1>5, <1>6, <2>1 DEF Held
<1>7. ASSUME SendNext, status' # status
      PROVE  \E x \in Messages : Held(x) /\ \E s \in Final : status' = [status EXCEPT ![x] = s]
  <2>1. req.at = "send" /\ req.left # <<>> /\ SendMessageItem("request", Head(req.left))
    BY <1>7 DEF SendNext
  <2>2. PICK x : x = Head(req.left)
    OBVIOUS
  <2>3. req.left \in Seq(Messages) /\ req.user \in Users
    BY <2>1, Sendings DEF Flow
  <2>4. x \in Messages /\ x \in ToSet(req.left) /\ x \in ToSet(sendList[req.user])
    BY <2>1, <2>2, <2>3, Shortened DEF Places, OneByOne
  <2>5. To[x] = req.user
    BY <2>3, <2>4 DEF Goods
  <2>6. Listed(x)
    BY <2>1, <2>4, <2>5 DEF Listed, Locked
  <2>. QED BY <1>5, <1>7, <2>1, <2>2, <2>4, <2>6 DEF Held
<1>8. ASSUME NEW u \in Users, FailList(u)
      PROVE  \A m \in Messages : status'[m] = status[m] \/ (status[m] \notin Final /\ status'[m] # "Unprocess")
  <2>1. ~Locked(u) /\ \A m \in Messages : status'[m] = IF m \in ToSet(sendList[u]) THEN "Fail" ELSE status[m]
    BY <1>8 DEF FailList
  <2>2. ASSUME NEW m \in Messages, m \in ToSet(sendList[u]) PROVE status[m] = "Processing"
    <3>1. To[m] = u
      BY <2>2 DEF Goods
    <3>2. Listed(m)
      BY <2>1, <2>2, <3>1 DEF Listed
    <3>. QED BY <1>0, <3>2 DEF Held
  <2>. QED BY <2>1, <2>2 DEF Final
<1>9. CASE FailByRequest \/ FailByHttp
  <2>1. \E u \in Users : FailList(u)
    BY <1>9, Writers DEF FailByRequest, FailByHttp
  <2>. QED BY <1>8, <2>1
<1>10. CASE \E x \in Messages : Held(x) /\ \E s \in Final : status' = [status EXCEPT ![x] = s]
  BY <1>2, <1>10
<1>11. CASE status' = status
  BY <1>11
<1>12. \/ \E x \in Messages : SendTextMessage(x) \/ OnUpload(x) \/ OnSendAnswer(x)
       \/ SendNow \/ SendNext \/ FailByRequest \/ FailByHttp \/ status' = status
  BY DEF Next, Step, AppStep, RequestStep, HttpStep, CheckCoupon, OnCheckCoupon, OnExternCheck, OnUseCoupon,
         OnGetCount, OnUseTryTicket, OnTalkEvent, Note, SendLater, InsertSendMsgList, CheckCouponProc, NoteOpt,
         LogoutDone, GetUsersHistoryMessage, CheckToSendUser, ToSendDone, ListSent, UseTryTicketProc,
         GetCountProc, NoteCount, PopRequestTask, OnQueryChatRecordMutiple, OnGetTalkList, LinkLost, OnLogout,
         OnLogin, OnLoginFail, Logout, Login
<1>. QED BY <1>1, <1>3, <1>4, <1>6, <1>7, <1>9, <1>10, <1>11, <1>12

Unwritten == \A m \in Messages : status[m] = "Unprocess"
Uncalled ==
  /\ \A u \in Users : http["check"][u] = 0 /\ http["use"][u] = 0 /\ tickets[u] = 0 /\ Of("use", u) \notin ToSet(tasks)
  /\ app.at \in {"idle", "opt", "logout"} /\ req.at # "use" /\ (req.at = "to send" => req.users = {})

LEMMA UnaskedMeans == Unasked /\ NothingAsked <=> (~setup.early /\ Unwritten => Uncalled)
BY DEF Unasked, NothingAsked, Unwritten, Uncalled

LEMMA Zero == ~(0 > 0) /\ \A n \in Nat : n <= 0 => n = 0
OBVIOUS

LEMMA StillUncalled ==
  ASSUME Counters, http' \in [Kinds -> [Users -> Nat]], Uncalled,
         \A u \in Users : /\ http'["check"][u] <= http["check"][u] /\ http'["use"][u] <= http["use"][u]
                          /\ tickets'[u] = tickets[u]
                          /\ Of("use", u) \in ToSet(tasks') => Of("use", u) \in ToSet(tasks),
         app' = app \/ app'.at \in {"idle", "opt", "logout"},
         \/ req' = req \/ req'.at \notin {"use", "to send"}
         \/ req'.at = "to send" /\ req'.users = {}
  PROVE  Uncalled'
<1>1. ASSUME NEW u \in Users PROVE http'["check"][u] = 0 /\ http'["use"][u] = 0
  <2>1. http'["check"][u] \in Nat /\ http'["use"][u] \in Nat
    BY DEF Kinds
  <2>2. http'["check"][u] <= 0 /\ http'["use"][u] <= 0
    BY DEF Uncalled
  <2>. QED BY <2>1, <2>2, Zero, Zenon
<1>. QED BY <1>1 DEF Uncalled

\* What each action would need to call for a coupon is not there.
LEMMA UncalledKept ==
  ASSUME Counters, http' \in [Kinds -> [Users -> Nat]], Flow, Goods, Places, ~setup.early, Unwritten, Uncalled,
         \A m \in Messages : status'[m] = "Unprocess", Next
  PROVE  Uncalled'
<1>1. \A j \in {"check", "use"}, u \in Users : http[j][u] <= http[j][u]
  BY DEF Counters, Kinds
<1>2. \A m \in Messages : ~Listed(m)
  BY DEF Places, InOrder, Held, Unwritten
<1>3. CASE \/ \E m \in Messages : OnUpload(m) \/ OnSendAnswer(m)
           \/ \E t \in Threads : Note(t)
           \/ \E u \in Users : OnTalkEvent(u)
           \/ FailByHttp \/ LinkLost \/ OnLogout \/ OnLogin \/ OnLoginFail \/ Login
  <2>1. UNCHANGED <<http, tickets, tasks, app, req>>
    BY <1>3 DEF OnUpload, OnSendAnswer, Note, OnTalkEvent, FailByHttp, LinkLost, OnLogout, OnLogin, OnLoginFail,
           Login, net, https, threads
  <2>. QED BY <1>1, <2>1, StillUncalled
<1>4. CASE \E m \in Messages : SendTextMessage(m)
  <2>1. PICK m \in Messages : status' = [status EXCEPT ![m] = "Processing"]
    BY <1>4 DEF SendTextMessage
  <2>2. status'[m] = "Processing"
    BY <2>1 DEF Goods
  <2>. QED BY <2>2 DEF Unwritten
<1>5. CASE \E u \in Users : CheckCoupon(u)
  <2>1. PICK u \in Users : CheckCoupon(u)
    BY <1>5
  <2>2. app' = [at |-> "opt", user |-> u] /\ UNCHANGED <<tickets, tasks, req>> /\ StartHttp("extern", u)
    BY <2>1 DEF CheckCoupon, net
  <2>3. app'.at = "opt"
    BY <2>2
  <2>4. \A j \in {"check", "use"}, v \in Users : http'[j][v] = http[j][v]
    BY <2>2, Starts DEF Kinds
  <2>. QED BY <1>1, <2>2, <2>3, <2>4, StillUncalled
<1>6. CASE \E u \in Users : OnCheckCoupon(u) \/ OnUseCoupon(u) \/ OnUseTryTicket(u)
  <2>1. PICK u \in Users : http["check"][u] > 0 \/ http["use"][u] > 0 \/ tickets[u] > 0
    BY <1>6 DEF OnCheckCoupon, OnUseCoupon, OnUseTryTicket, EndHttp
  <2>. QED BY <2>1, Zero, Zenon DEF Uncalled
<1>7. CASE \E u \in Users : OnExternCheck(u) \/ OnGetCount(u)
  <2>1. PICK u \in Users : OnExternCheck(u) \/ OnGetCount(u)
    BY <1>7
  <2>2. /\ tasks' = tasks \/ InsertRequestTask(Of("send", u))
        /\ EndHttp("extern", u) \/ EndHttp("count", u)
        /\ UNCHANGED <<tickets, app, req>>
    BY <2>1 DEF OnExternCheck, OnGetCount, net, threads
  <2>3. \A j \in {"check", "use"}, v \in Users : http'[j][v] <= http[j][v]
    BY <2>2, Ends DEF Kinds
  <2>4. Of("send", u) \in Tasks /\ \A v \in Users : Of("send", u) # Of("use", v)
    BY TasksMade
  <2>5. \A v \in Users : Of("use", v) \in ToSet(tasks') => Of("use", v) \in ToSet(tasks)
    BY <2>2, <2>4, Inserted
  <2>. QED BY <2>2, <2>3, <2>5, StillUncalled
<1>8. CASE AppStep
  <2>1. NoteOpt \/ LogoutDone
    BY <1>8 DEF AppStep, SendNow, SendLater, InsertSendMsgList, CheckCouponProc, Uncalled
  <2>2. app'.at = "idle" /\ UNCHANGED <<http, tickets, tasks, req>>
    BY <2>1, IdleAt DEF NoteOpt, LogoutDone, net, https
  <2>. QED BY <1>1, <2>2, StillUncalled
<1>9. CASE OnQueryChatRecordMutiple \/ OnGetTalkList
  <2>1. PICK do \in {"history", "to send"} : tasks' = tasks \/ InsertRequestTask([do |-> do])
    BY <1>9 DEF OnQueryChatRecordMutiple, OnGetTalkList
  <2>2. [do |-> do] \in Tasks /\ \A v \in Users : [do |-> do] # Of("use", v)
    BY TasksMade
  <2>3. \A v \in Users : Of("use", v) \in ToSet(tasks') => Of("use", v) \in ToSet(tasks)
    BY <2>1, <2>2, Inserted
  <2>4. UNCHANGED <<http, tickets, app, req>>
    BY <1>9 DEF OnQueryChatRecordMutiple, OnGetTalkList, net, https, threads
  <2>. QED BY <1>1, <2>3, <2>4, StillUncalled
<1>10. CASE GetUsersHistoryMessage \/ ToSendDone \/ ListSent \/ NoteCount \/ FailByRequest
  <2>1. req'.at = "idle" /\ UNCHANGED <<http, tickets, tasks, app>>
    BY <1>10, IdleAt DEF GetUsersHistoryMessage, ToSendDone, ListSent, NoteCount, FailByRequest, net, https
  <2>. QED BY <1>1, <2>1, StillUncalled
<1>11. CASE CheckToSendUser \/ UseTryTicketProc
  BY <1>11 DEF CheckToSendUser, UseTryTicketProc, Uncalled
<1>12. CASE SendNext
  <2>1. req.at = "send" /\ req' = [req EXCEPT !.left = Tail(@)] /\ UNCHANGED <<http, tickets, tasks, app>>
    BY <1>12 DEF SendNext, https
  <2>2. req' = [at |-> "send", user |-> req.user, left |-> Tail(req.left)]
    BY <2>1, Sendings DEF Flow
  <2>3. req'.at = "send"
    BY <2>2
  <2>. QED BY <1>1, <2>1, <2>3, StillUncalled
<1>13. CASE GetCountProc
  <2>1. PICK a \in {"note count", "fail"} : req' = [at |-> a, user |-> req.user]
    BY <1>13 DEF GetCountProc
  <2>2. req'.at = a
    BY <2>1
  <2>3. UNCHANGED <<tickets, tasks, app>> /\ req.user \in Users /\ (StartHttp("count", req.user) \/ http' = http)
    BY <1>13, Writers DEF GetCountProc, net
  <2>4. \A j \in {"check", "use"}, v \in Users : http'[j][v] = http[j][v]
    BY <2>3, Starts DEF Kinds
  <2>. QED BY <1>1, <2>2, <2>3, <2>4, StillUncalled
<1>14. CASE PopRequestTask
  <2>1. /\ req = Idle /\ tasks # <<>> /\ tasks' = Tail(tasks) /\ UNCHANGED <<http, tickets, app>>
    BY <1>14 DEF PopRequestTask, net, https
  <2>2. PICK task \in Tasks : task = Head(tasks)
    BY <2>1, Shortened DEF Flow
  <2>3. ToSet(tasks') \subseteq ToSet(tasks) /\ task \in ToSet(tasks)
    BY <2>1, <2>2, Shortened DEF Flow
  <2>4. req' = CASE task.do = "history" -> [at |-> "history", users |-> {u \in Users : chatType[u] \in InChat}]
                 [] task.do = "to send" -> [at |-> "to send", users |-> {u \in Users : sendList[u] # <<>>}]
                 [] task.do = "send" -> [at |-> "send", user |-> task.user, left |-> sendList[task.user]]
                 [] OTHER -> [at |-> task.do, user |-> task.user]
    BY <1>14, <2>2 DEF PopRequestTask
  <2>5. task.do \in {"history", "to send", "send", "count"}
    BY <2>3, TasksAre DEF Uncalled
  <2>6. CASE task.do = "to send"
    <3>1. ASSUME NEW u \in Users PROVE sendList[u] = <<>>
      <4>1. sendList[u] \in Seq(Messages) /\ \A m \in ToSet(sendList[u]) : To[m] = u
        BY DEF Goods
      <4>2. ~Locked(u)
        BY <2>1, IdleAt DEF Locked
      <4>3. ASSUME sendList[u] # <<>> PROVE FALSE
        <5>1. PICK m \in Messages : m \in ToSet(sendList[u])
          BY <4>1, <4>3, Shortened
        <5>2. Listed(m)
          BY <4>1, <4>2, <5>1 DEF Listed
        <5>. QED BY <1>2, <5>2
      <4>. QED BY <4>3
    <3>2. req' = [at |-> "to send", users |-> {u \in Users : sendList[u] # <<>>}]
      BY <2>4, <2>6
    <3>3. {u \in Users : sendList[u] # <<>>} = {}
      BY <3>1
    <3>4. req'.at = "to send" /\ req'.users = {}
      BY <3>2, <3>3
    <3>. QED BY <1>1, <2>1, <2>3, <3>4, StillUncalled
  <2>7. CASE task.do # "to send"
    <3>1. req'.at = task.do
      <4>1. CASE task.do = "history"
        BY <2>4, <4>1
      <4>2. CASE task.do = "send"
        BY <2>4, <4>2
      <4>3. CASE task.do = "count"
        BY <2>4, <4>3
      <4>. QED BY <2>5, <2>7, <4>1, <4>2, <4>3
    <3>. QED BY <1>1, <2>1, <2>3, <2>5, <2>7, <3>1, StillUncalled
  <2>. QED BY <2>6, <2>7
<1>15. CASE Logout
  <2>1. app' = [at |-> "logout"] /\ UNCHANGED <<http, tickets, tasks, req>>
    BY <1>15 DEF Logout, https
  <2>2. app'.at = "logout"
    BY <2>1
  <2>. QED BY <1>1, <2>1, <2>2, StillUncalled
<1>. QED BY <1>3, <1>4, <1>5, <1>6, <1>7, <1>8, <1>9, <1>10, <1>11, <1>12, <1>13, <1>14, <1>15
     DEF Next, Step, HttpStep, RequestStep

LEMMA UncalledStays ==
  ASSUME Counters, Counters', Flow, Goods, Places, Unasked, NothingAsked, Next
  PROVE  Unasked' /\ NothingAsked'
<1>1. setup' = setup /\ http' \in [Kinds -> [Users -> Nat]]
  BY DEF Next, Counters
<1>2. ASSUME ~setup'.early, \A m \in Messages : status'[m] = "Unprocess" PROVE Uncalled'
  <2>1. ~setup.early
    BY <1>1, <1>2
  <2>2. Unwritten
    BY <1>2, StatusMoves DEF Unwritten
  <2>3. Uncalled
    BY <2>1, <2>2, UnaskedMeans
  <2>. QED BY <1>1, <1>2, <2>1, <2>2, <2>3, UncalledKept
<1>. QED BY <1>2 DEF Unasked, NothingAsked, Uncalled

-----------------------------------------------------------------------------
(* The invariant                                                           *)

LEMMA InitCoupon ==
  ASSUME Init
  PROVE  CouponIInv
<1>. USE DEF Init
<1>0. app.at = "idle" /\ req.at = "idle" /\ cb.at = "idle"
  BY IdleAt
<1>1. setup.drops \in Nat /\ setup.externs \in Nat /\ setup.outs \in Nat
  BY Bounds
<1>2. Counters
  <2>1. "other" \in {"other"} \union InChat
    OBVIOUS
  <2>2. http \in [Kinds -> [Users -> Nat]] /\ tickets \in [Users -> Nat] /\ chatType \in [Users -> {"other"} \union InChat]
    BY <2>1
  <2>3. DOMAIN counts = {"drops", "externs", "outs"} /\ \A w \in {"drops", "externs", "outs"} : counts[w] = 0
    OBVIOUS
  <2>4. \A what \in DOMAIN counts : counts[what] \in 0..setup[what]
    BY <1>1, <2>3
  <2>. QED BY <2>2, <2>3, <2>4 DEF Counters
<1>3. Flow
  <2>1. tasks \in Seq(Tasks)
    OBVIOUS
  <2>2. app \in Apps /\ req \in Reqs /\ cb \in Cbs
    BY AppsMade, ReqsMade, CbsMade
  <2>. QED BY <2>1, <2>2 DEF Flow
<1>4. \A u \in Users : sendList[u] = <<>>
  OBVIOUS
<1>5. Goods
  <2>1. sendList \in [Users -> Seq(Messages)] /\ status \in [Messages -> {"Unprocess", "Processing"} \union Final]
    BY Emptied
  <2>2. hand \in [Threads -> Messages \union {None}] /\ hand["http"] = None
    BY DEF Threads
  <2>3. \A u \in Users : IsInjective(sendList[u]) /\ \A m \in ToSet(sendList[u]) : To[m] = u
    BY <1>4, Emptied
  <2>. QED BY <1>0, <2>1, <2>2, <2>3 DEF Goods
<1>6. ASSUME NEW m \in Messages PROVE ~Begun(m) /\ ~Listed(m) /\ ~Carried(m) /\ ~Noted(m)
  <2>1. ~Begun(m)
    BY <1>0 DEF Begun
  <2>2. ~Listed(m)
    <3>1. To[m] \in Users
      BY CouponAssumption
    <3>. QED BY <1>0, <1>4, <3>1, Emptied DEF Listed, Locked
  <2>3. ~Carried(m)
    BY CouponAssumption DEF Carried
  <2>4. ~Noted(m)
    BY DEF Noted
  <2>. QED BY <2>1, <2>2, <2>3, <2>4
<1>7. \A m \in Messages : InOrder(m)
  BY <1>6 DEF InOrder, Held
<1>8. OneByOne
  BY <1>0 DEF OneByOne
<1>9. OneAtATime
  BY DEF OneAtATime
<1>10. NotedLast
  <2>1. None \notin setup.photos
    BY Bounds, CouponAssumption
  <2>. QED BY <2>1 DEF NotedLast, Threads
<1>11. LostBefore
  BY DEF LostBefore
<1>12. Uncalled
  BY <1>0, Emptied DEF Uncalled, Kinds
<1>13. Unasked /\ NothingAsked
  BY <1>12, UnaskedMeans
<1>. QED BY <1>2, <1>3, <1>5, <1>7, <1>8, <1>9, <1>10, <1>11, <1>13, Parts DEF Places

LEMMA StepCoupon ==
  ASSUME CouponIInv, Next
  PROVE  CouponIInv'
<1>1. Counters /\ Flow /\ Goods /\ Places /\ LostBefore /\ Unasked /\ NothingAsked
  BY Parts
<1>2. Counters' /\ Flow'
  BY <1>1, CountersKept, FlowKept
<1>3. Goods' /\ Places'
  BY <1>1, GoodsKept
<1>4. LostBefore'
  BY <1>1, NeverFewer, LostBeforeKept
<1>5. Unasked' /\ NothingAsked'
  BY <1>1, <1>2, UncalledStays
<1>. QED BY <1>2, <1>3, <1>4, <1>5, Parts, PTL

LEMMA IdleCoupon ==
  ASSUME CouponIInv, UNCHANGED <<vars, setup>>
  PROVE  CouponIInv'
<1>1. Counters /\ Flow /\ Goods /\ Places /\ LostBefore /\ Unasked /\ NothingAsked
  BY Parts
<1>2. UNCHANGED <<setup, linked, online, history, autoLogin, turned, chatType, inviteId, sendList, status, sendingMap, requestMap,
                  wire, uploads, http, asking, tickets, talk, tasks, app, req, cb, hand, counts>>
  BY DEF vars, net, gate, user, https, notes, threads
<1>3. Counters' /\ Flow' /\ Goods' /\ LostBefore'
  BY <1>1, <1>2 DEF Counters, Flow, Goods, LostBefore, Undisturbed
<1>4. Unasked' /\ NothingAsked'
  BY <1>1, <1>2 DEF Unasked, NothingAsked
<1>5. Lasting
  BY <1>2 DEF Lasting, Undisturbed
<1>6. Places'
  <2>1. app' # Idle => hand["app"] = None
    BY <1>1, <1>2 DEF Places, OneAtATime
  <2>. QED BY <1>1, <1>2, <1>5, <2>1, Unmoved DEF notes
<1>. QED BY <1>3, <1>4, <1>6, Parts, PTL

\* What four threads and the server do to a message, the list, the maps and the queue of
\* tasks keeps the invariant of which the rest follows.
THEOREM CouponKept == Spec => []CouponIInv
<1>1. CouponIInv /\ [Next]_<<vars, setup>> => CouponIInv'
  BY StepCoupon, IdleCoupon
<1>. QED BY InitCoupon, <1>1, PTL DEF Spec

\* A message that is processed is with one of the threads, in one list or in one map, and
\* one that is not is with nobody, whatever the application, the request thread, the threads
\* of http requests and the receive thread do to LCUserItem::m_sendMsgList and to the maps of
\* LCTextManager and LCPhotoManager.
THEOREM MessagesOwned == Spec => []MessagesInv
<1>1. CouponIInv => MessagesInv
  BY DEF CouponIInv
<1>. QED BY <1>1, CouponKept, PTL

\* While the application only checks for coupons and writes nothing, the manager uses none.
THEOREM UnaskedAlways == Spec => []Unasked
<1>1. CouponIInv => Unasked
  BY DEF CouponIInv
<1>. QED BY <1>1, CouponKept, PTL

\* What the application was told of a message, failed or sent, stays true.
THEOREM FinalKept == Spec => FinalStays
<1>1. ASSUME CouponIInv, [Next]_<<vars, setup>>
      PROVE  [\A m \in Messages : status[m] \in Final => status'[m] = status[m]]_vars
  <2>1. CASE Next
    <3>1. Counters /\ Flow /\ Goods /\ Places
      BY <1>1, Parts
    <3>. QED BY <2>1, <3>1, StatusMoves
  <2>2. CASE UNCHANGED <<vars, setup>>
    BY <2>2
  <2>. QED BY <1>1, <2>1, <2>2
<1>. QED BY <1>1, CouponKept, PTL DEF Spec, FinalStays

-----------------------------------------------------------------------------
(* ManagerLogin: logging in, out and again. *)

\* The places of a login, a logout, a Relogin and a callback.
Joining == {"stop join", "bye join", "again join"}
Resetting == {"bye", "bye join", "reset", "reset join", "clear"}
AnyPlace == {"idle", "ended", "login", "again", "again join", "ask"} \union Resetting \union Restarting
LoginPlaces ==
  /\ pc \in [Procs -> AnyPlace]
  /\ calls \in [{"login", "logout", "relogin", "loss"} -> Nat]

\* Whoever waits for the receive thread has the lock of the transport, which is shut meanwhile.
JoinLocked ==
  /\ \A p \in Procs : pc[p] \in Joining <=> startLock = p
  /\ shut <=> startLock # NoThread

\* The manager is logged in when the client is.
Together == isLogin <=> recv = "session"

\* Only the application calls Relogin.
AppAlone == \A p \in Procs : pc[p] \in {"again", "again join", "ask"} => p = "app"

\* In a steady scenario, while no two logins have crossed, none does, and one that starts the
\* connection finds it stopped.
OneLogin == SteadyLogin /\ ~crossed => ~Crossing /\ \A p \in Procs : pc[p] = "start" => ~started

\* In a steady scenario nothing is reset, and a login by itself has an account.
Unreset ==
  /\ ~isResetParam /\ calls["logout"] = 0 /\ \A p \in Procs : pc[p] \notin Resetting
  /\ isAutoLogin => account
  /\ \A p \in Procs : pc[p] \in Restarting \ {"connect"} /\ p # "app" => account

\* A refused connection is nobody's who would log in again.
Refused == recv = "rejected" => ~isAutoLogin /\ \A p \in Procs : pc[p] \notin Returning

\* What a login has connected is still there when it returns, or a Relogin has ended it that
\* asks for another login.
Followed == relogins > 0 \/ \E p \in Procs : pc[p] \in {"login", "again join", "ask"}
Watched == \A p \in Procs : pc[p] \in Returning => recv \notin {"none", "done"} \/ (account /\ Followed)

\* The inductive invariant.
LoginInd ==
  /\ LoginInv /\ LoginPlaces /\ JoinLocked /\ Together /\ AppAlone /\ OneLogin
  /\ SteadyLogin => Unreset /\ (~crossed => Refused /\ Watched) /\ Pending

\* The threads are different, and NoThread is none of them.
LEMMA ThreadFacts ==
  /\ NoThread \notin Procs /\ "app" \in Procs /\ "recv" \in Procs /\ RequestThreads \subseteq Procs
  /\ "app" \notin RequestThreads /\ "recv" \notin RequestThreads
BY LoginAssumption DEF Procs

\* One thread goes from one place to another.
LEMMA Goes ==
  ASSUME LoginPlaces, NEW p \in Procs, NEW to \in AnyPlace, pc' = [pc EXCEPT ![p] = to]
  PROVE  /\ pc' \in [Procs -> AnyPlace] /\ pc'[p] = to
         /\ \A q \in Procs : q # p => pc'[q] = pc[q]
BY DEF LoginPlaces

\* The history is kept in every step.
HistoryKept == crossed' = (crossed \/ (SteadyLogin /\ Crossing')) /\ UNCHANGED scenario

LEMMA StillSteady ==
  ASSUME HistoryKept
  PROVE  SteadyLogin' = SteadyLogin
BY DEF HistoryKept, SteadyLogin

\* A refused call of Logout is what a steady scenario has.
LEMMA NoLogout ==
  ASSUME LoginInd, SteadyLogin
  PROVE  ~(calls["logout"] < scenario.logout)
BY DEF LoginInd, LoginPlaces, Unreset, SteadyLogin

(***************************************************************************)
(* Steps of which only the place of one thread matters.                    *)
(***************************************************************************)
\* Where thread p may go when nothing else changes.
CanWalk(p, to) ==
  /\ to \in AnyPlace \ Joining /\ pc[p] \notin Joining \union {"ask"}
  /\ to = "start" => ~started
  /\ p = "recv" => to \in {"idle", "reset", "reset join", "clear"}
  /\ to \in {"again", "ask"} => p = "app"
  /\ SteadyLogin => to \notin Resetting
  /\ SteadyLogin /\ to \in Restarting \ {"connect"} => p = "app" \/ account
  /\ to \in Returning => pc[p] \in Returning
  /\ SteadyLogin /\ pc[p] = "login" => to \in Restarting \/ isLogin
  /\ SteadyLogin /\ ~crossed /\ isAutoLogin /\ pc[p] \notin {"idle", "ended"} /\ to \in {"idle", "ended"} =>
       isLogin \/ relogins > 0 \/ recv \notin {"none", "done"} \/ \E q \in Procs \ {p} : pc[q] \notin {"idle", "ended"}

LEMMA Walks ==
  ASSUME LoginInd, HistoryKept, NEW p \in Procs, NEW to, pc' = [pc EXCEPT ![p] = to],
         UNCHANGED <<flags, queue, client>>,
         requestThread' \in RequestThreads \union {NoThread}, threadStart' \in BOOLEAN,
         calls' \in [{"login", "logout", "relogin", "loss"} -> Nat], calls'["logout"] = calls["logout"],
         CanWalk(p, to)
  PROVE  LoginInd'
<1> USE DEF CanWalk
<1>1. /\ pc' \in [Procs -> AnyPlace] /\ pc'[p] = to
      /\ \A q \in Procs : q # p => pc'[q] = pc[q]
  BY Goes DEF LoginInd
<1>2. /\ UNCHANGED <<isLogin, isAutoLogin, isResetParam, account, relogins, timers, recv, started, shut, startLock>>
      /\ SteadyLogin' = SteadyLogin /\ crossed' = (crossed \/ (SteadyLogin /\ Crossing')) /\ scenario' = scenario
  BY StillSteady DEF flags, queue, client, HistoryKept
<1>3. LoginInv'
  BY <1>1, <1>2, ThreadFacts DEF LoginInd, LoginInv, LoginTypeOK, SessionAlive
<1>4. LoginPlaces'
  BY <1>1 DEF LoginPlaces
<1>5. JoinLocked'
  BY <1>1, <1>2 DEF LoginInd, JoinLocked
<1>6. Together'
  BY <1>2 DEF LoginInd, Together
<1>7. AppAlone'
  BY <1>1, ThreadFacts DEF LoginInd, AppAlone, Joining
<1>8. OneLogin'
  BY <1>1, <1>2 DEF LoginInd, OneLogin
<1>9. SteadyLogin => Unreset'
  BY <1>1, <1>2 DEF LoginInd, Unreset
<1>10. SteadyLogin /\ ~crossed' => Refused'
  BY <1>1, <1>2 DEF LoginInd, Refused
<1>11. SteadyLogin /\ ~crossed' => Watched'
  <2> SUFFICES ASSUME SteadyLogin, ~crossed', NEW q \in Procs, pc'[q] \in Returning, recv \in {"none", "done"}
               PROVE  account /\ Followed'
    BY <1>2 DEF Watched
  <2>1. ~crossed /\ ~Crossing'
    BY <1>2
  <2>2. pc[q] \in Returning
    BY <1>1
  <2>3. account /\ Followed
    BY <2>1, <2>2 DEF LoginInd, Watched
  <2>4. ~isLogin
    BY DEF LoginInd, Together
  <2>5. CASE relogins > 0
    BY <2>3, <2>5, <1>2 DEF Followed
  <2>6. ASSUME NEW r \in Procs, pc[r] \in {"login", "again join", "ask"} PROVE Followed'
    <3>1. CASE r # p
      BY <3>1, <2>6, <1>1 DEF Followed
    <3>2. CASE r = p
      <4>1. CASE pc[r] = "ask"
        BY <4>1, <3>2, <1>1 DEF Followed
      <4>2. pc[r] # "again join"
        BY <3>2 DEF Joining
      <4>3. CASE pc[r] = "login"
        <5>1. to \in Restarting
          BY <4>3, <3>2, <2>4
        <5>2. q # p /\ pc'[q] \in Restarting
          BY <4>3, <3>2, <2>2, <1>1 DEF Returning, Restarting
        <5> QED BY <5>1, <5>2, <2>1, <1>1 DEF Crossing
      <4> QED BY <4>1, <4>2, <4>3, <2>6
    <3> QED BY <3>1, <3>2
  <2> QED BY <2>3, <2>5, <2>6 DEF Followed
<1>12. SteadyLogin => Pending'
  <2> SUFFICES ASSUME SteadyLogin, isAutoLogin, ~crossed'
               PROVE  isLogin \/ relogins > 0 \/ recv \notin {"none", "done"} \/ \E q \in Procs : pc'[q] \notin {"idle", "ended"}
    BY <1>2 DEF Pending
  <2>1. ~crossed
    BY <1>2
  <2>2. isLogin \/ relogins > 0 \/ recv \notin {"none", "done"} \/ \E q \in Procs : pc[q] \notin {"idle", "ended"}
    BY <2>1 DEF LoginInd, Pending
  <2>3. CASE pc[p] \in {"idle", "ended"} \/ to \notin {"idle", "ended"}
    BY <2>2, <2>3, <1>1
  <2>4. CASE pc[p] \notin {"idle", "ended"} /\ to \in {"idle", "ended"}
    BY <2>1, <2>4, <1>1
  <2> QED BY <2>3, <2>4
<1> QED BY <1>2, <1>3, <1>4, <1>5, <1>6, <1>7, <1>8, <1>9, <1>10, <1>11, <1>12 DEF LoginInd

(***************************************************************************)
(* The walks of the model.                                                 *)
(***************************************************************************)
LEMMA CallsWalk ==
  ASSUME LoginInd, HistoryKept, CallLogin \/ CallRelogin
  PROVE  LoginInd'
<1>0. /\ requestThread' \in RequestThreads \union {NoThread} /\ threadStart' \in BOOLEAN
      /\ UNCHANGED <<flags, queue, client>> /\ "app" \in Procs
  BY ThreadFacts DEF CallLogin, CallRelogin, request, LoginInd, LoginInv, LoginTypeOK
<1>1. /\ calls' \in [{"login", "logout", "relogin", "loss"} -> Nat] /\ calls'["logout"] = calls["logout"]
  BY DEF CallLogin, CallRelogin, Counted, LoginInd, LoginPlaces
<1>2. CASE CallLogin
  <2>1. pc["app"] = "idle" /\ pc' = [pc EXCEPT !["app"] = "login"]
    BY <1>2 DEF CallLogin, At
  <2>2. CanWalk("app", "login")
    BY <1>0, <1>1, <2>1 DEF CanWalk, AnyPlace, Joining, Resetting, Restarting, Returning
  <2> QED BY <1>0, <1>1, <2>1, <2>2, Walks
<1>3. CASE CallRelogin
  <2>1. pc["app"] = "idle" /\ pc' = [pc EXCEPT !["app"] = "again"]
    BY <1>3 DEF CallRelogin, At
  <2>2. CanWalk("app", "again")
    BY <1>0, <1>1, <2>1 DEF CanWalk, AnyPlace, Joining, Resetting, Restarting, Returning
  <2> QED BY <1>0, <1>1, <2>1, <2>2, Walks
<1> QED BY <1>2, <1>3

\* What else a step of a login leaves alone.
Alone == UNCHANGED <<flags, queue, client, calls>>

LEMMA AloneFacts ==
  ASSUME LoginInd, Alone
  PROVE  /\ UNCHANGED <<flags, queue, client>>
         /\ calls' \in [{"login", "logout", "relogin", "loss"} -> Nat] /\ calls'["logout"] = calls["logout"]
         /\ requestThread \in RequestThreads \union {NoThread} /\ threadStart \in BOOLEAN
BY DEF Alone, LoginInd, LoginPlaces, LoginInv, LoginTypeOK

LEMMA LoginCheckWalks ==
  ASSUME LoginInd, HistoryKept, NEW p \in Procs, LoginCheck(p)
  PROVE  LoginInd'
<1>1. /\ pc[p] = "login" /\ Alone /\ UNCHANGED request
      /\ pc' = [pc EXCEPT ![p] = IF isLogin THEN "idle" ELSE IF ~isAutoLogin /\ isResetParam THEN "reset" ELSE "connect"]
  BY DEF LoginCheck, Alone
<1>2. p # "recv"
  BY <1>1 DEF LoginInd, LoginInv, LoginTypeOK
<1>3. SteadyLogin => ~isResetParam
  BY DEF LoginInd, Unreset
<1>4. CASE isLogin
  <2>1. pc' = [pc EXCEPT ![p] = "idle"]
    BY <1>1, <1>4
  <2>2. CanWalk(p, "idle")
    BY <1>1, <1>2, <1>4, <2>1 DEF CanWalk, AnyPlace, Joining, Resetting, Restarting, Returning
  <2> QED BY <1>1, <1>2, <1>4, <2>1, AloneFacts, <2>2, Walks DEF request
<1>5. CASE ~isLogin /\ ~isAutoLogin /\ isResetParam
  <2>1. pc' = [pc EXCEPT ![p] = "reset"]
    BY <1>1, <1>5
  <2>2. CanWalk(p, "reset")
    BY <1>1, <1>2, <1>3, <1>5, <2>1 DEF CanWalk, AnyPlace, Joining, Resetting, Restarting, Returning
  <2> QED BY <1>1, <1>2, <1>3, <1>5, <2>1, AloneFacts, <2>2, Walks DEF request
<1>6. CASE ~isLogin /\ ~(~isAutoLogin /\ isResetParam)
  <2>1. pc' = [pc EXCEPT ![p] = "connect"]
    BY <1>1, <1>6
  <2>2. CanWalk(p, "connect")
    BY <1>1, <1>2, <1>6, <2>1 DEF CanWalk, AnyPlace, Joining, Resetting, Restarting, Returning
  <2> QED BY <1>1, <1>2, <1>6, <2>1, AloneFacts, <2>2, Walks DEF request
<1> QED BY <1>4, <1>5, <1>6

\* StopRequestThread, in a reset or in a login.
Stopping == {<<"reset", "reset join", "clear">>, <<"threads", "threads join", "create">>}

LEMMA StopThreadWalks ==
  ASSUME LoginInd, HistoryKept, NEW p \in Procs, NEW s \in Stopping,
         StopThread(p, s[1], s[2], s[3]) \/ JoinThread(p, s[2], s[3])
  PROVE  LoginInd'
<1>1. PICK to \in {s[2], s[3]} :
        /\ pc[p] \in {s[1], s[2]} /\ pc' = [pc EXCEPT ![p] = to]
        /\ Alone /\ requestThread' \in {requestThread, NoThread} /\ threadStart' \in {threadStart, FALSE}
  BY DEF StopThread, JoinThread, Alone
<1>2. /\ requestThread' \in RequestThreads \union {NoThread} /\ threadStart' \in BOOLEAN
  BY <1>1, AloneFacts
<1>3. CASE s = <<"reset", "reset join", "clear">>
  <2>1. to \in {"reset join", "clear"} /\ pc[p] \in {"reset", "reset join"}
    BY <1>1, <1>3
  <2>2. ~SteadyLogin
    BY <2>1 DEF LoginInd, Unreset, Resetting
  <2>3. CanWalk(p, to)
    BY <1>1, <1>2, <2>1, <2>2 DEF CanWalk, AnyPlace, Joining, Resetting, Restarting, Returning
  <2> QED BY <1>1, <1>2, <2>1, <2>2, AloneFacts, <2>3, Walks
<1>4. CASE s = <<"threads", "threads join", "create">>
  <2>1. to \in {"threads join", "create"} /\ pc[p] \in {"threads", "threads join"}
    BY <1>1, <1>4
  <2>2. p # "recv"
    BY <2>1 DEF LoginInd, LoginInv, LoginTypeOK
  <2>3. p = "app" \/ account \/ ~SteadyLogin
    BY <2>1 DEF LoginInd, Unreset, Restarting, Returning
  <2>4. CanWalk(p, to)
    BY <1>1, <1>2, <2>1, <2>2, <2>3 DEF CanWalk, AnyPlace, Joining, Resetting, Restarting, Returning
  <2> QED BY <1>1, <1>2, <2>1, <2>2, <2>3, AloneFacts, <2>4, Walks
<1> QED BY <1>3, <1>4 DEF Stopping

LEMMA ConnectWalks ==
  ASSUME LoginInd, HistoryKept, NEW p \in Procs, Connect(p)
  PROVE  LoginInd'
<1>1. /\ pc[p] = "connect" /\ Alone /\ UNCHANGED request
      /\ pc' = [pc EXCEPT ![p] = IF p # "app" /\ ~account THEN "idle" ELSE IF started THEN "stop" ELSE "start"]
  BY DEF Connect, Alone
<1>2. p # "recv"
  BY <1>1 DEF LoginInd, LoginInv, LoginTypeOK
<1>3. CASE p # "app" /\ ~account
  <2>1. pc' = [pc EXCEPT ![p] = "idle"]
    BY <1>1, <1>3
  <2>2. SteadyLogin => ~isAutoLogin
    BY <1>3 DEF LoginInd, Unreset
  <2>3. CanWalk(p, "idle")
    BY <1>1, <1>2, <2>1, <2>2 DEF CanWalk, AnyPlace, Joining, Resetting, Restarting, Returning
  <2> QED BY <1>1, <1>2, <2>1, <2>2, AloneFacts, <2>3, Walks DEF request
<1>4. CASE (p = "app" \/ account) /\ started
  <2>1. pc' = [pc EXCEPT ![p] = "stop"]
    BY <1>1, <1>4
  <2>2. CanWalk(p, "stop")
    BY <1>1, <1>2, <1>4, <2>1 DEF CanWalk, AnyPlace, Joining, Resetting, Restarting, Returning
  <2> QED BY <1>1, <1>2, <1>4, <2>1, AloneFacts, <2>2, Walks DEF request
<1>5. CASE (p = "app" \/ account) /\ ~started
  <2>1. pc' = [pc EXCEPT ![p] = "start"]
    BY <1>1, <1>5
  <2>2. CanWalk(p, "start")
    BY <1>1, <1>2, <1>5, <2>1 DEF CanWalk, AnyPlace, Joining, Resetting, Restarting, Returning
  <2> QED BY <1>1, <1>2, <1>5, <2>1, AloneFacts, <2>2, Walks DEF request
<1> QED BY <1>3, <1>4, <1>5

LEMMA StartedWalks ==
  ASSUME LoginInd, HistoryKept, NEW p \in Procs, Started(p)
  PROVE  LoginInd'
<1>1. /\ pc[p] = "started" /\ Alone /\ UNCHANGED request
      /\ pc' = [pc EXCEPT ![p] = IF isAutoLogin THEN "idle" ELSE "threads"]
  BY DEF Started, Alone
<1>2. p # "recv" /\ pc[p] \in Returning /\ pc[p] \in Restarting \ {"connect"}
  BY <1>1 DEF LoginInd, LoginInv, LoginTypeOK, Returning, Restarting
<1>3. p = "app" \/ account \/ ~SteadyLogin
  BY <1>2 DEF LoginInd, Unreset
<1>4. SteadyLogin /\ ~crossed => recv \notin {"none", "done"} \/ Followed
  BY <1>2 DEF LoginInd, Watched
<1>5. Followed => relogins > 0 \/ \E q \in Procs \ {p} : pc[q] \notin {"idle", "ended"}
  BY <1>1 DEF Followed
<1>6. CASE isAutoLogin
  <2>1. pc' = [pc EXCEPT ![p] = "idle"]
    BY <1>1, <1>6
  <2>2. CanWalk(p, "idle")
    BY <1>1, <1>2, <1>4, <1>5, <2>1 DEF CanWalk, AnyPlace, Joining, Resetting, Restarting, Returning
  <2> QED BY <1>1, <1>2, <1>4, <1>5, <2>1, AloneFacts, <2>2, Walks DEF request
<1>7. CASE ~isAutoLogin
  <2>1. pc' = [pc EXCEPT ![p] = "threads"]
    BY <1>1, <1>7
  <2>2. CanWalk(p, "threads")
    BY <1>1, <1>2, <1>3, <2>1 DEF CanWalk, AnyPlace, Joining, Resetting, Restarting, Returning
  <2> QED BY <1>1, <1>2, <1>3, <2>1, AloneFacts, <2>2, Walks DEF request
<1> QED BY <1>6, <1>7

LEMMA ThreadEndsWalks ==
  ASSUME LoginInd, HistoryKept, NEW r \in RequestThreads, ThreadEnds(r)
  PROVE  LoginInd'
<1>1. /\ pc[r] = "idle" /\ Alone /\ UNCHANGED request
      /\ pc' = [pc EXCEPT ![r] = "ended"] /\ r \in Procs /\ r # "recv"
  BY ThreadFacts DEF ThreadEnds, At, Alone
<1>2. CanWalk(r, "ended")
  BY <1>1 DEF CanWalk, AnyPlace, Joining, Resetting, Restarting, Returning
<1> QED BY <1>1, AloneFacts, <1>2, Walks DEF request

(***************************************************************************)
(* The receive thread.                                                     *)
(***************************************************************************)

\* What each of its steps leaves alone, or does at most.
RecvMoves ==
  /\ pc["recv"] = "idle" /\ UNCHANGED <<isResetParam, account, request, started, shut, startLock>>
  /\ pc' = pc \/ (isResetParam /\ pc' = [pc EXCEPT !["recv"] = "reset"])
  /\ calls' = calls \/ calls' = [calls EXCEPT !.loss = @ + 1]
  /\ isAutoLogin' \in {isAutoLogin, FALSE}

LEMMA RecvKeeps ==
  ASSUME LoginInd, HistoryKept, RecvMoves
  PROVE  /\ LoginPlaces' /\ JoinLocked' /\ AppAlone' /\ OneLogin'
         /\ SteadyLogin => pc' = pc /\ Unreset'
         /\ SteadyLogin' = SteadyLogin /\ (~crossed' => ~crossed)
<1>1. "recv" \in Procs
  BY ThreadFacts
<1>2. /\ pc' \in [Procs -> AnyPlace] /\ pc'["recv"] \in {"idle", "reset"}
      /\ \A q \in Procs : q # "recv" => pc'[q] = pc[q]
  BY <1>1 DEF LoginInd, LoginPlaces, RecvMoves, AnyPlace, Resetting
<1>3. LoginPlaces'
  BY <1>2 DEF LoginInd, LoginPlaces, RecvMoves
<1>4. JoinLocked'
  BY <1>1, <1>2 DEF LoginInd, JoinLocked, RecvMoves, Joining
<1>5. AppAlone'
  BY <1>1, <1>2 DEF LoginInd, AppAlone
<1>6. OneLogin'
  BY <1>1, <1>2, StillSteady DEF LoginInd, OneLogin, RecvMoves, HistoryKept
<1>7. SteadyLogin => pc' = pc
  BY DEF LoginInd, Unreset, RecvMoves
<1>8. SteadyLogin => Unreset'
  <2>1. calls'["logout"] = calls["logout"]
    BY DEF RecvMoves, LoginInd, LoginPlaces
  <2> QED BY <1>7, <2>1 DEF LoginInd, Unreset, RecvMoves
<1> QED BY <1>3, <1>4, <1>5, <1>6, <1>7, <1>8, StillSteady DEF HistoryKept

\* A connection that is shut has somebody who waits for the receive thread: a Relogin, or a
\* login.
LEMMA ShutBy ==
  ASSUME LoginInd, shut
  PROVE  \E p \in Procs : pc[p] \in Joining
BY DEF LoginInd, JoinLocked, LoginInv, LoginTypeOK

\* In a steady scenario a connection ends, unless a login is about to return or one follows.
LEMMA ShutFollowed ==
  ASSUME LoginInd, SteadyLogin, ~crossed, shut, NEW q \in Procs, pc[q] \in Returning
  PROVE  account /\ Followed
<1>1. PICK p \in Procs : pc[p] \in Joining
  BY ShutBy
<1>2. pc[p] # "bye join"
  BY DEF LoginInd, Unreset, Resetting
<1>3. pc[p] # "stop join"
  <2>1. pc[p] = "stop join" => p # q /\ pc[p] \in Restarting /\ pc[q] \in Restarting
    BY DEF Returning, Restarting
  <2> QED BY <2>1 DEF LoginInd, OneLogin, Crossing
<1>4. pc[p] = "again join"
  BY <1>1, <1>2, <1>3 DEF Joining
<1>5. p = "app" /\ q # "app"
  BY <1>4 DEF LoginInd, AppAlone, Returning
<1>6. account
  BY <1>5 DEF LoginInd, Unreset, Restarting, Returning
<1> QED BY <1>4, <1>6 DEF Followed

LEMMA ConnectedKeeps ==
  ASSUME LoginInd, HistoryKept, Connected
  PROVE  LoginInd'
<1>1. /\ RecvMoves /\ pc' = pc
      /\ UNCHANGED <<isLogin, isAutoLogin, relogins, timers, requestThread, threadStart>>
      /\ recv = "connecting" /\ recv' \in {IF shut THEN "done" ELSE "version", "failed"}
  BY DEF Connected, RecvMoves, Receives, flags, queue, request
<1>2. LoginInv'
  BY <1>1 DEF RecvMoves, HistoryKept, LoginInd, LoginInv, LoginTypeOK, SessionAlive
<1>3. Together'
  BY <1>1 DEF LoginInd, Together
<1>4. Refused'
  BY <1>1 DEF Refused
<1>5. SteadyLogin /\ ~crossed => Watched'
  BY <1>1, ShutFollowed DEF Watched, Followed, RecvMoves
<1>6. SteadyLogin => Pending'
  BY <1>1, ShutBy, RecvKeeps DEF Pending, Joining
<1> QED BY <1>1, <1>2, <1>3, <1>4, <1>5, <1>6, RecvKeeps DEF LoginInd

LEMMA VersionCheckedKeeps ==
  ASSUME LoginInd, HistoryKept, VersionChecked
  PROVE  LoginInd'
<1>1. /\ RecvMoves /\ pc' = pc
      /\ UNCHANGED <<isLogin, isAutoLogin, relogins, timers, requestThread, threadStart>>
      /\ recv = "version" /\ \/ recv' = "login"
                             \/ recv' = "done" /\ (SteadyLogin => shut)
  BY DEF VersionChecked, RecvMoves, Receives, flags, queue, request, SteadyLogin
<1>2. LoginInv'
  BY <1>1 DEF RecvMoves, HistoryKept, LoginInd, LoginInv, LoginTypeOK, SessionAlive
<1>3. Together'
  BY <1>1 DEF LoginInd, Together
<1>4. Refused'
  BY <1>1 DEF Refused
<1>5. SteadyLogin /\ ~crossed => Watched'
  BY <1>1, ShutFollowed DEF Watched, Followed, RecvMoves
<1>6. SteadyLogin => Pending'
  BY <1>1, ShutBy, RecvKeeps DEF Pending, Joining
<1> QED BY <1>1, <1>2, <1>3, <1>4, <1>5, <1>6, RecvKeeps DEF LoginInd

\* In a steady scenario nobody is about to return when the manager is told of a failure.
LEMMA NobodyReturns ==
  ASSUME SteadyLogin, Noticed
  PROVE  \A p \in Procs : pc[p] \notin Returning
BY DEF SteadyLogin, Noticed

LEMMA LoginFailedKeeps ==
  ASSUME LoginInd, HistoryKept, LoginFailed
  PROVE  LoginInd'
<1>1. /\ RecvMoves /\ Noticed
      /\ UNCHANGED <<isLogin, isAutoLogin, timers, requestThread, threadStart>>
      /\ recv \in {"failed", "login"} /\ recv' = "done"
      /\ relogins' \in Nat /\ (isAutoLogin => relogins' > 0)
  <2>1. relogins \in Nat /\ pc["recv"] = "idle" /\ pc = [pc EXCEPT !["recv"] = "idle"]
    BY ThreadFacts DEF LoginInd, LoginInv, LoginTypeOK, LoginPlaces, LoginFailed, Receives
  <2> QED BY <2>1 DEF LoginFailed, Again, RecvMoves, Receives, flags, request
<1>2. LoginInv'
  BY <1>1, RecvKeeps, ThreadFacts DEF RecvMoves, HistoryKept, LoginInd, LoginInv, LoginTypeOK, SessionAlive, LoginPlaces, request
<1>3. Together'
  BY <1>1 DEF LoginInd, Together
<1>4. Refused'
  BY <1>1 DEF Refused
<1>5. SteadyLogin => Watched'
  BY <1>1, RecvKeeps, NobodyReturns DEF Watched
<1>6. Pending'
  BY <1>1 DEF Pending
<1> QED BY <1>1, <1>2, <1>3, <1>4, <1>5, <1>6, RecvKeeps DEF LoginInd

LEMMA LoginRefusedKeeps ==
  ASSUME LoginInd, HistoryKept, LoginRefused
  PROVE  LoginInd'
<1>1. /\ RecvMoves /\ Noticed
      /\ UNCHANGED <<isLogin, relogins, timers, requestThread, threadStart>>
      /\ recv \in {"version", "login"} /\ recv' = "rejected" /\ isAutoLogin' = FALSE
  <2>1. pc["recv"] = "idle" /\ pc = [pc EXCEPT !["recv"] = "idle"]
    BY ThreadFacts DEF LoginInd, LoginInv, LoginTypeOK, LoginPlaces, LoginRefused, Receives
  <2> QED BY <2>1 DEF LoginRefused, RecvMoves, Receives, queue, request
<1>2. LoginInv'
  BY <1>1, RecvKeeps, ThreadFacts DEF RecvMoves, HistoryKept, LoginInd, LoginInv, LoginTypeOK, SessionAlive, LoginPlaces, request
<1>3. Together'
  BY <1>1 DEF LoginInd, Together
<1>4. SteadyLogin => Refused'
  BY <1>1, RecvKeeps, NobodyReturns DEF Refused
<1>5. Watched'
  BY <1>1 DEF Watched
<1>6. Pending'
  BY <1>1 DEF Pending
<1> QED BY <1>1, <1>2, <1>3, <1>4, <1>5, <1>6, RecvKeeps DEF LoginInd

LEMMA LoggedInKeeps ==
  ASSUME LoginInd, HistoryKept, LoggedIn
  PROVE  LoginInd'
<1>1. /\ RecvMoves /\ pc' = pc
      /\ UNCHANGED <<isAutoLogin, relogins, requestThread, threadStart>>
      /\ recv = "login" /\ recv' = "session" /\ isLogin' = TRUE /\ timers' \in 0 .. 2
  BY DEF LoggedIn, RecvMoves, Receives, request
<1>2. LoginInv'
  BY <1>1 DEF RecvMoves, HistoryKept, LoginInd, LoginInv, LoginTypeOK, SessionAlive
<1>3. Together'
  BY <1>1 DEF Together
<1>4. Refused'
  BY <1>1 DEF Refused
<1>5. Watched'
  BY <1>1 DEF Watched
<1>6. Pending'
  BY <1>1 DEF Pending
<1> QED BY <1>1, <1>2, <1>3, <1>4, <1>5, <1>6, RecvKeeps DEF LoginInd

LEMMA LoggedOutKeeps ==
  ASSUME LoginInd, HistoryKept, LoggedOut
  PROVE  LoginInd'
<1>1. /\ RecvMoves /\ (shut \/ Noticed)
      /\ UNCHANGED <<isAutoLogin, timers, requestThread, threadStart>>
      /\ recv \in {"session", "rejected"} /\ recv' = "done" /\ isLogin' = FALSE
      /\ relogins \in Nat /\ relogins' \in Nat /\ relogins' >= relogins /\ (isLogin /\ isAutoLogin => relogins' > 0)
  <2>1. relogins \in Nat /\ pc["recv"] = "idle" /\ pc = [pc EXCEPT !["recv"] = "idle"]
    BY ThreadFacts DEF LoginInd, LoginInv, LoginTypeOK, LoginPlaces, LoggedOut, Receives
  <2> QED BY <2>1 DEF LoggedOut, Again, RecvMoves, Receives, request
<1>2. LoginInv'
  BY <1>1, RecvKeeps, ThreadFacts DEF RecvMoves, HistoryKept, LoginInd, LoginInv, LoginTypeOK, SessionAlive, LoginPlaces, request
<1>3. Together'
  BY <1>1 DEF LoginInd, Together
<1>4. Refused'
  BY <1>1 DEF Refused
<1>5. SteadyLogin /\ ~crossed => Watched'
  <2> SUFFICES ASSUME SteadyLogin, ~crossed, NEW q \in Procs, pc[q] \in Returning PROVE account' /\ Followed'
    BY RecvKeeps, <1>1 DEF Watched
  <2>1. shut
    BY <1>1, NobodyReturns
  <2>2. account /\ Followed
    BY <2>1, ShutFollowed
  <2>3. pc' = pc /\ account' = account
    BY <1>1, RecvKeeps DEF RecvMoves
  <2>4. relogins > 0 => relogins' > 0
    BY <1>1
  <2> QED BY <2>2, <2>3, <2>4 DEF Followed
<1>6. SteadyLogin => Pending'
  <2>1. SteadyLogin /\ ~crossed /\ recv = "rejected" => ~isAutoLogin
    BY DEF LoginInd, Refused
  <2>2. recv = "session" => isLogin
    BY DEF LoginInd, Together
  <2> QED BY <1>1, <2>1, <2>2, RecvKeeps DEF Pending
<1> QED BY <1>1, <1>2, <1>3, <1>4, <1>5, <1>6, RecvKeeps DEF LoginInd

(***************************************************************************)
(* The steps of a login, a logout and a Relogin on the connection.         *)
(***************************************************************************)

\* Steps that a steady scenario does not have.
LEMMA UnsteadyKeeps ==
  ASSUME LoginInd, HistoryKept, ~SteadyLogin, NEW p \in Procs, NEW to \in AnyPlace \ Joining, pc' = [pc EXCEPT ![p] = to],
         pc[p] \notin Joining, to = "start" => ~started, to \notin {"again", "ask"}, p = "recv" => to = "idle",
         to \in Restarting => pc[p] \in Restarting \/ to = "connect",
         UNCHANGED <<isLogin, recv, started, shut, startLock, request>>,
         relogins' \in Nat, timers' \in 0 .. 2, {isAutoLogin', isResetParam', account'} \subseteq BOOLEAN,
         calls' \in [{"login", "logout", "relogin", "loss"} -> Nat]
  PROVE  LoginInd'
<1>1. /\ pc' \in [Procs -> AnyPlace] /\ pc'[p] = to
      /\ \A q \in Procs : q # p => pc'[q] = pc[q]
  BY Goes DEF LoginInd
<1>2. SteadyLogin' = SteadyLogin /\ crossed' = (crossed \/ (SteadyLogin /\ Crossing')) /\ scenario' = scenario
  BY StillSteady DEF HistoryKept
<1>3. LoginInv'
  BY <1>1, <1>2, ThreadFacts DEF request, LoginInd, LoginInv, LoginTypeOK, SessionAlive
<1>4. LoginPlaces' /\ Together' /\ JoinLocked' /\ AppAlone' /\ OneLogin'
  BY <1>1, <1>2, ThreadFacts DEF LoginInd, LoginPlaces, Together, JoinLocked, AppAlone, OneLogin, Joining
<1> QED BY <1>2, <1>3, <1>4 DEF LoginInd

LEMMA CallLogoutKeeps ==
  ASSUME LoginInd, HistoryKept, CallLogout
  PROVE  LoginInd'
<1>1. ~SteadyLogin
  BY NoLogout DEF CallLogout, Counted
<1>2. /\ pc["app"] = "idle" /\ pc' = [pc EXCEPT !["app"] = "bye"]
      /\ UNCHANGED <<isLogin, recv, started, shut, startLock, request>>
  BY DEF CallLogout, At, client
<1>3. relogins' \in Nat /\ timers' \in 0 .. 2
  BY DEF CallLogout, queue, LoginInd, LoginInv, LoginTypeOK
<1>4. {isAutoLogin', isResetParam', account'} \subseteq BOOLEAN
  BY LoginAssumption DEF CallLogout, LoginInd, LoginInv, LoginTypeOK
<1>5. calls' \in [{"login", "logout", "relogin", "loss"} -> Nat]
  BY DEF CallLogout, Counted, LoginInd, LoginPlaces
<1>6. "bye" \in AnyPlace \ Joining /\ "bye" \notin Restarting /\ "idle" \notin Joining
  BY DEF AnyPlace, Joining, Resetting, Restarting, Returning
<1> QED BY <1>1, <1>2, <1>3, <1>4, <1>5, <1>6, ThreadFacts, UnsteadyKeeps

LEMMA ClearKeeps ==
  ASSUME LoginInd, HistoryKept, NEW p \in Procs, Reset(p), pc[p] = "clear"
  PROVE  LoginInd'
<1>1. ~SteadyLogin
  BY DEF LoginInd, Unreset, Resetting
<1>2. /\ pc' = [pc EXCEPT ![p] = IF p = "recv" THEN "idle" ELSE "connect"]
      /\ relogins' = 0 /\ timers' = 0 /\ account' = FALSE
      /\ UNCHANGED <<isLogin, isAutoLogin, isResetParam, request, client, calls>>
  BY DEF Reset, StopThread, JoinThread, At
<1>3. /\ relogins' \in Nat /\ timers' \in 0 .. 2
      /\ UNCHANGED <<recv, started, shut, startLock>>
  BY <1>2 DEF client
<1>4. /\ {isAutoLogin', isResetParam', account'} \subseteq BOOLEAN
      /\ calls' \in [{"login", "logout", "relogin", "loss"} -> Nat]
  BY <1>2 DEF LoginInd, LoginInv, LoginTypeOK, LoginPlaces
<1>5. /\ {"idle", "connect"} \subseteq AnyPlace \ Joining /\ "idle" \notin Restarting /\ "clear" \notin Joining
  BY DEF AnyPlace, Joining, Resetting, Restarting, Returning
<1>6. CASE p = "recv"
  BY <1>1, <1>2, <1>3, <1>5, <1>6, <1>4, UnsteadyKeeps
<1>7. CASE p # "recv"
  BY <1>1, <1>2, <1>3, <1>5, <1>7, <1>4, UnsteadyKeeps
<1> QED BY <1>6, <1>7

LEMMA StopPlaces ==
  ASSUME NEW s \in Stops
  PROVE  \/ s[1] = "stop" /\ s[2] = "stop join" /\ s[3] = "start"
         \/ s[1] = "bye" /\ s[2] = "bye join" /\ s[3] = "idle"
         \/ s[1] = "again" /\ s[2] = "again join" /\ s[3] = "ask"
<1>1. CASE s = <<"stop", "stop join", "start">>
  BY <1>1
<1>2. CASE s = <<"bye", "bye join", "idle">>
  BY <1>2
<1>3. CASE s = <<"again", "again join", "ask">>
  BY <1>3
<1> QED BY <1>1, <1>2, <1>3 DEF Stops

LEMMA StopKeeps ==
  ASSUME LoginInd, HistoryKept, NEW p \in Procs, Stop(p)
  PROVE  LoginInd'
<1>1. PICK s \in Stops : pc[p] = s[1] /\ pc' = [pc EXCEPT ![p] = s[2]]
  BY DEF Stop, At
<1>2. pc[p] \in {"stop", "bye", "again"} /\ s[2] \in AnyPlace \intersect Joining
  BY <1>1, StopPlaces DEF AnyPlace, Joining, Resetting, Restarting
<1>3. /\ pc' \in [Procs -> AnyPlace] /\ pc'[p] \in Joining /\ pc'[p] = s[2]
      /\ \A q \in Procs : q # p => pc'[q] = pc[q]
  BY <1>1, <1>2, Goes DEF LoginInd
<1>4. /\ startLock = NoThread /\ startLock' = p /\ shut' = TRUE
      /\ UNCHANGED <<flags, queue, request, recv, started, calls>> /\ scenario' = scenario
      /\ SteadyLogin' = SteadyLogin /\ (crossed' = (crossed \/ (SteadyLogin /\ Crossing')))
  BY StillSteady DEF Stop, HistoryKept
<1>5. /\ pc[p] = "stop" => s[2] = "stop join"
      /\ pc[p] = "bye" => s[2] = "bye join"
      /\ pc[p] = "again" => s[2] = "again join"
  BY <1>1, StopPlaces
<1>6. LoginInv'
  BY <1>2, <1>3, <1>4, ThreadFacts DEF flags, queue, request, LoginInd, LoginInv, LoginTypeOK, SessionAlive
<1>7. LoginPlaces' /\ Together'
  BY <1>3, <1>4 DEF LoginInd, LoginPlaces, Together, flags
<1>8. JoinLocked'
  BY <1>3, <1>4, ThreadFacts DEF LoginInd, JoinLocked
<1>9. AppAlone'
  BY <1>2, <1>3, <1>5 DEF LoginInd, AppAlone
<1>10. OneLogin'
  BY <1>2, <1>3, <1>4, <1>5 DEF LoginInd, OneLogin, Joining
<1>11. SteadyLogin => Unreset'
  <2>1. SteadyLogin => pc[p] # "bye"
    BY DEF LoginInd, Unreset, Resetting
  <2>2. SteadyLogin => pc'[p] \notin Resetting
    BY <1>2, <1>3, <1>5, <2>1 DEF Resetting
  <2>3. pc'[p] \in Restarting \ {"connect"} => pc[p] \in Restarting \ {"connect"}
    BY <1>2, <1>3, <1>5 DEF Restarting, Returning
  <2> QED BY <1>3, <1>4, <2>2, <2>3 DEF LoginInd, Unreset, flags
<1>12. SteadyLogin /\ ~crossed => Refused'
  BY <1>3, <1>4 DEF LoginInd, Refused, flags, Joining, Returning
<1>13. SteadyLogin /\ ~crossed => Watched'
  BY <1>2, <1>3, <1>4 DEF LoginInd, Watched, Followed, flags, queue, Joining, Returning
<1>14. Pending'
  BY <1>3 DEF Pending, Joining
<1> QED BY <1>4, <1>6, <1>7, <1>8, <1>9, <1>10, <1>11, <1>12, <1>13, <1>14 DEF LoginInd

LEMMA StopJoinKeeps ==
  ASSUME LoginInd, HistoryKept, NEW p \in Procs, StopJoin(p)
  PROVE  LoginInd'
<1>1. PICK s \in Stops : pc[p] = s[2] /\ pc' = [pc EXCEPT ![p] = s[3]]
  BY DEF StopJoin, At
<1>2. /\ \/ pc[p] = "stop join" /\ s[3] = "start"
         \/ pc[p] = "bye join" /\ s[3] = "idle"
         \/ pc[p] = "again join" /\ s[3] = "ask"
      /\ s[3] \in AnyPlace \ Joining /\ p # "recv"
  BY <1>1, StopPlaces DEF AnyPlace, Joining, Resetting, Restarting, Returning, LoginInd, LoginInv, LoginTypeOK
<1>3. /\ pc' \in [Procs -> AnyPlace] /\ pc'[p] = s[3] /\ pc'[p] \notin Joining
      /\ \A q \in Procs : q # p => pc'[q] = pc[q]
  BY <1>1, <1>2, Goes DEF LoginInd
<1>4. /\ recv \in {"none", "done"} /\ recv' = "none" /\ started' = FALSE /\ shut' = FALSE /\ startLock' = NoThread
      /\ UNCHANGED <<flags, queue, request, calls>> /\ scenario' = scenario
      /\ SteadyLogin' = SteadyLogin /\ (crossed' = (crossed \/ (SteadyLogin /\ Crossing')))
  BY StillSteady DEF StopJoin, HistoryKept
<1>5. startLock = p
  BY <1>2 DEF LoginInd, JoinLocked, Joining
<1>6. LoginInv'
  BY <1>2, <1>3, <1>4, ThreadFacts DEF flags, queue, request, LoginInd, LoginInv, LoginTypeOK, SessionAlive
<1>7. LoginPlaces' /\ Together'
  BY <1>3, <1>4 DEF LoginInd, LoginPlaces, Together, flags
<1>8. JoinLocked'
  BY <1>3, <1>4, <1>5, ThreadFacts DEF LoginInd, JoinLocked
<1>9. AppAlone'
  BY <1>2, <1>3 DEF LoginInd, AppAlone
<1>10. OneLogin'
  BY <1>3, <1>4 DEF LoginInd, OneLogin
<1>11. SteadyLogin => Unreset'
  <2>1. SteadyLogin => pc[p] # "bye join"
    BY DEF LoginInd, Unreset, Resetting
  <2>2. SteadyLogin => pc'[p] \notin Resetting
    BY <1>2, <1>3, <2>1 DEF Resetting
  <2>3. pc'[p] \in Restarting \ {"connect"} => pc[p] \in Restarting \ {"connect"}
    BY <1>2, <1>3 DEF Restarting, Returning
  <2> QED BY <1>3, <1>4, <2>2, <2>3 DEF LoginInd, Unreset, flags
<1>12. Refused'
  BY <1>4 DEF Refused
<1>13. SteadyLogin /\ ~crossed' => Watched'
  <2> SUFFICES ASSUME SteadyLogin, ~crossed', NEW q \in Procs, pc'[q] \in Returning PROVE account /\ Followed'
    BY <1>4 DEF Watched, flags
  <2>1. pc[q] \in Returning /\ q # p
    BY <1>2, <1>3 DEF Returning
  <2>2. account /\ Followed
    BY <1>4, <2>1 DEF LoginInd, Watched
  <2>3. pc[p] # "stop join"
    BY <1>2, <1>3, <1>4, <2>1 DEF Crossing, Restarting
  <2>4. pc[p] # "bye join"
    BY DEF LoginInd, Unreset, Resetting
  <2>5. pc'[p] = "ask"
    BY <1>2, <1>3, <2>3, <2>4
  <2> QED BY <2>2, <2>5 DEF Followed
<1>14. SteadyLogin => Pending'
  <2>1. SteadyLogin => pc[p] # "bye join"
    BY DEF LoginInd, Unreset, Resetting
  <2> QED BY <1>2, <1>3, <2>1 DEF Pending
<1> QED BY <1>4, <1>6, <1>7, <1>8, <1>9, <1>10, <1>11, <1>12, <1>13, <1>14 DEF LoginInd

LEMMA StartKeeps ==
  ASSUME LoginInd, HistoryKept, NEW p \in Procs, Start(p)
  PROVE  LoginInd'
<1>1. /\ pc[p] = "start" /\ pc' = [pc EXCEPT ![p] = "started"] /\ "started" \in AnyPlace \ Joining
      /\ startLock = NoThread /\ started' = TRUE /\ recv' = IF started THEN recv ELSE "connecting"
      /\ UNCHANGED <<flags, queue, request, shut, startLock, calls>> /\ scenario' = scenario
      /\ SteadyLogin' = SteadyLogin /\ (crossed' = (crossed \/ (SteadyLogin /\ Crossing')))
  BY StillSteady DEF Start, At, HistoryKept, AnyPlace, Restarting, Returning, Joining
<1>2. /\ pc' \in [Procs -> AnyPlace] /\ pc'[p] = "started" /\ p # "recv"
      /\ \A q \in Procs : q # p => pc'[q] = pc[q]
  BY <1>1, Goes DEF LoginInd, LoginInv, LoginTypeOK
<1>3. ~started => recv \in {"none", "done"}
  BY DEF LoginInd, LoginInv, LoginTypeOK
<1>4. SteadyLogin /\ ~crossed => ~started
  BY <1>1 DEF LoginInd, OneLogin
<1>5. LoginInv'
  BY <1>1, <1>2, <1>3, ThreadFacts DEF flags, queue, request, LoginInd, LoginInv, LoginTypeOK, SessionAlive
<1>6. LoginPlaces' /\ Together'
  BY <1>1, <1>2, <1>3 DEF LoginInd, LoginPlaces, Together, flags
<1>7. JoinLocked'
  BY <1>1, <1>2 DEF LoginInd, JoinLocked, Joining
<1>8. AppAlone'
  BY <1>2 DEF LoginInd, AppAlone
<1>9. OneLogin'
  BY <1>1, <1>2 DEF LoginInd, OneLogin, Crossing, Restarting, Returning
<1>10. SteadyLogin => Unreset'
  <2>1. "started" \notin Resetting /\ "start" \in Restarting \ {"connect"}
    BY DEF Resetting, Restarting
  <2> QED BY <1>1, <1>2, <2>1 DEF LoginInd, Unreset, flags
<1>11. SteadyLogin /\ ~crossed => recv' = "connecting"
  BY <1>1, <1>4
<1> QED BY <1>1, <1>5, <1>6, <1>7, <1>8, <1>9, <1>10, <1>11 DEF LoginInd, Refused, Watched, Pending

\* The last of StartRequestThread: the thread is created.
LEMMA CreateKeeps ==
  ASSUME LoginInd, HistoryKept, NEW p \in Procs, StartRequestThread(p), pc[p] = "create"
  PROVE  LoginInd'
<1>1. PICK r \in RequestThreads \ {p} :
        /\ pc[r] = "ended" /\ requestThread' = r /\ threadStart' = TRUE
        /\ pc' = [pc EXCEPT ![p] = "auto", ![r] = "idle"]
  BY DEF StartRequestThread, StopThread, JoinThread
<1>2. /\ UNCHANGED <<flags, queue, client, calls>> /\ scenario' = scenario
      /\ SteadyLogin' = SteadyLogin /\ (crossed' = (crossed \/ (SteadyLogin /\ Crossing')))
  BY StillSteady DEF StartRequestThread, StopThread, JoinThread, HistoryKept
<1>3. {"auto", "idle"} \subseteq AnyPlace /\ r \in Procs /\ r # "recv" /\ p # "recv"
  BY ThreadFacts DEF AnyPlace, Restarting, Returning, LoginInd, LoginInv, LoginTypeOK
<1>4. /\ pc' \in [Procs -> AnyPlace] /\ pc'[p] = "auto" /\ pc'[r] = "idle" /\ r # p
      /\ \A q \in Procs : q # p /\ q # r => pc'[q] = pc[q]
  BY <1>1, <1>3 DEF LoginInd, LoginPlaces
<1>5. LoginInv'
  BY <1>1, <1>2, <1>3, <1>4, ThreadFacts DEF flags, queue, client, LoginInd, LoginInv, LoginTypeOK, SessionAlive
<1>6. LoginPlaces' /\ Together'
  BY <1>2, <1>4 DEF LoginInd, LoginPlaces, Together, flags, client
<1>7. JoinLocked'
  BY <1>1, <1>2, <1>4 DEF LoginInd, JoinLocked, Joining, client
<1>8. AppAlone'
  BY <1>1, <1>4 DEF LoginInd, AppAlone
<1>9. OneLogin'
  BY <1>2, <1>4 DEF LoginInd, OneLogin, client
<1>10. SteadyLogin => Unreset'
  <2>1. {"auto", "idle"} \intersect Resetting = {} /\ "idle" \notin Restarting /\ "create" \in Restarting \ {"connect"}
    BY DEF Resetting, Restarting, Returning
  <2> QED BY <1>2, <1>4, <2>1 DEF LoginInd, Unreset, flags
<1>11. \A q \in Procs : pc'[q] \in Returning => pc[q] \in Returning
  BY <1>4 DEF Returning
<1>12. Followed => Followed'
  BY <1>1, <1>2, <1>4 DEF Followed, queue
<1>13. Pending'
  BY <1>4 DEF Pending
<1> QED BY <1>2, <1>5, <1>6, <1>7, <1>8, <1>9, <1>10, <1>11, <1>12, <1>13 DEF LoginInd, Refused, Watched, flags, client

LEMMA SetParamsKeeps ==
  ASSUME LoginInd, HistoryKept, NEW p \in Procs, SetParams(p)
  PROVE  LoginInd'
<1>1. /\ pc[p] = "auto" /\ pc' = [pc EXCEPT ![p] = "idle"] /\ "idle" \in AnyPlace
      /\ isAutoLogin' = TRUE /\ account' = TRUE
      /\ UNCHANGED <<isLogin, isResetParam, queue, request, client, calls>> /\ scenario' = scenario
      /\ SteadyLogin' = SteadyLogin /\ (crossed' = (crossed \/ (SteadyLogin /\ Crossing')))
  BY StillSteady DEF SetParams, At, HistoryKept, AnyPlace
<1>2. /\ pc' \in [Procs -> AnyPlace] /\ pc'[p] = "idle" /\ p # "recv"
      /\ \A q \in Procs : q # p => pc'[q] = pc[q]
  BY <1>1, Goes DEF LoginInd, LoginInv, LoginTypeOK
<1>3. pc[p] \in Returning /\ "idle" \notin Returning \union Restarting \union Resetting \union Joining
  BY <1>1 DEF Returning, Restarting, Resetting, Joining
<1>4. LoginInv'
  BY <1>1, <1>2, ThreadFacts DEF queue, request, client, LoginInd, LoginInv, LoginTypeOK, SessionAlive
<1>5. LoginPlaces' /\ Together'
  BY <1>1, <1>2 DEF LoginInd, LoginPlaces, Together, client
<1>6. JoinLocked'
  BY <1>1, <1>2 DEF LoginInd, JoinLocked, Joining, client
<1>7. AppAlone'
  BY <1>2 DEF LoginInd, AppAlone
<1>8. OneLogin'
  BY <1>1, <1>2 DEF LoginInd, OneLogin, client
<1>9. SteadyLogin => Unreset'
  BY <1>1, <1>2, <1>3 DEF LoginInd, Unreset
<1>10. SteadyLogin /\ ~crossed => recv # "rejected" /\ (recv \notin {"none", "done"} \/ Followed)
  BY <1>3 DEF LoginInd, Refused, Watched
<1>11. Followed => Followed' /\ (relogins' > 0 \/ \E q \in Procs : pc'[q] \in {"login", "again join", "ask"})
  BY <1>1, <1>2 DEF Followed, queue
<1>12. SteadyLogin /\ ~crossed => Refused' /\ Watched' /\ Pending'
  BY <1>1, <1>2, <1>10, <1>11 DEF Refused, Watched, Pending, client
<1> QED BY <1>1, <1>4, <1>5, <1>6, <1>7, <1>8, <1>9, <1>12 DEF LoginInd, Pending

LEMMA AskReloginKeeps ==
  ASSUME LoginInd, HistoryKept, AskRelogin
  PROVE  LoginInd'
<1>1. /\ pc["app"] = "ask" /\ pc' = [pc EXCEPT !["app"] = "idle"] /\ "idle" \in AnyPlace /\ "app" \in Procs
      /\ UNCHANGED <<flags, timers, request, client, calls>> /\ scenario' = scenario
      /\ SteadyLogin' = SteadyLogin /\ (crossed' = (crossed \/ (SteadyLogin /\ Crossing')))
  BY StillSteady, ThreadFacts DEF AskRelogin, At, HistoryKept, AnyPlace
<1>2. relogins' \in Nat /\ relogins' > 0
  <2>1. relogins \in Nat
    BY DEF LoginInd, LoginInv, LoginTypeOK
  <2>2. relogins' = relogins + 1
    BY DEF AskRelogin
  <2> QED BY <2>1, <2>2
<1>3. /\ pc' \in [Procs -> AnyPlace] /\ pc'["app"] = "idle"
      /\ \A q \in Procs : q # "app" => pc'[q] = pc[q]
  BY <1>1, Goes DEF LoginInd
<1>4. "idle" \notin Returning \union Restarting \union Resetting \union Joining
  BY DEF Returning, Restarting, Resetting, Joining
<1>5. LoginInv'
  BY <1>1, <1>2, <1>3, ThreadFacts DEF flags, request, client, LoginInd, LoginInv, LoginTypeOK, SessionAlive
<1>6. LoginPlaces' /\ Together' /\ AppAlone'
  BY <1>1, <1>3 DEF LoginInd, LoginPlaces, Together, AppAlone, flags, client
<1>7. JoinLocked'
  BY <1>1, <1>3 DEF LoginInd, JoinLocked, Joining, client
<1>8. OneLogin'
  BY <1>1, <1>3 DEF LoginInd, OneLogin, client
<1>9. SteadyLogin => Unreset'
  BY <1>1, <1>3, <1>4 DEF LoginInd, Unreset, flags
<1>10. SteadyLogin /\ ~crossed => Refused'
  BY <1>1, <1>3, <1>4 DEF LoginInd, Refused, flags, client
<1>11. SteadyLogin /\ ~crossed => Watched'
  BY <1>1, <1>2, <1>3, <1>4 DEF LoginInd, Watched, Followed, flags, client
<1>12. Pending'
  BY <1>2 DEF Pending
<1> QED BY <1>1, <1>5, <1>6, <1>7, <1>8, <1>9, <1>10, <1>11, <1>12 DEF LoginInd

LEMMA AutoReloginKeeps ==
  ASSUME LoginInd, HistoryKept, NEW r \in RequestThreads, AutoRelogin(r)
  PROVE  LoginInd'
<1> DEFINE to == IF account THEN "login" ELSE "idle"
<1>1. /\ pc[r] = "idle" /\ pc' = [pc EXCEPT ![r] = to] /\ to \in AnyPlace /\ r \in Procs /\ r # "recv" /\ r # "app"
      /\ UNCHANGED <<flags, timers, request, client, calls>> /\ scenario' = scenario
      /\ SteadyLogin' = SteadyLogin /\ (crossed' = (crossed \/ (SteadyLogin /\ Crossing')))
  BY StillSteady, ThreadFacts DEF AutoRelogin, HistoryKept, AnyPlace
<1>2. relogins' \in Nat
  <2>1. relogins \in Nat
    BY DEF LoginInd, LoginInv, LoginTypeOK
  <2>2. relogins > 0 /\ relogins' = relogins - 1
    BY DEF AutoRelogin
  <2> QED BY <2>1, <2>2
<1>3. /\ pc' \in [Procs -> AnyPlace] /\ pc'[r] = to
      /\ \A q \in Procs : q # r => pc'[q] = pc[q]
  BY <1>1, Goes DEF LoginInd
<1>4. to \in {"idle", "login"} /\ {"idle", "login"} \intersect (Returning \union Restarting \union Resetting \union Joining) = {}
  BY DEF Returning, Restarting, Resetting, Joining
<1>5. account => to = "login"
  OBVIOUS
<1> HIDE DEF to
<1>6. LoginInv'
  BY <1>1, <1>2, <1>3, ThreadFacts DEF flags, request, client, LoginInd, LoginInv, LoginTypeOK, SessionAlive
<1>7. LoginPlaces' /\ Together' /\ AppAlone'
  BY <1>1, <1>3, <1>4 DEF LoginInd, LoginPlaces, Together, AppAlone, flags, client
<1>8. JoinLocked'
  BY <1>1, <1>3, <1>4 DEF LoginInd, JoinLocked, Joining, client
<1>9. OneLogin'
  BY <1>1, <1>3, <1>4 DEF LoginInd, OneLogin, client
<1>10. SteadyLogin => Unreset'
  BY <1>1, <1>3, <1>4 DEF LoginInd, Unreset, flags
<1>11. SteadyLogin /\ ~crossed => Refused'
  BY <1>1, <1>3, <1>4 DEF LoginInd, Refused, flags, client
<1>12. account => Followed' /\ pc'[r] = "login"
  BY <1>1, <1>3, <1>5 DEF Followed
<1>13. SteadyLogin /\ ~crossed => Watched'
  BY <1>1, <1>3, <1>4, <1>12 DEF LoginInd, Watched, flags, client
<1>14. SteadyLogin => Pending'
  BY <1>1, <1>12 DEF LoginInd, Unreset, Pending, flags
<1> QED BY <1>1, <1>6, <1>7, <1>8, <1>9, <1>10, <1>11, <1>13, <1>14 DEF LoginInd

(***************************************************************************)
(* The manager.                                                            *)
(***************************************************************************)
LEMMA LoginStepKeeps ==
  ASSUME LoginInd, HistoryKept, NEW p \in Procs, LoginStep(p)
  PROVE  LoginInd'
<1>1. CASE Reset(p) /\ pc[p] # "clear"
  <2>1. StopThread(p, "reset", "reset join", "clear") \/ JoinThread(p, "reset join", "clear")
    BY <1>1 DEF Reset, At
  <2> DEFINE s == <<"reset", "reset join", "clear">>
  <2>2. s \in Stopping /\ (StopThread(p, s[1], s[2], s[3]) \/ JoinThread(p, s[2], s[3]))
    BY <2>1 DEF Stopping
  <2> QED BY <2>2, StopThreadWalks
<1>2. CASE StartRequestThread(p) /\ pc[p] # "create"
  <2>1. StopThread(p, "threads", "threads join", "create") \/ JoinThread(p, "threads join", "create")
    BY <1>2 DEF StartRequestThread
  <2> DEFINE s == <<"threads", "threads join", "create">>
  <2>2. s \in Stopping /\ (StopThread(p, s[1], s[2], s[3]) \/ JoinThread(p, s[2], s[3]))
    BY <2>1 DEF Stopping
  <2> QED BY <2>2, StopThreadWalks
<1>3. CASE Reset(p) /\ pc[p] = "clear"
  BY <1>3, ClearKeeps
<1>4. CASE StartRequestThread(p) /\ pc[p] = "create"
  BY <1>4, CreateKeeps
<1> QED BY <1>1, <1>2, <1>3, <1>4, LoginCheckWalks, ConnectWalks, StopKeeps, StopJoinKeeps, StartKeeps, StartedWalks,
           SetParamsKeeps DEF LoginStep

LEMMA LoginNextKeeps ==
  ASSUME LoginInd, [LoginNext]_<<loginVars, crossed, scenario>>
  PROVE  LoginInd'
<1>1. CASE LoginNext
  <2>1. HistoryKept
    BY <1>1 DEF LoginNext, HistoryKept
  <2>2. CASE CallLogin \/ CallRelogin
    BY <2>1, <2>2, CallsWalk
  <2>3. CASE CallLogout
    BY <2>1, <2>3, CallLogoutKeeps
  <2>4. CASE AskRelogin
    BY <2>1, <2>4, AskReloginKeeps
  <2>5. CASE \E p \in Procs : LoginStep(p)
    BY <2>1, <2>5, LoginStepKeeps
  <2>6. CASE \E r \in RequestThreads : ThreadEnds(r) \/ AutoRelogin(r)
    BY <2>1, <2>6, ThreadEndsWalks, AutoReloginKeeps
  <2>7. CASE RecvStep
    BY <2>1, <2>7, ConnectedKeeps, VersionCheckedKeeps, LoginFailedKeeps, LoginRefusedKeeps, LoggedInKeeps,
       LoggedOutKeeps DEF RecvStep
  <2> QED BY <1>1, <2>2, <2>3, <2>4, <2>5, <2>6, <2>7 DEF LoginNext, ManagerStep
<1>2. CASE UNCHANGED <<loginVars, crossed, scenario>>
  <2>1. UNCHANGED <<isLogin, isAutoLogin, isResetParam, account, relogins, timers, requestThread, threadStart, pc, recv,
                    started, shut, startLock, calls, crossed, scenario>>
    BY <1>2 DEF loginVars, flags, queue, request, client
  <2>2. LoginInv'
    BY <2>1 DEF LoginInd, LoginInv, LoginTypeOK, SessionAlive
  <2>3. LoginPlaces' /\ JoinLocked' /\ Together' /\ AppAlone' /\ OneLogin'
    BY <2>1 DEF LoginInd, LoginPlaces, JoinLocked, Together, AppAlone, OneLogin, Crossing, SteadyLogin
  <2>4. SteadyLogin => Unreset' /\ (~crossed => Refused' /\ Watched') /\ Pending'
    BY <2>1 DEF LoginInd, Unreset, Refused, Watched, Followed, Pending, SteadyLogin
  <2> QED BY <2>1, <2>2, <2>3, <2>4 DEF LoginInd, SteadyLogin
<1> QED BY <1>1, <1>2

LEMMA LoginBegins == LoginInit => LoginInd
<1> SUFFICES ASSUME LoginInit PROVE LoginInd
  OBVIOUS
<1>1. \A p \in Procs : pc[p] \in {"idle", "ended"}
  BY DEF LoginInit
<1>2. {"idle", "ended"} \subseteq AnyPlace /\ {"idle", "ended"} \intersect (Joining \union Resetting \union Restarting) = {}
  BY DEF AnyPlace, Joining, Resetting, Restarting, Returning
<1>3. LoginInv
  <2>1. pc["recv"] = "idle" /\ DOMAIN pc = Procs
    BY ThreadFacts DEF LoginInit
  <2>2. {isLogin, isAutoLogin, isResetParam, account, threadStart, started, shut} \subseteq BOOLEAN
    BY DEF LoginInit
  <2>3. relogins \in Nat /\ timers \in 0 .. 2 /\ recv = "none" /\ requestThread = NoThread /\ startLock = NoThread
        /\ scenario \in Scenarios
    BY DEF LoginInit
  <2>4. LoginTypeOK
    BY <2>1, <2>2, <2>3 DEF LoginTypeOK
  <2> QED BY <2>4 DEF LoginInit, LoginInv, SessionAlive
<1>4. LoginPlaces
  <2>1. pc \in [Procs -> AnyPlace]
    BY <1>2 DEF LoginInit
  <2> QED BY <2>1 DEF LoginInit, LoginPlaces
<1>5. JoinLocked /\ Together /\ AppAlone
  BY <1>1, <1>2, ThreadFacts DEF LoginInit, JoinLocked, Together, AppAlone
<1>6. OneLogin
  BY <1>1, <1>2 DEF OneLogin, Crossing
<1>7. Unreset
  BY <1>1, <1>2 DEF LoginInit, Unreset
<1>8. Refused /\ Pending
  BY DEF LoginInit, Refused, Pending
<1>9. Watched
  BY <1>1 DEF Watched, Returning
<1> QED BY <1>3, <1>4, <1>5, <1>6, <1>7, <1>8, <1>9 DEF LoginInd

(***************************************************************************)
(* Who holds the lock of the transport, what follows a login that returns, *)
(* and the two theorems below, in every state of the manager, for any      *)
(* number of request threads and any scenarios.                            *)
(***************************************************************************)
THEOREM LoginsKept == LoginSpec => []LoginInd
<1>1. LoginInd /\ [LoginNext]_<<loginVars, crossed, scenario>> => LoginInd'
  BY LoginNextKeeps
<1> QED BY <1>1, LoginBegins, PTL DEF LoginSpec

(***************************************************************************)
(* The manager takes itself for logged in only while its connection lives. *)
(***************************************************************************)
THEOREM LoggedInAlive == LoginSpec => []LoginInv
<1>1. LoginInd => LoginInv
  BY DEF LoginInd
<1> QED BY <1>1, LoginsKept, PTL

(***************************************************************************)
(* In a steady scenario, while no two logins have crossed, a manager that  *)
(* is to log in again by itself is logged in, or a login is under way or   *)
(* queued.                                                                 *)
(***************************************************************************)
THEOREM AlwaysPending == LoginSpec => []Pending
<1>1. LoginInd => Pending
  BY DEF LoginInd, Pending
<1> QED BY <1>1, LoginsKept, PTL
=============================================================================
