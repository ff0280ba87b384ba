----------------------- MODULE LiveChatTransportProofs -----------------------
(***************************************************************************)
(* Proofs about LiveChatTransport, for any number of addresses, logins,    *)
(* requests and heartbeats.  The invariant has two halves: where the       *)
(* threads are, and who holds which task.                                  *)
(***************************************************************************)
EXTENDS LiveChatTransport, TLAPS

Flags ==
  /\ sock \in {"none", "new", "connecting", "open", "closed", "shut"}
  /\ bStart \in BOOLEAN /\ peer \in BOOLEAN /\ loggedIn \in BOOLEAN
  /\ beat \in {"none", "sleep", "push", "end"} /\ beatRun \in BOOLEAN

Typed ==
  /\ setup \in Setups
  /\ app \in {"out", "in", "stop", "stop for login", "join", "join for login", "create", "starting"}
  /\ mgrStart \in BOOLEAN /\ listHeld \in BOOLEAN
  /\ recv \in Receiving /\ send \in Sending

Meeting ==
  /\ send.at # "none" => recv.at \in {"recv", "find", "disconnect", "join send"}
  /\ listHeld <=> recv.at \in {"callback", "join beat"}
  /\ app \in {"out", "create"} => recv.at = "none" /\ ~mgrStart
  /\ app = "in" => mgrStart

Control == Flags /\ Typed /\ Meeting

Tasks ==
  /\ user \in Nat /\ kinds \in Seq(Kinds) /\ sendList \in Seq(Nat)
  /\ ToSet(sendList) \cup taskMap \cup inflight \cup freed \cup lost \cup InHands \subseteq DOMAIN kinds
  /\ HeldOnce /\ Swept /\ NotYet /\ InHands \cap lost = {}

LEMMA Halves == TransportIInv <=> Control /\ Tasks
BY DEF TransportIInv, TransportInv, TypeOK, ThreadsMeet, Control, Flags, Typed, Meeting, Tasks

-----------------------------------------------------------------------------
(* Where the threads are                                                   *)

LEMMA ReceivingMade ==
  /\ \A a \in {"none", "connected", "check", "recv", "disconnect", "join send", "callback", "join beat", "end"} :
       [at |-> a] \in Receiving
  /\ \A a \in {"loop", "new", "connect", "end"}, n \in Nat : [at |-> a, left |-> n] \in Receiving
  /\ \A n \in Nat : [at |-> "find", task |-> n] \in Receiving
  /\ [at |-> "end", called |-> TRUE] \in Receiving
BY DEF Receiving

LEMMA ReceivingIs ==
  ASSUME NEW r \in Receiving, r.at \in {"loop", "new", "connect"}
  PROVE  r.left \in Nat /\ [r EXCEPT !.at = "connect"] = [at |-> "connect", left |-> r.left]
<1>1. r \in [at : {"loop", "new", "connect", "end"}, left : Nat]
  BY DEF Receiving
<1>. QED BY <1>1

LEMMA SendingMade ==
  /\ \A a \in {"none", "loop", "end"} : [at |-> a] \in Sending
  /\ \A a \in {"pack", "send", "sent", "failed"}, n \in Nat : [at |-> a, task |-> n] \in Sending
BY DEF Sending

LEMMA SendingIs ==
  ASSUME NEW s \in Sending, s.at \in {"pack", "send", "sent", "failed"}
  PROVE  /\ s.task \in Nat
         /\ \A a \in {"send", "sent", "failed"} : [s EXCEPT !.at = a] = [at |-> a, task |-> s.task]
<1>1. s \in [at : {"pack", "send", "sent", "failed"}, task : Nat]
  BY DEF Sending
<1>. QED BY <1>1

\* A step of the receive thread outside the callback, and one of the send thread.
LEMMA RecvMoves ==
  ASSUME Control, Flags', UNCHANGED <<setup, app, mgrStart, listHeld>>,
         recv.at \notin {"none", "callback", "join beat"},
         recv' \in Receiving, recv'.at \notin {"callback", "join beat"},
         send' \in Sending, send'.at # "none" => recv'.at \in {"recv", "find", "disconnect", "join send"}
  PROVE  Control'
<1>1. Typed'
  BY DEF Control, Typed
<1>2. Meeting'
  BY DEF Control, Meeting
<1>. QED BY <1>1, <1>2 DEF Control

LEMMA SendMoves ==
  ASSUME Control, Flags', UNCHANGED <<setup, app, mgrStart, listHeld, recv>>,
         send.at # "none", send' \in Sending
  PROVE  Control'
<1>1. Typed'
  BY DEF Control, Typed
<1>2. Meeting'
  BY DEF Control, Meeting
<1>. QED BY <1>1, <1>2 DEF Control

LEMMA AppControl ==
  ASSUME Control, UNCHANGED setup, Login \/ Logout \/ AppStep
  PROVE  Control'
<1>. USE DEF Control
<1>1. setup.ips \in Nat
  BY TransportAssumption DEF Typed
<1>2. Idle \in Receiving /\ Idle.at = "none" /\ [at |-> "loop", left |-> setup.ips] \in Receiving
  BY <1>1, ReceivingMade DEF Idle
<1>3. Flags'
  BY DEF Flags, Login, Logout, AppStep, Stop, DisconnectProc, Joined, Create, Started, start, beating
<1>4. Typed'
  BY <1>2 DEF Typed, Login, Logout, AppStep, Stop, Joined, Create, Started, start
<1>5. Meeting'
  <2>1. CASE Login
    BY <2>1 DEF Meeting, Login, start
  <2>2. CASE Logout
    BY <2>2 DEF Meeting, Logout, start
  <2>3. CASE Stop
    BY <2>3 DEF Meeting, Stop
  <2>4. CASE Joined
    BY <1>2, <2>4 DEF Meeting, Joined
  <2>5. CASE Create
    <3>1. recv'.at = "loop" /\ app' = "starting"
      BY <2>5 DEF Create
    <3>2. send.at = "none" /\ ~ listHeld /\ UNCHANGED <<send, listHeld>>
      BY <2>5 DEF Meeting, Create
    <3>. QED BY <3>1, <3>2 DEF Meeting
  <2>6. CASE Started
    BY <2>6 DEF Meeting, Started
  <2>. QED BY <2>1, <2>2, <2>3, <2>4, <2>5, <2>6 DEF AppStep
<1>. QED BY <1>3, <1>4, <1>5

LEMMA UserControl ==
  ASSUME Control, UNCHANGED setup, Request \/ SendTaskData \/ ServerCloses \/ BeatStep
  PROVE  Control'
<1>1. UNCHANGED <<app, mgrStart, listHeld, recv, send>>
  BY DEF Request, SendTaskData, ServerCloses, BeatStep, Beat, PushBeat, start
<1>2. Flags'
  BY DEF Control, Flags, Request, SendTaskData, ServerCloses, BeatStep, Beat, PushBeat, start, beating
<1>3. Typed'
  BY <1>1 DEF Control, Typed
<1>4. Meeting'
  BY <1>1 DEF Control, Meeting
<1>. QED BY <1>2, <1>3, <1>4 DEF Control

LEMMA ConnectControl ==
  ASSUME Control, UNCHANGED setup, NextAddress \/ Connecting \/ Connected \/ OnConnect \/ StartSending
  PROVE  Control'
<1>1. UNCHANGED <<app, mgrStart, listHeld>> /\ recv.at \in {"loop", "new", "connect", "connected", "check"}
  BY DEF NextAddress, Connecting, Connected, OnConnect, StartSending, start
<1>2. Flags'
  BY DEF Control, Flags, NextAddress, Connecting, Connected, OnConnect, StartSending, start, beating
<1>3. send.at = "none" /\ send \in Sending
  BY <1>1 DEF Control, Typed, Meeting
<1>4. ASSUME recv.at \in {"loop", "new", "connect"} PROVE recv.left \in Nat
  BY <1>4, ReceivingIs DEF Control, Typed
<1>5. CASE NextAddress
  <2>1. recv.left \in Nat
    BY <1>4, <1>5 DEF NextAddress
  <2>2. recv.left > 0 => recv.left - 1 \in Nat
    BY <2>1
  <2>3. /\ recv.left > 0 => [at |-> "new", left |-> recv.left - 1] \in Receiving
        /\ [at |-> "end", left |-> recv.left] \in Receiving
    BY <2>1, <2>2, ReceivingMade
  <2>4. recv' \in Receiving /\ recv'.at \in {"new", "end"} /\ send' = send
    BY <1>5, <2>1, <2>3 DEF NextAddress
  <2>. QED BY <1>1, <1>2, <1>3, <2>4, RecvMoves
<1>6. CASE Connecting
  <2>1. recv.left \in Nat /\ recv' = [at |-> "connect", left |-> recv.left]
    BY <1>4, <1>6, ReceivingIs DEF Control, Typed, Connecting
  <2>2. recv' \in Receiving /\ recv'.at = "connect" /\ send' = send
    BY <1>6, <2>1, ReceivingMade DEF Connecting
  <2>. QED BY <1>1, <1>2, <1>3, <2>2, RecvMoves
<1>7. CASE Connected
  <2>1. recv.left \in Nat
    BY <1>4, <1>7 DEF Connected
  <2>2. [at |-> "loop", left |-> recv.left] \in Receiving /\ [at |-> "connected"] \in Receiving
    BY <2>1, ReceivingMade
  <2>3. recv' \in Receiving /\ recv'.at \in {"loop", "connected"} /\ send' = send
    BY <1>7, <2>2 DEF Connected
  <2>. QED BY <1>1, <1>2, <1>3, <2>3, RecvMoves
<1>8. CASE OnConnect
  <2>1. recv' \in Receiving /\ recv'.at = "check" /\ send' = send
    BY <1>8, ReceivingMade DEF OnConnect
  <2>. QED BY <1>1, <1>2, <1>3, <2>1, RecvMoves
<1>9. CASE StartSending
  <2>1. [at |-> "recv"] \in Receiving /\ [at |-> "end"] \in Receiving /\ [at |-> "loop"] \in Sending
    BY ReceivingMade, SendingMade
  <2>2. /\ recv' \in Receiving /\ recv'.at \in {"recv", "end"}
        /\ send' \in Sending /\ (send'.at # "none" => recv'.at = "recv")
    BY <1>3, <1>9, <2>1 DEF StartSending
  <2>. QED BY <1>1, <1>2, <2>2, RecvMoves
<1>. QED BY <1>5, <1>6, <1>7, <1>8, <1>9

LEMMA RecvControl ==
  ASSUME Control, Tasks, UNCHANGED setup, Answer \/ OnRecv \/ RecvEnds \/ RecvDisconnect
  PROVE  Control'
<1>1. UNCHANGED <<app, mgrStart, listHeld, send>> /\ recv.at \in {"recv", "find", "disconnect"}
  BY DEF Answer, OnRecv, RecvEnds, RecvDisconnect, start
<1>2. Flags'
  <2>1. CASE OnRecv
    <3>1. loggedIn' \in BOOLEAN
      BY <2>1 DEF Control, Flags, OnRecv
    <3>. QED BY <2>1, <3>1 DEF Control, Flags, OnRecv, start, beating
  <2>2. CASE Answer \/ RecvEnds \/ RecvDisconnect
    BY <2>2 DEF Control, Flags, Answer, RecvEnds, RecvDisconnect, DisconnectProc, start, beating
  <2>. QED BY <2>1, <2>2
<1>3. recv' \in Receiving /\ recv'.at \in {"recv", "find", "disconnect", "join send"}
  <2>1. CASE Answer
    <3>1. PICK i \in inflight : recv' = [at |-> "find", task |-> i]
      BY <2>1 DEF Answer
    <3>2. i \in Nat
      BY DEF Tasks
    <3>. QED BY <3>1, <3>2, ReceivingMade
  <2>2. \A a \in {"recv", "disconnect", "join send"} : [at |-> a] \in Receiving
    BY ReceivingMade
  <2>3. CASE OnRecv
    BY <2>2, <2>3 DEF OnRecv
  <2>4. CASE RecvEnds
    BY <2>2, <2>4 DEF RecvEnds
  <2>5. CASE RecvDisconnect
    BY <2>2, <2>5 DEF RecvDisconnect
  <2>. QED BY <2>1, <2>3, <2>4, <2>5
<1>4. send \in Sending
  BY DEF Control, Typed
<1>. QED BY <1>1, <1>2, <1>3, <1>4, RecvMoves

LEMMA CallbackControl ==
  ASSUME Control, UNCHANGED setup, SendJoined \/ OnDisconnect \/ BeatJoined
  PROVE  Control'
<1>0. UNCHANGED <<app, mgrStart>> /\ recv.at \in {"join send", "callback", "join beat"}
  BY DEF SendJoined, OnDisconnect, BeatJoined, start
<1>1. Flags'
  BY DEF Control, Flags, SendJoined, OnDisconnect, BeatJoined, start, beating
<1>2. /\ recv' \in Receiving /\ recv'.at \in {"callback", "join beat", "end"}
      /\ send' \in Sending /\ send'.at = "none"
      /\ listHeld' \in BOOLEAN /\ (listHeld' <=> recv'.at \in {"callback", "join beat"})
  <2>1. CASE SendJoined
    <3>1. Idle \in Sending /\ Idle.at = "none" /\ [at |-> "callback"] \in Receiving
      BY ReceivingMade, SendingMade DEF Idle
    <3>. QED BY <2>1, <3>1 DEF SendJoined
  <2>2. CASE OnDisconnect
    <3>1. [at |-> "join beat"] \in Receiving /\ listHeld = TRUE
      BY <2>2, ReceivingMade DEF OnDisconnect, Control, Typed, Meeting
    <3>. QED BY <2>2, <3>1 DEF OnDisconnect, Control, Typed, Meeting
  <2>3. CASE BeatJoined
    <3>1. [at |-> "end", called |-> TRUE] \in Receiving /\ [at |-> "end", called |-> TRUE].at = "end"
      BY ReceivingMade
    <3>2. recv' \in Receiving /\ recv'.at = "end" /\ listHeld' = FALSE /\ send' = send
      BY <2>3, <3>1 DEF BeatJoined
    <3>3. send \in Sending /\ send.at = "none"
      BY <2>3 DEF BeatJoined, Control, Typed, Meeting
    <3>. QED BY <3>2, <3>3
  <2>. QED BY <2>1, <2>2, <2>3
<1>3. Typed'
  BY <1>0, <1>2 DEF Control, Typed
<1>4. Meeting'
  BY <1>0, <1>2 DEF Control, Meeting
<1>. QED BY <1>1, <1>3, <1>4 DEF Control

LEMMA SendControl ==
  ASSUME Control, Tasks, UNCHANGED setup, SendStep
  PROVE  Control'
<1>1. UNCHANGED <<app, mgrStart, listHeld, recv>> /\ send.at # "none"
  BY DEF SendStep, PopTask, Pack, SendPacket, OnSend, SendFailed, start
<1>2. Flags'
  BY DEF Control, Flags, SendStep, PopTask, Pack, SendPacket, OnSend, SendFailed, DisconnectProc, start,
         beating
<1>3. [at |-> "loop"] \in Sending /\ [at |-> "end"] \in Sending
  BY SendingMade
<1>4. send' \in Sending
  <2>1. CASE PopTask
    <3>1. sendList # <<>> => Head(sendList) \in Nat
      BY DEF Tasks
    <3>2. sendList # <<>> => [at |-> "pack", task |-> Head(sendList)] \in Sending
      BY <3>1, SendingMade
    <3>. QED BY <1>3, <2>1, <3>2 DEF Control, Typed, PopTask
  <2>2. CASE Pack \/ SendPacket
    <3>1. ASSUME NEW a \in {"send", "sent", "failed"} PROVE [send EXCEPT !.at = a] \in Sending
      <4>1. send.task \in Nat /\ [send EXCEPT !.at = a] = [at |-> a, task |-> send.task]
        BY <2>2, SendingIs DEF Control, Typed, Pack, SendPacket
      <4>. QED BY <4>1, SendingMade
    <3>. QED BY <1>3, <2>2, <3>1 DEF Pack, SendPacket
  <2>3. CASE OnSend \/ SendFailed
    BY <1>3, <2>3 DEF OnSend, SendFailed
  <2>. QED BY <2>1, <2>2, <2>3 DEF SendStep
<1>. QED BY <1>1, <1>2, <1>4, SendMoves

-----------------------------------------------------------------------------
(* Who holds which task                                                    *)

LEMMA Listed ==
  ASSUME NEW s \in Seq(Nat), NEW i \in Nat
  PROVE  LET t == Append(s, i) IN
         /\ t \in Seq(Nat) /\ ToSet(t) = ToSet(s) \cup {i}
         /\ IsInjective(s) /\ i \notin ToSet(s) => IsInjective(t)
<1>. DEFINE t == Append(s, i)
<1>1. /\ t \in Seq(Nat) /\ Len(s) \in Nat /\ DOMAIN s = 1..Len(s) /\ DOMAIN t = 1..(Len(s) + 1)
      /\ t[Len(s) + 1] = i /\ \A j \in DOMAIN s : t[j] = s[j]
  OBVIOUS
<1>2. DOMAIN t = DOMAIN s \cup {Len(s) + 1}
  BY <1>1
<1>. HIDE DEF t
<1>3. ToSet(t) = ToSet(s) \cup {i}
  BY <1>1, <1>2 DEF ToSet
<1>4. ASSUME IsInjective(s), i \notin ToSet(s) PROVE IsInjective(t)
  BY <1>1, <1>2, <1>4 DEF IsInjective, ToSet
<1>. QED BY <1>1, <1>3, <1>4 DEF t

LEMMA Unlisted ==
  ASSUME NEW s \in Seq(Nat), s # <<>>
  PROVE  /\ Tail(s) \in Seq(Nat) /\ Head(s) \in Nat /\ ToSet(s) = ToSet(Tail(s)) \cup {Head(s)}
         /\ IsInjective(s) => IsInjective(Tail(s)) /\ Head(s) \notin ToSet(Tail(s))
<1>. DEFINE t == Tail(s)
<1>1. /\ t \in Seq(Nat) /\ Len(s) \in Nat /\ Len(s) > 0 /\ DOMAIN s = 1..Len(s) /\ DOMAIN t = 1..(Len(s) - 1)
      /\ Head(s) = s[1] /\ s[1] \in Nat /\ \A j \in DOMAIN t : t[j] = s[j + 1]
  OBVIOUS
<1>. HIDE DEF t
<1>2. \A j \in DOMAIN t : j + 1 \in DOMAIN s /\ j + 1 # 1
  BY <1>1
<1>3. \A j \in DOMAIN s : j # 1 => \E k \in DOMAIN t : j = k + 1
  <2>1. ASSUME NEW j \in DOMAIN s, j # 1 PROVE j - 1 \in DOMAIN t /\ j = (j - 1) + 1
    <3>1. j \in Nat /\ j >= 1 /\ j <= Len(s)
      BY <1>1
    <3>2. j - 1 \in 1..(Len(s) - 1) /\ j = (j - 1) + 1
      BY <1>1, <2>1, <3>1
    <3>. QED BY <1>1, <3>2
  <2>. QED BY <2>1
<1>4. 1 \in DOMAIN s
  BY <1>1
<1>5. ToSet(s) = ToSet(t) \cup {Head(s)}
  <2>1. ASSUME NEW j \in DOMAIN t PROVE t[j] \in ToSet(s)
    BY <1>1, <1>2 DEF ToSet
  <2>2. ASSUME NEW j \in DOMAIN s, j # 1 PROVE s[j] \in ToSet(t)
    BY <1>1, <1>3, <2>2 DEF ToSet
  <2>. QED BY <1>1, <1>4, <2>1, <2>2 DEF ToSet
<1>6. ASSUME IsInjective(s) PROVE IsInjective(t) /\ Head(s) \notin ToSet(t)
  <2>1. ASSUME NEW j \in DOMAIN t, NEW k \in DOMAIN t, t[j] = t[k] PROVE j = k
    <3>1. j + 1 = k + 1
      BY <1>1, <1>2, <1>6, <2>1 DEF IsInjective
    <3>. QED BY <1>1, <3>1
  <2>2. ASSUME NEW j \in DOMAIN t PROVE t[j] # Head(s)
    BY <1>1, <1>2, <1>4, <1>6 DEF IsInjective
  <2>. QED BY <2>1, <2>2 DEF IsInjective, ToSet
<1>. QED BY <1>1, <1>5, <1>6 DEF t

LEMMA Made ==
  ASSUME kinds \in Seq(Kinds), NEW k \in Kinds, kinds' = Append(kinds, k)
  PROVE  LET n == Len(kinds) + 1 IN
         /\ kinds' \in Seq(Kinds) /\ DOMAIN kinds \subseteq Nat
         /\ n \in Nat /\ n # 0 /\ n \notin DOMAIN kinds /\ DOMAIN kinds' = DOMAIN kinds \cup {n}
         /\ kinds'[n] = k /\ \A i \in DOMAIN kinds : kinds'[i] = kinds[i] /\ i <= n
<1>1. Len(kinds) \in Nat /\ DOMAIN kinds = 1..Len(kinds)
  OBVIOUS
<1>2. /\ kinds' \in Seq(Kinds) /\ DOMAIN kinds' = 1..(Len(kinds) + 1) /\ kinds'[Len(kinds) + 1] = k
      /\ \A i \in DOMAIN kinds : kinds'[i] = kinds[i]
  OBVIOUS
<1>3. 1..(Len(kinds) + 1) = 1..Len(kinds) \cup {Len(kinds) + 1}
  BY <1>1
<1>. QED BY <1>1, <1>2, <1>3

LEMMA LastBeatStays ==
  ASSUME kinds \in Seq(Kinds), NEW k \in Kinds, k # "beat", kinds' = Append(kinds, k),
         NEW i \in DOMAIN kinds, IsLastBeat(i)
  PROVE  IsLastBeat(i)'
BY Made DEF IsLastBeat

\* Nothing happens to a task but that the server may answer it.
LEMMA TasksStay ==
  ASSUME Tasks, UNCHANGED <<user, kinds, sendList, taskMap, freed, lost>>,
         inflight' \subseteq inflight \cup InHands, InHands' = InHands,
         beat' = "push" => beat = "push", recv'.at = "join beat" <=> recv.at = "join beat"
  PROVE  Tasks'
<1>1. /\ user' \in Nat /\ kinds' \in Seq(Kinds) /\ sendList' \in Seq(Nat)
      /\ ToSet(sendList)' \cup taskMap' \cup inflight' \cup freed' \cup lost' \cup InHands' \subseteq DOMAIN kinds'
  BY DEF Tasks
<1>2. HeldOnce' /\ Swept' /\ (InHands \cap lost = {})'
  BY DEF Tasks, HeldOnce, Swept
<1>3. NotYet'
  BY DEF Tasks, NotYet, Unheld, IsLastBeat
<1>. QED BY <1>1, <1>2, <1>3 DEF Tasks

\* The receive thread deletes tasks of the map and queues a new one, or makes one that is not queued.
LEMMA TasksAnswered ==
  ASSUME Tasks, UNCHANGED <<user, lost, inflight>>, InHands' = InHands,
         taskMap' \subseteq taskMap, freed' \subseteq freed \cup (taskMap \ taskMap'),
         recv.at # "join beat", recv'.at # "join beat", beat' = "push" => beat = "push",
         \/ UNCHANGED <<kinds, sendList>>
         \/ \E k \in Kinds \ {"beat"} :
              /\ kinds' = Append(kinds, k)
              /\ sendList' = sendList \/ sendList' = Append(sendList, Len(kinds) + 1)
  PROVE  Tasks'
<1>. DEFINE n == Len(kinds) + 1
            Grown ==
              /\ kinds' \in Seq(Kinds) /\ DOMAIN kinds \subseteq DOMAIN kinds'
              /\ \A i \in DOMAIN kinds : kinds'[i] = kinds[i] /\ (IsLastBeat(i) => IsLastBeat(i)')
              /\ sendList' \in Seq(Nat) /\ ToSet(sendList) \subseteq ToSet(sendList') /\ IsInjective(sendList')
              /\ \A i \in ToSet(sendList') \ ToSet(sendList) : i \in DOMAIN kinds' \ DOMAIN kinds
<1>0. kinds \in Seq(Kinds) /\ sendList \in Seq(Nat) /\ user \in Nat
  BY DEF Tasks
<1>1. Grown
  <2>1. CASE UNCHANGED <<kinds, sendList>>
    BY <1>0, <2>1 DEF IsLastBeat, Tasks, HeldOnce
  <2>2. ASSUME NEW k \in Kinds \ {"beat"}, kinds' = Append(kinds, k),
               sendList' = sendList \/ sendList' = Append(sendList, n)
        PROVE  Grown
    <3>1. /\ kinds' \in Seq(Kinds) /\ n \in Nat /\ n \notin DOMAIN kinds /\ DOMAIN kinds' = DOMAIN kinds \cup {n}
          /\ \A i \in DOMAIN kinds : kinds'[i] = kinds[i]
      BY <1>0, <2>2, Made
    <3>2. \A i \in DOMAIN kinds : IsLastBeat(i) => IsLastBeat(i)'
      BY <1>0, <2>2, LastBeatStays
    <3>3. IsInjective(sendList) /\ ToSet(sendList) \subseteq DOMAIN kinds
      BY DEF Tasks, HeldOnce
    <3>. HIDE DEF n
    <3>4. CASE sendList' = Append(sendList, n)
      <4>1. /\ sendList' \in Seq(Nat) /\ ToSet(sendList') = ToSet(sendList) \cup {n} /\ IsInjective(sendList')
        BY <1>0, <3>1, <3>3, <3>4, Listed
      <4>. QED BY <3>1, <3>2, <4>1
    <3>5. CASE sendList' = sendList
      BY <1>0, <3>1, <3>2, <3>3, <3>5
    <3>. QED BY <2>2, <3>4, <3>5 DEF n
  <2>. QED BY <2>1, <2>2
<1>2. /\ ToSet(sendList) \cup taskMap \cup inflight \cup freed \cup lost \cup InHands \subseteq DOMAIN kinds
      /\ HeldOnce /\ NotYet /\ InHands \cap lost = {}
  BY DEF Tasks
<1>3. /\ user' \in Nat /\ kinds' \in Seq(Kinds) /\ sendList' \in Seq(Nat)
      /\ ToSet(sendList') \cup taskMap' \cup inflight' \cup freed' \cup lost' \cup InHands' \subseteq DOMAIN kinds'
  BY <1>0, <1>1, <1>2
<1>4. HeldOnce' /\ (InHands \cap lost = {})'
  BY <1>1, <1>2 DEF HeldOnce
<1>5. Swept'
  BY DEF Swept
<1>6. NotYet'
  <2>1. ASSUME NEW i \in DOMAIN kinds, Unheld(i) PROVE Unheld(i)'
    BY <1>1, <2>1 DEF Unheld
  <2>. QED BY <1>1, <1>2, <2>1 DEF NotYet
<1>. QED BY <1>3, <1>4, <1>5, <1>6 DEF Tasks

LEMMA AppTasks ==
  ASSUME Control, Tasks, Login \/ Logout \/ AppStep \/ ServerCloses
  PROVE  Tasks'
<1>1. UNCHANGED <<user, kinds, sendList, taskMap, freed, lost, inflight, send, beat>>
  BY DEF Login, Logout, AppStep, Stop, Joined, Create, Started, ServerCloses, lists, beating
<1>2. InHands' = InHands
  BY <1>1 DEF InHands
<1>3. recv'.at = "join beat" <=> recv.at = "join beat"
  <2>1. CASE Joined
    <3>1. recv'.at = "none" /\ recv.at # "join beat"
      BY <2>1 DEF Joined, Idle
    <3>. QED BY <3>1
  <2>2. CASE Create
    <3>1. recv'.at = "loop" /\ recv.at = "none"
      BY <2>2 DEF Create, Control, Meeting
    <3>. QED BY <3>1
  <2>. QED BY <2>1, <2>2 DEF Login, Logout, AppStep, Stop, Started, ServerCloses
<1>. QED BY <1>1, <1>2, <1>3, TasksStay

LEMMA ConnectTasks ==
  ASSUME Control, Tasks, NextAddress \/ Connecting \/ Connected \/ OnConnect \/ StartSending
  PROVE  Tasks'
<1>1. /\ UNCHANGED <<user, taskMap, freed, lost>> /\ (beat' = "push" => beat = "push")
      /\ recv.at \in {"loop", "new", "connect", "connected", "check"} /\ inflight' \subseteq inflight
  BY DEF NextAddress, Connecting, Connected, OnConnect, StartSending, Queued, lists, beating
<1>2. send.at = "none"
  BY <1>1 DEF Control, Meeting
<1>3. InHands' = InHands
  <2>1. send' = send \/ send' = [at |-> "loop"]
    BY DEF NextAddress, Connecting, Connected, OnConnect, StartSending
  <2>2. send'.at \in {"none", "loop"}
    BY <1>2, <2>1
  <2>. QED BY <1>2, <2>2 DEF InHands
<1>4. recv'.at # "join beat"
  <2>1. CASE Connecting
    <3>1. recv'.at = "connect"
      BY <2>1, ReceivingIs DEF Connecting, Control, Typed
    <3>. QED BY <3>1
  <2>2. CASE NextAddress
    <3>1. recv'.at \in {"new", "end"}
      BY <2>2 DEF NextAddress
    <3>. QED BY <3>1
  <2>3. CASE Connected
    <3>1. recv'.at \in {"connected", "loop"}
      BY <2>3 DEF Connected
    <3>. QED BY <3>1
  <2>4. CASE OnConnect
    BY <2>4 DEF OnConnect
  <2>5. CASE StartSending
    <3>1. recv'.at \in {"recv", "end"}
      BY <2>5 DEF StartSending
    <3>. QED BY <3>1
  <2>. QED BY <2>1, <2>2, <2>3, <2>4, <2>5
<1>5. CASE OnConnect
  <2>1. UNCHANGED inflight /\ kinds' = Append(kinds, "ver")
        /\ (sendList' = sendList \/ sendList' = Append(sendList, Len(kinds) + 1))
    BY <1>5 DEF OnConnect, Queued
  <2>2. "ver" \in Kinds \ {"beat"}
    BY DEF Kinds
  <2>. QED BY <1>1, <1>3, <1>4, <2>1, <2>2, TasksAnswered
<1>6. CASE NextAddress \/ Connecting \/ Connected \/ StartSending
  <2>1. UNCHANGED <<kinds, sendList>>
    BY <1>6 DEF NextAddress, Connecting, Connected, StartSending, lists
  <2>. QED BY <1>1, <1>3, <1>4, <2>1, TasksStay
<1>. QED BY <1>5, <1>6

LEMMA RecvTasks ==
  ASSUME Control, Tasks, Answer \/ OnRecv \/ RecvEnds \/ RecvDisconnect \/ SendJoined
  PROVE  Tasks'
<1>0. /\ UNCHANGED <<user, lost, beat>> /\ recv.at \in {"recv", "find", "disconnect", "join send"}
      /\ inflight' \subseteq inflight
  BY DEF Answer, OnRecv, RecvEnds, RecvDisconnect, SendJoined, lists, beating
<1>1. /\ UNCHANGED <<user, lost, beat>> /\ recv.at # "join beat" /\ recv'.at # "join beat"
      /\ inflight' \subseteq inflight
  <2>1. CASE Answer
    BY <1>0, <2>1 DEF Answer
  <2>2. CASE OnRecv
    BY <1>0, <2>2 DEF OnRecv
  <2>3. CASE RecvEnds
    BY <1>0, <2>3 DEF RecvEnds
  <2>4. CASE RecvDisconnect
    BY <1>0, <2>4 DEF RecvDisconnect
  <2>5. CASE SendJoined
    BY <1>0, <2>5 DEF SendJoined
  <2>. QED BY <2>1, <2>2, <2>3, <2>4, <2>5
<1>2. InHands' = InHands
  <2>1. CASE SendJoined
    BY <2>1 DEF SendJoined, InHands, Idle
  <2>. QED BY <2>1 DEF Answer, OnRecv, RecvEnds, RecvDisconnect, InHands
<1>3. CASE OnRecv
  <2>1. CASE UNCHANGED <<taskMap, freed, kinds, sendList>>
    BY <1>1, <1>2, <1>3, <2>1, TasksStay DEF OnRecv
  <2>2. CASE recv.task \in taskMap
    <3>. DEFINE i == recv.task
                k == Follow[kinds[i]]
    <3>1. taskMap' = taskMap \ {i} /\ freed' = freed \cup {i} /\ inflight' = inflight
      BY <1>3, <2>2 DEF OnRecv
    <3>2. \/ UNCHANGED <<kinds, sendList>>
          \/ /\ kinds[i] \in {"login", "ver"} /\ kinds' = Append(kinds, k)
             /\ sendList' = sendList \/ sendList' = Append(sendList, Len(kinds) + 1)
      BY <1>3, <2>2 DEF OnRecv
    <3>3. kinds[i] \in {"login", "ver"} => k \in Kinds \ {"beat"}
      BY DEF Follow, Kinds
    <3>. HIDE DEF k
    <3>. QED BY <1>1, <1>2, <2>2, <3>1, <3>2, <3>3, TasksAnswered
  <2>. QED BY <1>3, <2>1, <2>2 DEF OnRecv
<1>4. CASE Answer \/ RecvEnds \/ RecvDisconnect \/ SendJoined
  <2>1. UNCHANGED <<kinds, sendList, taskMap, freed>>
    BY <1>4 DEF Answer, RecvEnds, RecvDisconnect, SendJoined, lists
  <2>. QED BY <1>1, <1>2, <2>1, TasksStay
<1>. QED BY <1>3, <1>4

LEMMA OnDisconnectTasks ==
  ASSUME Control, Tasks, OnDisconnect
  PROVE  Tasks'
<1>1. /\ UNCHANGED <<user, kinds, sendList, lost, inflight, send, beat>>
      /\ freed' = freed \cup taskMap \cup ToSet(sendList) /\ taskMap' = {} /\ recv'.at = "join beat"
  BY DEF OnDisconnect
<1>2. InHands = {} /\ InHands' = {}
  <2>1. send.at = "none"
    BY DEF Control, Meeting, OnDisconnect
  <2>. QED BY <1>1, <2>1 DEF InHands
<1>3. /\ user' \in Nat /\ kinds' \in Seq(Kinds) /\ sendList' \in Seq(Nat)
      /\ ToSet(sendList') \cup taskMap' \cup inflight' \cup freed' \cup lost' \cup InHands' \subseteq DOMAIN kinds'
  BY <1>1, <1>2 DEF Tasks
<1>4. HeldOnce' /\ Swept' /\ (InHands \cap lost = {})'
  BY <1>1, <1>2 DEF Tasks, HeldOnce, Swept
<1>5. NotYet'
  <2>1. ASSUME NEW i, Unheld(i) PROVE Unheld(i)'
    BY <1>1, <1>2, <2>1 DEF Unheld
  <2>2. \A i : IsLastBeat(i) <=> IsLastBeat(i)'
    BY <1>1 DEF IsLastBeat
  <2>. QED BY <1>1, <2>1, <2>2 DEF NotYet, Tasks
<1>. QED BY <1>3, <1>4, <1>5 DEF Tasks

LEMMA BeatJoinedTasks ==
  ASSUME Control, Tasks, BeatJoined
  PROVE  Tasks'
<1>1. /\ UNCHANGED <<user, kinds, taskMap, freed, lost, inflight, send>>
      /\ sendList' = <<>> /\ beat' = "none" /\ recv' = [at |-> "end", called |-> TRUE]
  BY DEF BeatJoined
<1>2. InHands' = InHands
  BY <1>1 DEF InHands
<1>3. ToSet(sendList') = {} /\ IsInjective(sendList') /\ sendList' \in Seq(Nat)
  BY <1>1 DEF ToSet, IsInjective
<1>4. /\ user' \in Nat /\ kinds' \in Seq(Kinds)
      /\ ToSet(sendList') \cup taskMap' \cup inflight' \cup freed' \cup lost' \cup InHands' \subseteq DOMAIN kinds'
  BY <1>1, <1>2, <1>3 DEF Tasks
<1>5. recv'.at = "end"
  BY <1>1
<1>6. HeldOnce' /\ Swept' /\ (InHands \cap lost = {})'
  <2>1. UNCHANGED <<taskMap, freed, lost>>
    BY <1>1
  <2>. QED BY <1>2, <1>3, <1>5, <2>1 DEF Tasks, HeldOnce, Swept
<1>7. NotYet'
  <2>1. UNCHANGED <<user, kinds, taskMap, freed, lost>> /\ beat' # "push"
    BY <1>1
  <2>. QED BY <1>2, <1>3, <2>1 DEF Tasks, NotYet, Unheld
<1>. QED BY <1>3, <1>4, <1>6, <1>7 DEF Tasks

-----------------------------------------------------------------------------
(* The user and the heartbeat thread                                       *)

LEMMA RequestTasks ==
  ASSUME Control, Tasks, Request
  PROVE  Tasks'
<1>. DEFINE n == Len(kinds) + 1
<1>0. kinds \in Seq(Kinds) /\ "app" \in Kinds /\ kinds' = Append(kinds, "app")
  BY DEF Tasks, Request, Kinds
<1>1. /\ kinds' \in Seq(Kinds) /\ DOMAIN kinds \subseteq Nat
      /\ n \in Nat /\ n # 0 /\ n \notin DOMAIN kinds /\ DOMAIN kinds' = DOMAIN kinds \cup {n}
      /\ kinds'[n] = "app" /\ \A i \in DOMAIN kinds : kinds'[i] = kinds[i]
  BY <1>0, Made
<1>2. \A i \in DOMAIN kinds : IsLastBeat(i) => IsLastBeat(i)'
  BY <1>0, LastBeatStays
<1>3. /\ UNCHANGED <<sendList, taskMap, inflight, freed, lost, send, recv, beat>>
      /\ user' \in {n, 0}
  BY DEF Request, lists, beating
<1>. HIDE DEF n
<1>4. InHands' = InHands
  BY <1>3 DEF InHands
<1>5. /\ user' \in Nat /\ kinds' \in Seq(Kinds) /\ sendList' \in Seq(Nat)
      /\ ToSet(sendList)' \cup taskMap' \cup inflight' \cup freed' \cup lost' \cup InHands' \subseteq DOMAIN kinds'
  BY <1>1, <1>3, <1>4 DEF Tasks
<1>6. HeldOnce' /\ Swept' /\ (InHands \cap lost = {})'
  BY <1>3, <1>4 DEF Tasks, HeldOnce, Swept
<1>7. NotYet'
  <2>1. \A i : Unheld(i)' <=> Unheld(i)
    BY <1>3, <1>4 DEF Unheld
  <2>2. Unheld(n)
    BY <1>1 DEF Tasks, Unheld
  <2>3. NotYet
    BY DEF Tasks
  <2>. QED BY <1>1, <1>2, <1>3, <2>1, <2>2, <2>3 DEF NotYet
<1>. QED BY <1>5, <1>6, <1>7 DEF Tasks

LEMMA BeatTasks ==
  ASSUME Control, Tasks, Beat
  PROVE  Tasks'
<1>0. /\ UNCHANGED <<sendList, taskMap, inflight, freed, lost, send, recv, user>> /\ beat = "sleep"
      /\ \/ kinds' = Append(kinds, "beat")
         \/ beat' = "end" /\ kinds' = kinds
  BY DEF Beat, lists
<1>1. InHands' = InHands
  BY <1>0 DEF InHands
<1>2. CASE kinds' = kinds /\ beat' = "end"
  BY <1>0, <1>1, <1>2, TasksStay
<1>3. CASE kinds' = Append(kinds, "beat")
  <2>1. kinds \in Seq(Kinds) /\ "beat" \in Kinds
    BY DEF Tasks, Kinds
  <2>2. PICK n : n = Len(kinds) + 1
    OBVIOUS
  <2>3. /\ kinds' \in Seq(Kinds) /\ DOMAIN kinds \subseteq Nat
        /\ n \in Nat /\ n \notin DOMAIN kinds /\ DOMAIN kinds' = DOMAIN kinds \cup {n}
        /\ kinds'[n] = "beat" /\ \A i \in DOMAIN kinds : kinds'[i] = kinds[i] /\ i <= n
    BY <1>3, <2>1, <2>2, Made
  <2>4. IsLastBeat(n)'
    BY <2>3 DEF IsLastBeat
  <2>5. \A i : Unheld(i)' <=> Unheld(i)
    BY <1>0, <1>1 DEF Unheld
  <2>6. Unheld(n)
    BY <2>3 DEF Tasks, Unheld
  <2>7. NotYet'
    BY <1>0, <2>3, <2>4, <2>5, <2>6 DEF Tasks, NotYet
  <2>8. HeldOnce' /\ Swept' /\ (InHands \cap lost = {})'
    BY <1>0, <1>1 DEF Tasks, HeldOnce, Swept
  <2>9. /\ user' \in Nat /\ kinds' \in Seq(Kinds) /\ sendList' \in Seq(Nat)
        /\ ToSet(sendList)' \cup taskMap' \cup inflight' \cup freed' \cup lost' \cup InHands' \subseteq DOMAIN kinds'
    BY <1>0, <1>1, <2>3 DEF Tasks
  <2>. QED BY <2>7, <2>8, <2>9 DEF Tasks
<1>. QED BY <1>0, <1>2, <1>3

\* A task that nobody held is queued.
LEMMA UnheldListed ==
  ASSUME Tasks, NEW i \in DOMAIN kinds, Unheld(i), sendList' = Append(sendList, i)
  PROVE  sendList' \in Seq(Nat) /\ ToSet(sendList') = ToSet(sendList) \cup {i} /\ IsInjective(sendList')
<1>1. kinds \in Seq(Kinds) /\ sendList \in Seq(Nat) /\ IsInjective(sendList)
  BY DEF Tasks, HeldOnce
<1>2. i \in Nat
  BY <1>1
<1>3. i \notin ToSet(sendList)
  BY DEF Unheld
<1>. QED BY <1>1, <1>2, <1>3, Listed

LEMMA Enlisted ==
  ASSUME Tasks, NEW i \in DOMAIN kinds, Unheld(i), recv.at # "join beat",
         sendList' \in Seq(Nat), ToSet(sendList') = ToSet(sendList) \cup {i}, IsInjective(sendList'),
         UNCHANGED <<kinds, taskMap, inflight, freed, lost, send, recv>>,
         user' \in {0, user} \ {i}, beat' = "push" => beat = "push" /\ ~ IsLastBeat(i)
  PROVE  Tasks'
<1>1. InHands' = InHands
  BY DEF InHands
<1>2. kinds' \in Seq(Kinds) /\ user' \in Nat
  <2>1. kinds' \in Seq(Kinds)
    <3>1. kinds \in Seq(Kinds)
      BY DEF Tasks
    <3>. QED BY <3>1
  <2>2. user' = 0 \/ user' = user
    OBVIOUS
  <2>3. user \in Nat
    BY DEF Tasks
  <2>4. 0 \in Nat
    OBVIOUS
  <2>5. user' \in Nat
    BY <2>2, <2>3, <2>4, Zenon
  <2>. QED BY <2>1, <2>5, Zenon
<1>3. sendList' \in Seq(Nat) /\ ToSet(sendList') = ToSet(sendList) \cup {i} /\ IsInjective(sendList')
  OBVIOUS
<1>4. /\ user' \in Nat /\ kinds' \in Seq(Kinds) /\ sendList' \in Seq(Nat)
      /\ ToSet(sendList') \cup taskMap' \cup inflight' \cup freed' \cup lost' \cup InHands' \subseteq DOMAIN kinds'
  <2>1. /\ user \in Nat
        /\ ToSet(sendList) \cup taskMap \cup inflight \cup freed \cup lost \cup InHands \subseteq DOMAIN kinds
    BY DEF Tasks
  <2>. QED BY <1>1, <1>2, <1>3, <2>1
<1>5. HeldOnce' /\ Swept' /\ (InHands \cap lost = {})'
  <2>1. HeldOnce /\ InHands \cap lost = {}
    BY DEF Tasks
  <2>2. i \notin taskMap \cup freed \cup lost \cup InHands
    BY DEF Unheld
  <2>3. HeldOnce'
    BY <1>1, <1>3, <2>1, <2>2 DEF HeldOnce
  <2>4. Swept'
    BY DEF Swept
  <2>. QED BY <1>1, <2>1, <2>3, <2>4
<1>6. NotYet'
  <2>1. ASSUME NEW j, Unheld(j), j # i PROVE Unheld(j)'
    BY <1>1, <1>3, <2>1 DEF Unheld
  <2>2. \A j : IsLastBeat(j) <=> IsLastBeat(j)'
    BY DEF IsLastBeat
  <2>. QED BY <2>1, <2>2 DEF NotYet, Tasks
<1>. QED BY <1>4, <1>5, <1>6 DEF Tasks

LEMMA SendTaskDataTasks ==
  ASSUME Control, Tasks, SendTaskData
  PROVE  Tasks'
<1>1. user \in DOMAIN kinds /\ kinds[user] = "app" /\ Unheld(user) /\ user # 0
  BY DEF Tasks, NotYet, SendTaskData
<1>2. ~ IsLastBeat(user)
  BY <1>1 DEF IsLastBeat
<1>3. recv.at # "join beat"
  BY DEF SendTaskData, Control, Meeting
<1>4. /\ sendList' = Append(sendList, user) /\ user' = 0
      /\ UNCHANGED <<kinds, taskMap, inflight, freed, lost, send, recv, beat>>
  BY DEF SendTaskData, beating
<1>. QED BY <1>1, <1>2, <1>3, <1>4, UnheldListed, Enlisted

LEMMA PushBeatTasks ==
  ASSUME Control, Tasks, PushBeat
  PROVE  Tasks'
<1>. DEFINE i == CHOOSE i \in DOMAIN kinds : IsLastBeat(i)
<1>1. i \in DOMAIN kinds /\ IsLastBeat(i) /\ Unheld(i)
  <2>1. PICK j \in DOMAIN kinds : IsLastBeat(j) /\ Unheld(j)
    BY DEF Tasks, NotYet, PushBeat
  <2>2. i \in DOMAIN kinds /\ IsLastBeat(i)
    BY <2>1
  <2>. HIDE DEF i
  <2>3. i \in Nat /\ j \in Nat /\ i <= j /\ j <= i
    BY <2>1, <2>2 DEF Tasks, IsLastBeat
  <2>4. i = j
    BY <2>3
  <2>. QED BY <2>1, <2>4
<1>2. /\ sendList' = Append(sendList, i) /\ beat' = "sleep"
      /\ UNCHANGED <<user, kinds, taskMap, inflight, freed, lost, send, recv>>
  BY DEF PushBeat
<1>. HIDE DEF i
<1>3. user # i
  <2>1. i # 0 /\ kinds[i] = "beat"
    BY <1>1 DEF Tasks, IsLastBeat
  <2>. QED BY <2>1 DEF Tasks, NotYet
<1>4. recv.at # "join beat"
  BY DEF PushBeat, Control, Meeting
<1>. QED BY <1>1, <1>2, <1>3, <1>4, UnheldListed, Enlisted

-----------------------------------------------------------------------------
(* The send thread                                                         *)

\* A task goes from one holder to another.
LEMMA HandedOn ==
  ASSUME Tasks, UNCHANGED <<user, kinds, recv>>, beat' = beat, recv.at # "join beat",
         inflight' \subseteq inflight \cup InHands,
         sendList' \in Seq(Nat), IsInjective(sendList'),
         ToSet(sendList') \cup taskMap' \cup freed' \cup lost' \cup InHands'
           = ToSet(sendList) \cup taskMap \cup freed \cup lost \cup InHands,
         HeldOnce', (InHands \cap lost = {})'
  PROVE  Tasks'
<1>1. user' \in Nat /\ kinds' \in Seq(Kinds)
  <2>1. user \in Nat /\ kinds \in Seq(Kinds)
    BY DEF Tasks
  <2>. QED BY <2>1
<1>2. ToSet(sendList') \cup taskMap' \cup inflight' \cup freed' \cup lost' \cup InHands' \subseteq DOMAIN kinds'
  <2>1. ToSet(sendList) \cup taskMap \cup inflight \cup freed \cup lost \cup InHands \subseteq DOMAIN kinds
    BY DEF Tasks
  <2>. QED BY <2>1
<1>3. Swept'
  BY DEF Swept
<1>4. NotYet'
  <2>1. \A i : Unheld(i)' <=> Unheld(i)
    BY DEF Unheld
  <2>2. \A i : IsLastBeat(i)' <=> IsLastBeat(i)
    BY DEF IsLastBeat
  <2>. QED BY <2>1, <2>2 DEF NotYet, Tasks
<1>. QED BY <1>1, <1>2, <1>3, <1>4 DEF Tasks

LEMMA PopTaskTasks ==
  ASSUME Control, Tasks, PopTask
  PROVE  Tasks'
<1>1. /\ UNCHANGED <<user, kinds, recv, taskMap, inflight, freed, lost, beat>>
      /\ send.at = "loop" /\ InHands = {} /\ recv.at # "join beat"
  BY DEF PopTask, beating, InHands, Control, Meeting
<1>2. CASE sendList # <<>> /\ send' = [at |-> "pack", task |-> Head(sendList)] /\ sendList' = Tail(sendList)
  <2>1. sendList \in Seq(Nat) /\ IsInjective(sendList)
    BY DEF Tasks, HeldOnce
  <2>2. /\ Tail(sendList) \in Seq(Nat) /\ ToSet(sendList) = ToSet(Tail(sendList)) \cup {Head(sendList)}
        /\ IsInjective(Tail(sendList)) /\ Head(sendList) \notin ToSet(Tail(sendList))
    BY <1>2, <2>1, Unlisted
  <2>3. PICK i : i = Head(sendList)
    OBVIOUS
  <2>4. InHands' = {i}
    BY <1>2, <2>3 DEF InHands
  <2>5. /\ sendList' \in Seq(Nat) /\ ToSet(sendList) = ToSet(sendList') \cup {i}
        /\ IsInjective(sendList') /\ i \notin ToSet(sendList')
    BY <1>2, <2>2, <2>3
  <2>6. HeldOnce /\ InHands \cap lost = {}
    BY DEF Tasks
  <2>7. HeldOnce' /\ (InHands \cap lost = {})'
    BY <1>1, <2>4, <2>5, <2>6 DEF HeldOnce
  <2>. QED BY <1>1, <2>4, <2>5, <2>7, HandedOn
<1>3. CASE sendList' = sendList /\ send'.at \in {"loop", "end"}
  <2>1. InHands' = {}
    BY <1>3 DEF InHands
  <2>. QED BY <1>1, <1>3, <2>1, TasksStay
<1>4. CASE send' = [at |-> "end"] /\ sendList' = sendList
  <2>1. send'.at = "end"
    BY <1>4
  <2>. QED BY <1>3, <1>4, <2>1
<1>5. CASE send' = send /\ sendList' = sendList
  BY <1>1, <1>3, <1>5
<1>. QED BY <1>2, <1>4, <1>5 DEF PopTask

\* The one task in the send thread's hands is lost, deleted or put into the map.
LEMMA LetGo ==
  ASSUME Control, Tasks, UNCHANGED <<user, kinds, recv, sendList, beat, inflight>>,
         NEW i, InHands = {i}, InHands' = {}, recv.at # "join beat",
         \/ lost' = lost \cup {i} /\ UNCHANGED <<taskMap, freed>>
         \/ freed' = freed \cup {i} /\ UNCHANGED <<taskMap, lost>>
         \/ taskMap' = taskMap \cup {i} /\ UNCHANGED <<freed, lost>>
  PROVE  Tasks'
<1>1. sendList \in Seq(Nat) /\ HeldOnce /\ InHands \cap lost = {} /\ IsInjective(sendList)
  BY DEF Tasks, HeldOnce
<1>2. sendList' \in Seq(Nat) /\ IsInjective(sendList') /\ ToSet(sendList') = ToSet(sendList)
  BY <1>1
<1>3. CASE lost' = lost \cup {i} /\ UNCHANGED <<taskMap, freed>>
  <2>1. HeldOnce'
    BY <1>1, <1>2, <1>3 DEF HeldOnce
  <2>. QED BY <1>1, <1>2, <1>3, <2>1, HandedOn
<1>4. CASE freed' = freed \cup {i} /\ UNCHANGED <<taskMap, lost>>
  <2>1. HeldOnce'
    BY <1>1, <1>2, <1>4 DEF HeldOnce
  <2>. QED BY <1>1, <1>2, <1>4, <2>1, HandedOn
<1>5. CASE taskMap' = taskMap \cup {i} /\ UNCHANGED <<freed, lost>>
  <2>1. HeldOnce'
    BY <1>1, <1>2, <1>5 DEF HeldOnce
  <2>. QED BY <1>1, <1>2, <1>5, <2>1, HandedOn
<1>. QED BY <1>3, <1>4, <1>5

LEMMA SendTasks ==
  ASSUME Control, Tasks, SendStep
  PROVE  Tasks'
<1>1. CASE PopTask
  BY <1>1, PopTaskTasks
<1>2. CASE Pack \/ SendPacket \/ OnSend \/ SendFailed
  <2>1. /\ send.at \in {"pack", "send", "sent", "failed"}
        /\ UNCHANGED <<user, kinds, recv, sendList, beat>>
    BY <1>2 DEF Pack, SendPacket, OnSend, SendFailed, beating
  <2>2. InHands = {send.task} /\ recv.at # "join beat"
    BY <2>1 DEF InHands, Control, Meeting
  <2>3. ASSUME NEW a \in {"send", "sent", "failed"}, send' = [send EXCEPT !.at = a]
        PROVE  InHands' = InHands
    <3>1. send' = [at |-> a, task |-> send.task]
      BY <2>1, <2>3, SendingIs DEF Control, Typed
    <3>2. send'.at = a /\ send'.task = send.task
      BY <3>1
    <3>. QED BY <2>2, <3>2 DEF InHands
  <2>4. ASSUME send' = [at |-> "loop"]
        PROVE  InHands' = {}
    <3>1. send'.at = "loop"
      BY <2>4
    <3>. QED BY <3>1 DEF InHands
  <2>5. PICK i : i = send.task
    OBVIOUS
  <2>6. CASE Pack
    <3>1. CASE send' = [send EXCEPT !.at = "send"] /\ UNCHANGED lost
      <4>1. InHands' = InHands
        BY <2>3, <3>1
      <4>2. UNCHANGED <<taskMap, freed, lost, inflight>>
        BY <2>6, <3>1 DEF Pack
      <4>. QED BY <2>1, <4>1, <4>2, TasksStay
    <3>2. CASE send' = [at |-> "loop"] /\ lost' = lost \cup {i}
      <4>1. UNCHANGED <<taskMap, freed, inflight>>
        BY <2>6 DEF Pack
      <4>. QED BY <2>1, <2>2, <2>4, <2>5, <3>2, <4>1, LetGo
    <3>. QED BY <2>5, <2>6, <3>1, <3>2 DEF Pack
  <2>7. CASE SendPacket
    <3>1. UNCHANGED <<taskMap, freed, lost>> /\ inflight' \subseteq inflight \cup InHands
      BY <2>2, <2>7 DEF SendPacket
    <3>2. InHands' = InHands
      BY <2>3, <2>7 DEF SendPacket
    <3>. QED BY <2>1, <3>1, <3>2, TasksStay
  <2>8. CASE OnSend
    <3>1. /\ UNCHANGED <<inflight, lost>> /\ send' = [at |-> "loop"]
          /\ \/ freed' = freed \cup {i} /\ UNCHANGED taskMap
             \/ taskMap' = taskMap \cup {i} /\ UNCHANGED freed
      BY <2>5, <2>8 DEF OnSend
    <3>. QED BY <2>1, <2>2, <2>4, <2>5, <3>1, LetGo
  <2>9. CASE SendFailed
    <3>1. UNCHANGED <<inflight, taskMap, freed>> /\ send' = [at |-> "loop"] /\ lost' = lost \cup {i}
      BY <2>5, <2>9 DEF SendFailed
    <3>. QED BY <2>1, <2>2, <2>4, <2>5, <3>1, LetGo
  <2>. QED BY <1>2, <2>6, <2>7, <2>8, <2>9
<1>. QED BY <1>1, <1>2 DEF SendStep

-----------------------------------------------------------------------------
(* The invariant                                                           *)

LEMMA InitHolds ==
  ASSUME Init
  PROVE  TransportIInv
<1>1. Idle \in Receiving /\ Idle \in Sending /\ Idle.at = "none"
  BY ReceivingMade, SendingMade DEF Idle
<1>2. Flags
  BY DEF Init, Flags
<1>3. Typed /\ Meeting
  BY <1>1 DEF Init, Typed, Meeting
<1>4. InHands = {}
  BY <1>1 DEF Init, InHands
<1>5. /\ sendList \in Seq(Nat) /\ kinds \in Seq(Kinds) /\ ToSet(sendList) = {} /\ IsInjective(sendList)
      /\ user = 0 /\ taskMap = {} /\ inflight = {} /\ freed = {} /\ lost = {} /\ beat = "none" /\ recv.at = "none"
  BY <1>1 DEF Init, ToSet, IsInjective
<1>6. Tasks
  BY <1>4, <1>5 DEF Tasks, HeldOnce, Swept, NotYet
<1>. QED BY <1>2, <1>3, <1>6, Halves DEF Control

LEMMA StepKeeps ==
  ASSUME TransportIInv, [Next]_<<vars, setup>>
  PROVE  TransportIInv'
<1>. Control /\ Tasks
  BY Halves
<1>. SUFFICES Control' /\ Tasks'
  BY DEF TransportIInv, TransportInv, TypeOK, ThreadsMeet, Control, Flags, Typed, Meeting, Tasks
<1>0. CASE UNCHANGED <<vars, setup>>
  <2>1. UNCHANGED <<setup, app, sock, bStart, mgrStart, peer, loggedIn, beat, beatRun, listHeld, recv, send>>
    BY <1>0 DEF vars, start, beating
  <2>2. UNCHANGED <<user, kinds, sendList, taskMap, inflight, freed, lost>>
    BY <1>0 DEF vars, lists
  <2>3. Flags' /\ Typed' /\ Meeting'
    <3>1. Flags'
      BY <2>1 DEF Control, Flags
    <3>2. Typed'
      BY <2>1 DEF Control, Typed
    <3>3. Meeting'
      BY <2>1 DEF Control, Meeting
    <3>. QED BY <3>1, <3>2, <3>3
  <2>4. InHands' = InHands
    BY <2>1 DEF InHands
  <2>. QED BY <2>1, <2>2, <2>3, <2>4, TasksStay DEF Control
<1>1. CASE UNCHANGED setup /\ (Login \/ Logout \/ AppStep)
  BY <1>1, AppControl, AppTasks
<1>2. CASE UNCHANGED setup /\ ServerCloses
  BY <1>2, UserControl, AppTasks
<1>3. CASE UNCHANGED setup /\ (Request \/ SendTaskData)
  BY <1>3, UserControl, RequestTasks, SendTaskDataTasks
<1>4. CASE UNCHANGED setup /\ BeatStep
  BY <1>4, UserControl, BeatTasks, PushBeatTasks DEF BeatStep
<1>5. CASE UNCHANGED setup /\ (RecvStep \/ Answer \/ RecvEnds)
  <2>1. CASE NextAddress \/ Connecting \/ Connected \/ OnConnect \/ StartSending
    BY <1>5, <2>1, ConnectControl, ConnectTasks
  <2>2. CASE Answer \/ OnRecv \/ RecvEnds \/ RecvDisconnect
    BY <1>5, <2>2, RecvControl, RecvTasks
  <2>3. CASE SendJoined
    BY <1>5, <2>3, CallbackControl, RecvTasks
  <2>4. CASE OnDisconnect
    BY <1>5, <2>4, CallbackControl, OnDisconnectTasks
  <2>5. CASE BeatJoined
    BY <1>5, <2>5, CallbackControl, BeatJoinedTasks
  <2>. QED BY <1>5, <2>1, <2>2, <2>3, <2>4, <2>5 DEF RecvStep
<1>6. CASE UNCHANGED setup /\ SendStep
  BY <1>6, SendControl, SendTasks
<1>. QED BY <1>0, <1>1, <1>2, <1>3, <1>4, <1>5, <1>6 DEF Next, Step

(***************************************************************************)
(* Who holds which task, and where the threads are, in every state of the  *)
(* connection: the inductive invariant.                                    *)
(***************************************************************************)
THEOREM TasksAreHeld == Spec => []TransportIInv
<1>1. Init => TransportIInv
  BY InitHolds
<1>2. TransportIInv /\ [Next]_<<vars, setup>> => TransportIInv'
  BY StepKeeps
<1>. QED BY <1>1, <1>2, PTL DEF Spec

(***************************************************************************)
(* No task is used after it was deleted or deleted twice, by whichever of  *)
(* the send thread, OnRecv and DisconnectCallback it is: it has one owner. *)
(***************************************************************************)
THEOREM TransportHolds == Spec => []TransportInv
<1>1. TransportIInv => TransportInv
  BY DEF TransportIInv
<1>. QED BY <1>1, TasksAreHeld, PTL

(***************************************************************************)
(* When OnLogout is called, at the end of DisconnectCallback, every task   *)
(* that was queued before has been called back or was lost.                *)
(***************************************************************************)
THEOREM SweptAlways == Spec => []Swept
<1>1. TransportIInv => Swept
  BY DEF TransportIInv
<1>. QED BY <1>1, TasksAreHeld, PTL
==============================================================================
