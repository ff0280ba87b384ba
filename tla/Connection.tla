----------------------------- MODULE Connection -----------------------------
(***************************************************************************)
(* How ConnectionManager (client_network_kcp/network_connection_manager.   *)
(* cpp) gets and keeps a session: which transport it tries, the request    *)
(* for a conversation number (conv) and its answer, reconnects, closes and *)
(* changes of the server's address, over the sockets of tcp_connection.cpp *)
(* and udp_session.cpp.  The server is outside the repository: it expects  *)
(* the key and then whole segments on each TCP connection, and answers     *)
(* each request with a conv and a key of its own choice.                   *)
(*                                                                         *)
(* Bytes are units, each of which TCP may split: the key, a request for a  *)
(* conv, a segment of kcp.  Datagrams are lost and repeated.  Addresses    *)
(* resolve.                                                                *)
(*                                                                         *)
(* A definition marked Slip is a plausible mistake in the one after it,    *)
(* kept to show which of the properties would notice.                      *)
(***************************************************************************)
EXTENDS Naturals, FiniteSets, Sequences

CONSTANTS
  Addr,      \* addresses of servers
  Num,       \* the numbers a server chooses convs from
  Setups,    \* what is to be told apart, one of which each behaviour begins with
  MaxOut,    \* bound: units in m_un_send_queue
  MaxDown,   \* bound: units on their way to the client
  MaxFaults  \* bound: ends of connections and sessions, changes of address

(***************************************************************************)
(* addr, num: what the server is chosen from, and its convs.  uses: what   *)
(* the application allows.  reach: the transports that get through.        *)
(* closing: does the application close before it connects to another       *)
(* address, or over TCP again?  patient: does it wait for an answer that   *)
(* can still come?                                                         *)
(***************************************************************************)
ASSUME ConnectionAssumption ==
  /\ MaxOut \in Nat \ {0} /\ MaxDown \in Nat /\ MaxFaults \in Nat
  /\ Setups \subseteq [addr : SUBSET Addr, num : SUBSET Num,
                       uses : SUBSET [udp : BOOLEAN, tcp : BOOLEAN],
                       reach : SUBSET {"tcp", "udp"},
                       closing : BOOLEAN, patient : BOOLEAN]

VARIABLES
  setup,
  use,        \* m_use_udp_inlogic and m_use_tcp_inlogic
  target,     \* m_server_ip, m_server_port
  transport,  \* m_transport_use_protocol
  status,     \* m_connect_status
  kcpStatus,  \* m_kcp_status
  conv,       \* m_conv and m_kcp->conv, or None
  key,        \* m_kcp_key, named by the conv it came with, or None
  out,        \* m_un_send_queue
  cut,        \* is the front part of Head(out) sent already?
  half,       \* does m_un_receive_queue hold the front part of a segment?
  tcp,        \* m_logic_tcp_connection, its socket and both streams of bytes
  udp,        \* m_logic_udp_connection and the datagrams on their way to it
  faults

vars == <<use, target, transport, status, kcpStatus, conv, key, out, cut, half,
          tcp, udp, faults>>
manager == <<use, target, kcpStatus, conv, key>>

None == <<>>
Conv == Addr \X Num
Unit == {"key", "ask", "seg"}
Down == Conv \cup {<<"seg">>, <<"exit">>}

(***************************************************************************)
(* A socket, the server at its other end, err for enmConnectionStatus_     *)
(* Error, and what has gone over the connection: wire says what the server *)
(* has made of the bytes so far ("bad" if they are not the key followed by *)
(* segments), aligned whether the client's next bytes begin a segment if   *)
(* m_un_receive_queue is empty.                                            *)
(***************************************************************************)
Tcp(sock, peer) ==
  [sock |-> sock, peer |-> peer, err |-> FALSE, eof |-> FALSE,
   wire |-> "start", aligned |-> TRUE, down |-> <<>>]
Closed == Tcp("closed", None)
Udp(sock, peer) == [sock |-> sock, peer |-> peer, down |-> {}]

Tcps == [sock : {"closed", "fresh", "open"}, peer : Addr \cup {None}, err : BOOLEAN, eof : BOOLEAN,
         wire : {"start", "body", "bad"}, aligned : BOOLEAN, down : Seq(Down)]
Udps == [sock : BOOLEAN, peer : Addr \cup {None}, down : SUBSET Down]

TypeOK ==
  /\ setup \in Setups
  /\ use \in [udp : BOOLEAN, tcp : BOOLEAN] /\ target \in Addr
  /\ transport \in {"unknown", "tcp", "udp"}
  /\ status \in {"unconnect", "connecting", "success"}
  /\ kcpStatus \in {"unconnect", "connect", "exit"}
  /\ conv \in Conv \cup {None} /\ key \in Conv \cup {None}
  /\ out \in Seq(Unit) /\ Len(out) <= MaxOut
  /\ cut \in BOOLEAN /\ (cut => out # <<>>) /\ half \in BOOLEAN
  /\ tcp \in Tcps /\ udp \in Udps
  /\ faults \in 0..MaxFaults
  \* an attempt has a transport
  /\ transport = "unknown" => status = "unconnect"

(***************************************************************************)
(* After the first ChangeAddress.  No constructor sets m_use_udp_inlogic.  *)
(***************************************************************************)
Init ==
  /\ setup \in Setups
  /\ use \in {u \in setup.uses : u.tcp} /\ target \in setup.addr
  /\ transport = "unknown" /\ status = "unconnect" /\ kcpStatus = "connect"
  /\ conv = None /\ key = None
  /\ out = <<>> /\ cut = FALSE /\ half = FALSE
  /\ tcp = Tcp("fresh", None) /\ udp = Udp(FALSE, None)
  /\ faults = 0

-----------------------------------------------------------------------------
(* Sockets. *)

\* ClearTempData on a connection that stays: bytes already sent or still to
\* come belong to a unit of which the rest is dropped.
Cleared(t) ==
  IF t.sock = "open"
  THEN [t EXCEPT !.wire = IF cut THEN "bad" ELSE @, !.aligned = @ /\ ~ half]
  ELSE t

\* TcpConnection::Connect: a socket that is in use is asked to connect again,
\* which fails, and whatever can be read from it is read and thrown away.
TcpConnect(t) ==
  LET s == IF t.err \/ t.sock = "closed" THEN Tcp("fresh", None) ELSE t
  IN  IF s.sock = "open"
      THEN {s, [s EXCEPT !.err = TRUE], [s EXCEPT !.aligned = @ /\ s.down = <<>>]}
      ELSE {Tcp("open", target) : r \in setup.reach \cap {"tcp"}}
           \cup {[Tcp("fresh", target) EXCEPT !.err = TRUE]}

\* UDPSession::Connect: always a new socket.
UdpConnect == Udp(TRUE, target)

\* The key comes first on a connection, and once.
KeyFirst(wire, units) ==
  /\ wire = "start" => units # <<>>
  /\ \A i \in DOMAIN units : units[i] = "key" <=> (wire = "start" /\ i = 1)

\* What a server makes of units on a TCP connection.
Parsed(wire, units) ==
  IF units = <<>> THEN wire
  ELSE IF wire # "bad" /\ KeyFirst(wire, units) THEN "body" ELSE "bad"

\* The server's answers to the requests among the units.
Answers(units, a) ==
  {<<>>} \cup IF "ask" \in {units[i] : i \in DOMAIN units}
              THEN {<<(<<a, n>>)>> : n \in setup.num} ELSE {}

-----------------------------------------------------------------------------
(* Changing transport. *)

OverUdp(withKey) ==
  /\ out' = IF withKey THEN <<"key">> ELSE <<>>
  /\ cut' = FALSE /\ half' = FALSE
  /\ udp' = UdpConnect
  /\ transport' = "udp" /\ status' = "connecting"

OverTcp(t) ==
  /\ out' = <<"key">> /\ cut' = FALSE /\ half' = FALSE
  /\ tcp' \in TcpConnect(t)
  /\ transport' = "tcp" /\ status' = "connecting"

ReconnectUdpLogicServer == OverUdp(FALSE)
ReconnectTcpLogicServer(t) == OverTcp(t)

\* The part of ConnectLogicServer that runs while nothing is connected.
ConnectAnew ==
  \/ use.udp /\ OverUdp(TRUE) /\ tcp' = Cleared(tcp)
  \/ ~ use.udp /\ use.tcp /\ OverTcp(Closed) /\ UNCHANGED udp
  \/ ~ use.udp /\ ~ use.tcp /\ UNCHANGED <<out, cut, half, tcp, udp, transport, status>>

\* Slip: an attempt that fails is repeated.
SwitchTransportNot ==
  \/ transport = "tcp" /\ ReconnectTcpLogicServer(Closed) /\ UNCHANGED udp
  \/ transport # "tcp" /\ ReconnectUdpLogicServer /\ tcp' = Cleared(tcp)

\* Slip: one that fails over UDP is the last over UDP.
SwitchTransportOnce ==
  \/ transport = "tcp" /\ ReconnectTcpLogicServer(Closed) /\ UNCHANGED udp
  \/ transport # "tcp" /\ ReconnectTcpLogicServer(Cleared(tcp)) /\ udp' = Udp(FALSE, None)

\* While an attempt is under way the other transport is tried.
SwitchTransport ==
  \/ /\ transport = "tcp"
     /\ ReconnectUdpLogicServer /\ tcp' = Closed
  \/ /\ transport # "tcp"
     /\ ReconnectTcpLogicServer(Cleared(tcp)) /\ udp' = Udp(FALSE, None)

\* Slip: the old connection is not closed.
KeepTransportOpen ==
  \/ transport = "tcp" /\ ReconnectTcpLogicServer(Cleared(tcp)) /\ UNCHANGED udp
  \/ transport # "tcp" /\ ReconnectUdpLogicServer /\ tcp' = Cleared(tcp)

KeepTransport ==
  \/ transport = "tcp" /\ ReconnectTcpLogicServer(Closed) /\ UNCHANGED udp
  \/ transport # "tcp" /\ ReconnectUdpLogicServer /\ tcp' = Cleared(tcp)

\* An answer that the application may still hope for.
Hope == \/ transport = "tcp" /\ tcp.sock = "open" /\ ~ tcp.eof
        \/ transport = "udp" /\ udp.down # {}

ReconnectLogicServer ==
  /\ setup.patient => ~ Hope
  /\ \/ /\ use.udp /\ use.tcp
        /\ \/ status = "connecting" /\ SwitchTransport
           \/ status = "success" /\ KeepTransport
           \/ status = "unconnect" /\ ConnectAnew
     \/ use.udp /\ ~ use.tcp /\ ReconnectUdpLogicServer /\ tcp' = Closed
     \/ /\ ~ use.udp /\ use.tcp
        /\ setup.closing => status = "unconnect"
        /\ ReconnectTcpLogicServer(Cleared(tcp)) /\ UNCHANGED udp
  /\ UNCHANGED <<manager, faults>>

ConnectLogicServer ==
  \/ status # "unconnect" /\ ReconnectLogicServer
  \/ status = "unconnect" /\ ConnectAnew /\ UNCHANGED <<manager, faults>>

\* Slip: SetTransportUseProtocol before the connection is closed.
CloseLogicConnectLate ==
  /\ tcp' = Cleared(tcp) /\ UNCHANGED udp
  /\ transport' = "unknown" /\ status' = "unconnect" /\ kcpStatus' = "unconnect"
  /\ out' = <<>> /\ cut' = FALSE /\ half' = FALSE
  /\ UNCHANGED <<use, target, conv, key, faults>>

CloseLogicConnect ==
  /\ tcp' = IF transport = "tcp" THEN Closed ELSE Cleared(tcp)
  /\ udp' = IF transport = "udp" THEN Udp(FALSE, None) ELSE udp
  /\ transport' = "unknown" /\ status' = "unconnect" /\ kcpStatus' = "unconnect"
  /\ out' = <<>> /\ cut' = FALSE /\ half' = FALSE
  /\ UNCHANGED <<use, target, conv, key, faults>>

\* NewKcp and DestroyKcp leave the sockets alone.
ChangeAddress(a) ==
  /\ setup.closing => transport = "unknown"
  /\ faults < MaxFaults /\ faults' = faults + 1
  /\ target' = a /\ conv' = None
  /\ transport' = "unknown" /\ status' = "unconnect" /\ kcpStatus' = "connect"
  /\ out' = <<>> /\ cut' = FALSE /\ half' = FALSE
  /\ tcp' = Cleared(tcp)
  /\ UNCHANGED <<use, key, udp>>

SetUse(u) ==
  /\ use' = u
  /\ UNCHANGED <<target, transport, status, kcpStatus, conv, key, out, cut, half,
                 tcp, udp, faults>>

-----------------------------------------------------------------------------
(* Update: SendData and ReceiveData. *)

\* Slip: whatever waits.
AskAgain == IF conv = None THEN Append(out, "ask") ELSE out

\* GetConvFromServer: a request, unless something else than the key waits.
GetConvFromServer ==
  IF conv = None /\ (out = <<>> \/ (out = <<"key">> /\ ~ cut))
  THEN Append(out, "ask") ELSE out

\* ikcp_update hands over a segment of the session: over TCP it is queued.
Flushed(q) ==
  {q} \cup IF conv # None /\ transport = "tcp" /\ Len(q) < MaxOut
           THEN {Append(q, "seg")} ELSE {}

\* Slip: every answer is taken.
TookAny(u) ==
  /\ IF u \in Conv THEN conv' = u /\ key' = u ELSE UNCHANGED <<conv, key>>
  /\ kcpStatus' = IF u = <<"exit">> THEN "exit" ELSE kcpStatus

\* Slip: the key of every answer is taken.
TookKey(u) ==
  /\ conv' = IF u \in Conv /\ conv = None THEN u ELSE conv
  /\ key' = IF u \in Conv THEN u ELSE key
  /\ kcpStatus' = IF u = <<"exit">> THEN "exit" ELSE kcpStatus

\* ReceiveData takes u, a unit that has come completely.
Took(u) ==
  /\ IF u \in Conv /\ conv = None
     THEN conv' = u /\ key' = u ELSE UNCHANGED <<conv, key>>
  /\ kcpStatus' = IF u = <<"exit">> THEN "exit" ELSE kcpStatus

TookNothing == UNCHANGED <<conv, key, kcpStatus>>
NowSuccess == status' = IF status = "connecting" THEN "success" ELSE status

\* What arrives over TCP: nothing, a part of a unit, a unit, the end.
ReceiveTcp(t) ==
  \/ TookNothing /\ UNCHANGED <<half, status>> /\ tcp' = t
  \/ /\ t.sock = "open" /\ t.down # <<>> /\ ~ half
     /\ half' = TRUE /\ tcp' = t /\ NowSuccess /\ TookNothing
  \/ /\ t.sock = "open" /\ t.down # <<>>
     /\ half' = FALSE /\ tcp' = [t EXCEPT !.down = Tail(@)] /\ NowSuccess
     /\ Took(Head(t.down))
  \/ /\ t.sock = "open" /\ t.eof /\ t.down = <<>>
     /\ tcp' = Closed /\ status' = "unconnect"
     /\ TookNothing /\ UNCHANGED half

ReceiveUdp(sent) ==
  \/ TookNothing /\ UNCHANGED status /\ udp' = [udp EXCEPT !.down = @ \cup sent]
  \/ \E u \in udp.down : \E kept \in SUBSET {u} :
       /\ udp.sock
       /\ udp' = [udp EXCEPT !.down = (@ \ {u}) \cup sent \cup kept]
       /\ NowSuccess /\ Took(u)

UpdateTcp(q) ==
  \E r \in Flushed(q) :
  \E n \in 0..Len(r), c \in BOOLEAN :
    LET able == tcp.sock = "open" /\ ~ tcp.eof
        sent == SubSeq(r, 1, n)
    IN  /\ (n > 0 \/ (c /\ ~ cut)) => able
        /\ c => n < Len(r)
        /\ c = (c \/ (cut /\ n = 0))
        /\ out' = SubSeq(r, n + 1, Len(r)) /\ cut' = c
        /\ \E ans \in Answers(sent, tcp.peer) :
             /\ Len(tcp.down \o ans) <= MaxDown
             /\ ReceiveTcp([tcp EXCEPT !.wire = Parsed(@, sent), !.down = @ \o ans])
        /\ UNCHANGED udp

\* Over UDP the queue is sent while there is no conv, in one datagram.
UpdateUdp(q) ==
  \E n \in {0} \cup IF conv = None /\ udp.sock THEN {Len(q)} ELSE {} :
  \E ans \in Answers(SubSeq(q, 1, n), udp.peer) :
    LET heard == IF "udp" \in setup.reach THEN {ans[i] : i \in DOMAIN ans} ELSE {}
    IN  /\ out' = SubSeq(q, n + 1, Len(q))
        /\ ReceiveUdp(heard)
        /\ UNCHANGED <<cut, half, tcp>>

Update(q) ==
  \/ transport = "tcp" /\ kcpStatus # "exit" /\ UpdateTcp(q) /\ UNCHANGED transport
  \/ transport = "udp" /\ kcpStatus # "exit" /\ UpdateUdp(q) /\ UNCHANGED transport
  \/ /\ transport = "unknown" \/ kcpStatus = "exit"
     /\ out' = q
     /\ UNCHANGED <<transport, status, kcpStatus, conv, key, cut, half, tcp, udp>>

SendOneCode ==
  /\ Len(GetConvFromServer) <= MaxOut
  /\ Update(GetConvFromServer)
  /\ UNCHANGED <<use, target, faults>>

\* m_send_queue has no room for the code.
SendOneCodeFull ==
  /\ conv # None /\ kcpStatus' = "exit"
  /\ UNCHANGED <<use, target, transport, status, conv, key, out, cut, half,
                 tcp, udp, faults>>

ReceiveOneCode ==
  /\ status # "unconnect" /\ transport # "unknown" /\ kcpStatus # "exit"
  /\ Update(out)
  /\ UNCHANGED <<use, target, faults>>

-----------------------------------------------------------------------------
(* The server and the network. *)

ServerSends(u) ==
  /\ IF u = <<"exit">> THEN faults < MaxFaults /\ faults' = faults + 1
     ELSE conv # None /\ UNCHANGED faults
  /\ \/ /\ tcp.sock = "open" /\ ~ tcp.eof /\ Len(tcp.down) < MaxDown
        /\ tcp' = [tcp EXCEPT !.down = Append(@, u)] /\ UNCHANGED udp
     \/ /\ udp.sock /\ "udp" \in setup.reach /\ conv # None
        /\ udp' = [udp EXCEPT !.down = @ \cup {u}] /\ UNCHANGED tcp
  /\ UNCHANGED <<manager, transport, status, out, cut, half>>

TcpEnds ==
  /\ tcp.sock = "open" /\ ~ tcp.eof /\ faults < MaxFaults
  /\ tcp' = [tcp EXCEPT !.eof = TRUE] /\ faults' = faults + 1
  /\ UNCHANGED <<manager, transport, status, out, cut, half, udp>>

\* A connection that took longer than TcpConnection::Connect waits for it.
TcpLate ==
  /\ tcp.sock = "fresh" /\ tcp.err /\ "tcp" \in setup.reach
  /\ tcp' = [Tcp("open", tcp.peer) EXCEPT !.err = TRUE]
  /\ UNCHANGED <<manager, transport, status, out, cut, half, udp, faults>>

UdpLost(u) ==
  /\ u \in udp.down
  /\ udp' = [udp EXCEPT !.down = @ \ {u}]
  /\ UNCHANGED <<manager, transport, status, out, cut, half, tcp, faults>>

Step ==
  \/ ConnectLogicServer \/ ReconnectLogicServer \/ CloseLogicConnect
  \/ \E a \in setup.addr : ChangeAddress(a)
  \/ \E u \in setup.uses : SetUse(u)
  \/ SendOneCode \/ SendOneCodeFull \/ ReceiveOneCode
  \/ \E u \in Down \ Conv : ServerSends(u)
  \/ TcpEnds \/ TcpLate
  \/ \E u \in Down : UdpLost(u)

Next == Step /\ UNCHANGED setup

\* What waits is sent, a request answered, the answer taken, a connection made.
Drains == SendOneCode /\ cut /\ out' = <<>>
Asks == SendOneCode /\ Len(tcp'.down) + Cardinality(udp'.down) >
                       Len(tcp.down) + Cardinality(udp.down)
Takes == (SendOneCode \/ ReceiveOneCode) /\ <<conv, kcpStatus>>' # <<conv, kcpStatus>>
Dials == (ConnectLogicServer \/ ReconnectLogicServer) /\ tcp'.sock = "open"

\* A patient application tries again and again, and what is tried again and again works.
Patient == setup.patient
Fairness ==
  /\ WF_vars(Patient /\ ConnectLogicServer)
  /\ WF_vars(Patient /\ kcpStatus = "exit" /\ CloseLogicConnect)
  /\ SF_vars(Patient /\ Drains) /\ SF_vars(Patient /\ Asks)
  /\ SF_vars(Patient /\ Takes) /\ SF_vars(Patient /\ Dials)

Spec == Init /\ [][Next]_<<vars, setup>> /\ Fairness

-----------------------------------------------------------------------------
(* Properties. *)

(***************************************************************************)
(* What a server gets over one TCP connection is the key and then whole    *)
(* segments, whatever was cut off when the application reconnected.        *)
(***************************************************************************)
Framed == setup.closing => tcp.wire # "bad"

(***************************************************************************)
(* What is read from a TCP connection begins with a segment: no half of a  *)
(* segment is left in the stream by clearing m_un_receive_queue.           *)
(***************************************************************************)
Aligned == setup.closing /\ tcp.sock = "open" => tcp.aligned

(***************************************************************************)
(* The session is one of the server the application chose last: no answer  *)
(* from a connection to the server before is taken for it.                 *)
(***************************************************************************)
ConvOfTarget == setup.closing /\ conv # None => conv[1] = target

(***************************************************************************)
(* However often SendOneCode is called without a conv, one request waits.  *)
(***************************************************************************)
OneRequest == \A i, j \in DOMAIN out : out[i] = "ask" /\ out[j] = "ask" => i = j

(***************************************************************************)
(* The key sent when connecting again is that of the session, whatever     *)
(* other answers arrived.                                                  *)
(***************************************************************************)
KeyOfConv == conv # None => key = conv

(***************************************************************************)
(* What a session is, at every moment: its state is well typed, its conv   *)
(* and key belong together and to the server chosen last, and one request  *)
(* for it waits at most.                                                   *)
(***************************************************************************)
SessionInv == TypeOK /\ ConvOfTarget /\ KeyOfConv /\ OneRequest

(***************************************************************************)
(* Why Framed, Aligned and SessionInv hold: what comes over a connection   *)
(* is its peer's, and an application that closes uses one connection at a  *)
(* time, with the server chosen last.  A connection that is made too late  *)
(* (err) is never sent to before another attempt.  Only over TCP is a unit *)
(* sent or received in parts.                                              *)
(***************************************************************************)
TcpOfPeer(t) ==
  /\ t.sock = "open" \/ (t.sock = "fresh" /\ t.err) => t.peer \in Addr
  /\ t.sock = "fresh" => t.wire = "start"
  /\ \A i \in DOMAIN t.down : t.down[i] \in Conv => t.down[i][1] = t.peer
UdpOfPeer(u) ==
  /\ u.sock => u.peer \in Addr
  /\ \A d \in u.down : d \in Conv => d[1] = u.peer

OneAtATime ==
  /\ transport = "tcp" /\ tcp.sock # "closed" => tcp.peer = target /\ KeyFirst(tcp.wire, out)
  /\ transport = "udp" => udp.peer = target
  /\ transport # "tcp" /\ tcp.sock = "open" => tcp.err
  /\ transport = "tcp" /\ status = "unconnect" => tcp.sock = "closed"

InParts == cut \/ half => transport = "tcp" /\ tcp.sock # "fresh"

SessionIInv ==
  /\ SessionInv /\ Framed /\ Aligned
  /\ TcpOfPeer(tcp) /\ UdpOfPeer(udp) /\ InParts
  /\ setup.closing => OneAtATime

(***************************************************************************)
(* A session survives reconnects, closes and late answers; only a change   *)
(* of address ends it.                                                     *)
(***************************************************************************)
SessionKept ==
  [][conv # None => conv' = conv \/ \E a \in Addr : ChangeAddress(a)]_vars

(***************************************************************************)
(* If one transport gets through, whichever it is, and the application is  *)
(* patient, there is a session in the end.                                 *)
(***************************************************************************)
Connects == Patient => <>[](conv # None)
=============================================================================
