-------------------------- MODULE ConnectionProofs --------------------------
(***************************************************************************)
(* Proofs about Connection, for any addresses, convs, transports that get  *)
(* through and bounds.                                                     *)
(***************************************************************************)
EXTENDS Connection, SequenceTheorems, TLAPS

-----------------------------------------------------------------------------
(* Sockets *)

LEMMA TcpMade ==
  ASSUME NEW s \in {"closed", "fresh", "open"}, NEW p \in Addr \cup {None}
  PROVE  /\ Tcp(s, p) \in Tcps /\ [Tcp(s, p) EXCEPT !.err = TRUE] \in Tcps
         /\ Tcp(s, p).sock = s /\ Tcp(s, p).peer = p /\ ~ Tcp(s, p).err
         /\ Tcp(s, p).wire = "start" /\ Tcp(s, p).aligned /\ Tcp(s, p).down = <<>>
<1>1. <<>> \in Seq(Down)
  BY EmptySeq
<1>. QED BY <1>1 DEF Tcp, Tcps

\* The same of a connection in use when Connect is called again.
SameButErr(t, u) ==
  /\ u \in Tcps /\ u.sock = t.sock /\ u.peer = t.peer /\ u.wire = t.wire /\ u.down = t.down

LEMMA ErrSet ==
  ASSUME NEW t \in Tcps
  PROVE  LET u == [t EXCEPT !.err = TRUE] IN
         SameButErr(t, u) /\ u.err /\ u.aligned = t.aligned /\ u.eof = t.eof
BY DEF Tcps, SameButErr

LEMMA AlignedSet ==
  ASSUME NEW t \in Tcps, NEW b \in BOOLEAN
  PROVE  LET u == [t EXCEPT !.aligned = b] IN SameButErr(t, u) /\ u.err = t.err /\ u.eof = t.eof /\ u.aligned = b
BY DEF Tcps, SameButErr

LEMMA EofSet ==
  ASSUME NEW t \in Tcps
  PROVE  LET u == [t EXCEPT !.eof = TRUE] IN SameButErr(t, u) /\ u.err = t.err /\ u.aligned = t.aligned
BY DEF Tcps, SameButErr

LEMMA UdpMade ==
  ASSUME NEW b \in BOOLEAN, NEW p \in Addr \cup {None}
  PROVE  /\ Udp(b, p) \in Udps
         /\ Udp(b, p).sock = b /\ Udp(b, p).peer = p /\ Udp(b, p).down = {}
BY DEF Udp, Udps

\* A connection that is not in use is not sent to before another is made.
Unused(t) == t.wire # "bad" /\ (t.sock = "open" => t.aligned /\ t.err)

LEMMA ClosedFacts ==
  Closed \in Tcps /\ TcpOfPeer(Closed) /\ Unused(Closed) /\ Closed.sock = "closed"
<1>1. /\ Closed \in Tcps /\ Closed.sock = "closed" /\ Closed.wire = "start" /\ Closed.down = <<>>
  BY TcpMade DEF Closed
<1>2. DOMAIN <<>> = {}
  OBVIOUS
<1>. QED BY <1>1, <1>2 DEF TcpOfPeer, Unused

LEMMA TcpConnectFacts ==
  ASSUME NEW t \in Tcps, TcpOfPeer(t), target \in Addr, NEW u \in TcpConnect(t)
  PROVE  /\ u \in Tcps /\ TcpOfPeer(u)
         /\ Unused(t) => u.sock # "closed" /\ u.peer = target /\ u.wire = "start" /\ u.aligned
<1>. DEFINE s == IF t.err \/ t.sock = "closed" THEN Tcp("fresh", None) ELSE t
<1>1. s \in Tcps /\ TcpOfPeer(s)
  <2>1. CASE t.err \/ t.sock = "closed"
    <3>1. s = Tcp("fresh", None)
      BY <2>1
    <3>2. s \in Tcps /\ s.sock = "fresh" /\ ~ s.err /\ s.down = <<>> /\ s.wire = "start"
      <4>1. /\ Tcp("fresh", None) \in Tcps /\ Tcp("fresh", None).sock = "fresh"
            /\ Tcp("fresh", None).wire = "start"
            /\ ~ Tcp("fresh", None).err /\ Tcp("fresh", None).down = <<>>
        BY TcpMade
      <4>. HIDE DEF s
      <4>. QED BY <3>1, <4>1
    <3>3. DOMAIN <<>> = {}
      OBVIOUS
    <3>. QED BY <3>2, <3>3 DEF TcpOfPeer
  <2>2. CASE ~ (t.err \/ t.sock = "closed")
    BY <2>2
  <2>. QED BY <2>1, <2>2
<1>2. CASE s.sock = "open"
  <2>1. s = t /\ ~ t.err
    <3>1. CASE t.err \/ t.sock = "closed"
      BY <1>2, <3>1, TcpMade
    <3>. QED BY <3>1
  <2>2. u \in {s, [s EXCEPT !.err = TRUE], [s EXCEPT !.aligned = @ /\ s.down = <<>>]}
    BY <1>2 DEF TcpConnect
  <2>. HIDE DEF s
  <2>3. SameButErr(t, u)
    <3>1. (t.aligned /\ t.down = <<>>) \in BOOLEAN
      OBVIOUS
    <3>2. SameButErr(t, t)
      BY DEF SameButErr
    <3>3. CASE u = s
      BY <2>1, <3>2, <3>3
    <3>4. CASE u = [s EXCEPT !.err = TRUE]
      BY <2>1, <3>4, ErrSet
    <3>5. CASE u = [s EXCEPT !.aligned = @ /\ s.down = <<>>]
      <4>. DEFINE b == t.aligned /\ t.down = <<>>
      <4>1. u = [t EXCEPT !.aligned = b]
        BY <2>1, <3>5
      <4>2. b \in BOOLEAN
        BY <3>1
      <4>. HIDE DEF b
      <4>. QED BY <4>1, <4>2, AlignedSet
    <3>. QED BY <2>2, <3>3, <3>4, <3>5
  <2>4. TcpOfPeer(u)
    BY <1>2, <2>1, <2>3 DEF TcpOfPeer, SameButErr
  <2>5. ~ Unused(t)
    BY <1>2, <2>1 DEF Unused
  <2>. QED BY <2>3, <2>4, <2>5 DEF SameButErr
<1>3. CASE s.sock # "open"
  <2>1. u = Tcp("open", target) \/ u = [Tcp("fresh", target) EXCEPT !.err = TRUE]
    BY <1>3 DEF TcpConnect
  <2>2. target \in Addr \cup {None}
    OBVIOUS
  <2>3. /\ u \in Tcps /\ u.sock \in {"fresh", "open"} /\ u.peer = target
        /\ u.wire = "start" /\ u.aligned /\ u.down = <<>>
    <3>1. CASE u = Tcp("open", target)
      BY <2>2, <3>1, TcpMade
    <3>2. CASE u = [Tcp("fresh", target) EXCEPT !.err = TRUE]
      <4>. DEFINE v == Tcp("fresh", target)
      <4>1. /\ v \in Tcps /\ v.sock = "fresh" /\ v.peer = target /\ v.wire = "start" /\ v.aligned
            /\ v.down = <<>>
        BY <2>2, TcpMade
      <4>. HIDE DEF v
      <4>2. u = [v EXCEPT !.err = TRUE]
        BY <3>2 DEF v
      <4>. QED BY <4>1, <4>2, ErrSet DEF SameButErr
    <3>. QED BY <2>1, <3>1, <3>2
  <2>4. DOMAIN <<>> = {}
    OBVIOUS
  <2>. QED BY <2>3, <2>4 DEF TcpOfPeer
<1>. QED BY <1>2, <1>3

LEMMA ClearedFacts ==
  ASSUME SessionIInv
  PROVE  LET u == Cleared(tcp) IN
         /\ u \in Tcps /\ TcpOfPeer(u) /\ u.sock = tcp.sock /\ u.err = tcp.err
         /\ setup.closing /\ (transport # "tcp" \/ status = "unconnect") => Unused(u)
<1>. DEFINE w == IF cut THEN "bad" ELSE tcp.wire
            b == tcp.aligned /\ ~ half
            v == [tcp EXCEPT !.wire = w, !.aligned = b]
<1>1. tcp \in Tcps /\ w \in {"start", "body", "bad"} /\ b \in BOOLEAN /\ TcpOfPeer(tcp)
  BY DEF SessionIInv, SessionInv, TypeOK, Tcps
<1>2. setup.closing => tcp.wire # "bad" /\ (tcp.sock = "open" => tcp.aligned)
  BY DEF SessionIInv, Framed, Aligned
<1>3. setup.closing /\ (transport # "tcp" \/ status = "unconnect") =>
        (tcp.sock = "open" => ~ cut /\ ~ half /\ tcp.err)
  BY DEF SessionIInv, OneAtATime, InParts
<1>4. Cleared(tcp) = IF tcp.sock = "open" THEN v ELSE tcp
  BY DEF Cleared
<1>5. w = "bad" => cut \/ tcp.wire = "bad"
  OBVIOUS
<1>6. ~ b => half \/ ~ tcp.aligned
  OBVIOUS
<1>. HIDE DEF w, b
<1>7. /\ v \in Tcps /\ v.sock = tcp.sock /\ v.err = tcp.err /\ v.peer = tcp.peer /\ v.down = tcp.down
      /\ v.wire = w /\ v.aligned = b
  BY <1>1 DEF Tcps
<1>. HIDE DEF v
<1>8. CASE tcp.sock = "open"
  BY <1>1, <1>2, <1>3, <1>4, <1>5, <1>6, <1>7, <1>8 DEF Unused, TcpOfPeer
<1>9. CASE tcp.sock # "open"
  BY <1>1, <1>2, <1>4, <1>9 DEF Unused
<1>. QED BY <1>8, <1>9

-----------------------------------------------------------------------------
(* Connecting *)

\* Of what an attempt leaves alone.
Kept == UNCHANGED <<manager, faults, setup>>

LEMMA KeyOnly ==
  /\ <<"key">> \in Seq(Unit) /\ Len(<<"key">>) = 1 /\ DOMAIN <<"key">> = {1}
  /\ <<"key">>[1] = "key" /\ <<"key">> # <<>> /\ KeyFirst("start", <<"key">>)
<1>1. <<"key">> \in Seq(Unit) /\ Len(<<"key">>) = 1 /\ DOMAIN <<"key">> = {1} /\ <<"key">>[1] = "key"
  BY DEF Unit
<1>2. <<"key">> # <<>>
  OBVIOUS
<1>. QED BY <1>1, <1>2 DEF KeyFirst

LEMMA NothingWaits ==
  <<>> \in Seq(Unit) /\ Len(<<>>) = 0 /\ DOMAIN <<>> = {}
BY EmptySeq

LEMMA QueueEmptied ==
  ASSUME out' = <<>>, cut' = FALSE
  PROVE  /\ out' \in Seq(Unit) /\ Len(out') <= MaxOut
         /\ cut' \in BOOLEAN /\ (cut' => out' # <<>>)
<1>1. MaxOut \in Nat /\ 0 <= MaxOut
  BY ConnectionAssumption
<1>. QED BY <1>1, NothingWaits

\* The manager's own part of SessionInv.
LEMMA ManagerKept ==
  ASSUME SessionIInv, Kept
  PROVE  /\ setup' \in Setups /\ use' \in [udp : BOOLEAN, tcp : BOOLEAN] /\ target' \in Addr
         /\ kcpStatus' \in {"unconnect", "connect", "exit"}
         /\ conv' \in Conv \cup {None} /\ key' \in Conv \cup {None} /\ faults' \in 0..MaxFaults
         /\ ConvOfTarget' /\ KeyOfConv' /\ target' = target /\ setup'.closing = setup.closing
BY DEF SessionIInv, SessionInv, TypeOK, ConvOfTarget, KeyOfConv, Kept, manager

LEMMA OverUdpStep ==
  ASSUME SessionIInv, Kept, NEW withKey \in BOOLEAN, OverUdp(withKey),
         NEW t \in Tcps, tcp' = t, TcpOfPeer(t), setup.closing => Unused(t)
  PROVE  SessionIInv'
<1>1. target \in Addr
  BY DEF SessionIInv, SessionInv, TypeOK
<1>2. udp' \in Udps /\ UdpOfPeer(udp') /\ udp'.peer = target
  <2>1. udp' = Udp(TRUE, target)
    BY DEF OverUdp, UdpConnect
  <2>2. Udp(TRUE, target) \in Udps /\ Udp(TRUE, target).peer = target /\ Udp(TRUE, target).down = {}
    BY <1>1, UdpMade
  <2>. QED BY <1>1, <2>1, <2>2 DEF UdpOfPeer
<1>3. /\ transport' = "udp" /\ status' = "connecting" /\ ~ cut' /\ ~ half' /\ cut' = FALSE /\ half' = FALSE
      /\ out' = <<"key">> \/ out' = <<>>
  BY DEF OverUdp
<1>4. out' \in Seq(Unit) /\ Len(out') <= MaxOut /\ OneRequest'
  <2>1. MaxOut \in Nat /\ 1 <= MaxOut /\ 0 <= MaxOut
    BY ConnectionAssumption
  <2>2. CASE out' = <<"key">>
    BY <2>1, <2>2, KeyOnly DEF OneRequest
  <2>3. CASE out' = <<>>
    BY <2>1, <2>3, NothingWaits DEF OneRequest
  <2>. QED BY <1>3, <2>2, <2>3
<1>5. TypeOK'
  BY <1>2, <1>3, <1>4, ManagerKept DEF TypeOK
<1>6. SessionInv'
  BY <1>4, <1>5, ManagerKept DEF SessionInv
<1>7. (setup.closing => Unused(t)) /\ setup'.closing = setup.closing
  BY ManagerKept
<1>8. Framed' /\ Aligned'
  BY <1>7 DEF Framed, Aligned, Unused
<1>9. InParts' /\ (setup'.closing => OneAtATime')
  BY <1>2, <1>3, <1>7, ManagerKept DEF OneAtATime, InParts, Unused
<1>. QED BY <1>2, <1>6, <1>8, <1>9 DEF SessionIInv

LEMMA OverTcpStep ==
  ASSUME SessionIInv, Kept, NEW t \in Tcps, OverTcp(t), TcpOfPeer(t), setup.closing => Unused(t),
         udp' = udp \/ udp' = Udp(FALSE, None)
  PROVE  SessionIInv'
<1>1. target \in Addr
  BY DEF SessionIInv, SessionInv, TypeOK
<1>2. /\ tcp' \in Tcps /\ TcpOfPeer(tcp')
      /\ Unused(t) => tcp'.sock # "closed" /\ tcp'.peer = target /\ tcp'.wire = "start" /\ tcp'.aligned
  BY <1>1, TcpConnectFacts DEF OverTcp
<1>3. udp' \in Udps /\ UdpOfPeer(udp')
  <2>1. udp \in Udps /\ UdpOfPeer(udp)
    BY DEF SessionIInv, SessionInv, TypeOK
  <2>2. /\ Udp(FALSE, None) \in Udps /\ Udp(FALSE, None).sock = FALSE /\ Udp(FALSE, None).down = {}
    BY UdpMade
  <2>3. UdpOfPeer(Udp(FALSE, None))
    BY <2>2 DEF UdpOfPeer
  <2>. QED BY <2>1, <2>2, <2>3
<1>4. /\ transport' = "tcp" /\ status' = "connecting" /\ cut' = FALSE /\ half' = FALSE /\ out' = <<"key">>
  BY DEF OverTcp
<1>5. out' \in Seq(Unit) /\ Len(out') <= MaxOut /\ OneRequest' /\ KeyFirst("start", out')
  <2>1. MaxOut \in Nat /\ 1 <= MaxOut
    BY ConnectionAssumption
  <2>. QED BY <1>4, <2>1, KeyOnly DEF OneRequest
<1>6. TypeOK'
  BY <1>2, <1>3, <1>4, <1>5, ManagerKept DEF TypeOK
<1>7. SessionInv'
  BY <1>5, <1>6, ManagerKept DEF SessionInv
<1>8. setup'.closing = setup.closing /\ target' = target
  BY ManagerKept
<1>9. Framed' /\ Aligned'
  BY <1>2, <1>8 DEF Framed, Aligned
<1>10. InParts' /\ (setup'.closing => OneAtATime')
  BY <1>2, <1>4, <1>5, <1>8 DEF OneAtATime, InParts
<1>. QED BY <1>2, <1>3, <1>7, <1>9, <1>10 DEF SessionIInv

LEMMA ConnectAnewStep ==
  ASSUME SessionIInv, Kept, status = "unconnect", ConnectAnew
  PROVE  SessionIInv'
<1>. DEFINE u == Cleared(tcp)
<1>1. u \in Tcps /\ TcpOfPeer(u) /\ (setup.closing => Unused(u))
  BY ClearedFacts
<1>. HIDE DEF u
<1>2. CASE OverUdp(TRUE) /\ tcp' = u
  BY <1>1, <1>2, OverUdpStep
<1>3. CASE OverTcp(Closed) /\ UNCHANGED udp
  BY <1>3, ClosedFacts, OverTcpStep
<1>4. CASE UNCHANGED <<out, cut, half, tcp, udp, transport, status>>
  BY <1>4 DEF SessionIInv, SessionInv, TypeOK, ConvOfTarget, KeyOfConv, OneRequest, Framed, Aligned,
              OneAtATime, InParts, Kept, manager
<1>. QED BY <1>2, <1>3, <1>4 DEF ConnectAnew, u

LEMMA ReconnectStep ==
  ASSUME SessionIInv, UNCHANGED setup, ReconnectLogicServer
  PROVE  SessionIInv'
<1>. DEFINE u == Cleared(tcp)
            none == Udp(FALSE, None)
<1>0. Kept
  BY DEF ReconnectLogicServer, Kept
<1>1. /\ u \in Tcps /\ TcpOfPeer(u)
      /\ setup.closing /\ (transport # "tcp" \/ status = "unconnect") => Unused(u)
  BY ClearedFacts
<1>. HIDE DEF u, none
<1>2. ASSUME OverUdp(FALSE), tcp' = Closed PROVE SessionIInv'
  BY <1>0, <1>2, ClosedFacts, OverUdpStep
<1>3. ASSUME OverUdp(FALSE), tcp' = u, transport # "tcp" PROVE SessionIInv'
  BY <1>0, <1>1, <1>3, OverUdpStep
<1>4. ASSUME OverTcp(Closed), UNCHANGED udp PROVE SessionIInv'
  BY <1>0, <1>4, ClosedFacts, OverTcpStep
<1>5. ASSUME OverTcp(u), transport # "tcp" \/ (setup.closing => status = "unconnect"),
             udp' = udp \/ udp' = none
      PROVE  SessionIInv'
  BY <1>0, <1>1, <1>5, OverTcpStep DEF none
<1>6. CASE SwitchTransport
  BY <1>2, <1>5, <1>6 DEF SwitchTransport, ReconnectUdpLogicServer, ReconnectTcpLogicServer, u, none
<1>7. CASE KeepTransport
  BY <1>3, <1>4, <1>7 DEF KeepTransport, ReconnectUdpLogicServer, ReconnectTcpLogicServer, u
<1>8. CASE ConnectAnew /\ status = "unconnect"
  BY <1>0, <1>8, ConnectAnewStep
<1>9. CASE ReconnectUdpLogicServer /\ tcp' = Closed
  BY <1>2, <1>9 DEF ReconnectUdpLogicServer
<1>10. CASE (setup.closing => status = "unconnect") /\ ReconnectTcpLogicServer(Cleared(tcp)) /\ UNCHANGED udp
  BY <1>5, <1>10 DEF ReconnectTcpLogicServer, u
<1>. QED BY <1>6, <1>7, <1>8, <1>9, <1>10 DEF ReconnectLogicServer

LEMMA ConnectStep ==
  ASSUME SessionIInv, UNCHANGED setup, ConnectLogicServer
  PROVE  SessionIInv'
BY ReconnectStep, ConnectAnewStep DEF ConnectLogicServer, Kept

LEMMA CloseStep ==
  ASSUME SessionIInv, UNCHANGED setup, CloseLogicConnect
  PROVE  SessionIInv'
<1>. DEFINE u == Cleared(tcp)
            t == IF transport = "tcp" THEN Closed ELSE u
<1>1. /\ u \in Tcps /\ TcpOfPeer(u)
      /\ setup.closing /\ (transport # "tcp" \/ status = "unconnect") => Unused(u)
  BY ClearedFacts
<1>. HIDE DEF u
<1>2. t \in Tcps /\ TcpOfPeer(t) /\ (setup.closing => Unused(t))
  BY <1>1, ClosedFacts
<1>3. tcp' = t
  BY DEF CloseLogicConnect, u
<1>. HIDE DEF t
<1>4. udp' \in Udps /\ UdpOfPeer(udp')
  <2>1. udp \in Udps /\ UdpOfPeer(udp)
    BY DEF SessionIInv, SessionInv, TypeOK
  <2>2. /\ Udp(FALSE, None) \in Udps /\ Udp(FALSE, None).sock = FALSE /\ Udp(FALSE, None).down = {}
    BY UdpMade
  <2>3. udp' = udp \/ udp' = Udp(FALSE, None)
    BY DEF CloseLogicConnect
  <2>. QED BY <2>1, <2>2, <2>3 DEF UdpOfPeer
<1>5. /\ transport' = "unknown" /\ status' = "unconnect" /\ kcpStatus' = "unconnect"
      /\ out' = <<>> /\ cut' = FALSE /\ half' = FALSE
      /\ UNCHANGED <<use, target, conv, key, faults>>
  BY DEF CloseLogicConnect
<1>6. OneRequest'
  BY <1>5, NothingWaits DEF OneRequest
<1>7. TypeOK'
  <2>1. /\ setup' \in Setups /\ use' \in [udp : BOOLEAN, tcp : BOOLEAN] /\ target' \in Addr
        /\ conv' \in Conv \cup {None} /\ key' \in Conv \cup {None} /\ faults' \in 0..MaxFaults
    BY <1>5 DEF SessionIInv, SessionInv, TypeOK
  <2>. QED BY <1>2, <1>3, <1>4, <1>5, <2>1, QueueEmptied DEF TypeOK
<1>8. SessionInv'
  BY <1>5, <1>6, <1>7 DEF SessionIInv, SessionInv, ConvOfTarget, KeyOfConv
<1>9. Framed' /\ Aligned' /\ InParts' /\ (setup'.closing => OneAtATime')
  BY <1>2, <1>3, <1>5 DEF Framed, Aligned, OneAtATime, InParts, Unused
<1>. QED BY <1>2, <1>3, <1>4, <1>8, <1>9 DEF SessionIInv

LEMMA ChangeAddressStep ==
  ASSUME SessionIInv, UNCHANGED setup, NEW a \in setup.addr, ChangeAddress(a)
  PROVE  SessionIInv'
<1>. DEFINE u == Cleared(tcp)
<1>1. u \in Tcps /\ TcpOfPeer(u) /\ (setup.closing => Unused(u))
  BY ClearedFacts DEF ChangeAddress
<1>2. tcp' = u
  BY DEF ChangeAddress
<1>. HIDE DEF u
<1>3. /\ transport' = "unknown" /\ status' = "unconnect" /\ kcpStatus' = "connect"
      /\ out' = <<>> /\ cut' = FALSE /\ half' = FALSE /\ target' = a /\ conv' = None
      /\ faults < MaxFaults /\ faults' = faults + 1
      /\ UNCHANGED <<use, key, udp>>
  BY DEF ChangeAddress
<1>4. a \in Addr
  BY ConnectionAssumption DEF SessionIInv, SessionInv, TypeOK
<1>5. faults' \in 0..MaxFaults
  BY <1>3, ConnectionAssumption DEF SessionIInv, SessionInv, TypeOK
<1>6. TypeOK'
  <2>1. /\ setup' \in Setups /\ use' \in [udp : BOOLEAN, tcp : BOOLEAN] /\ key' \in Conv \cup {None}
        /\ udp' \in Udps
    BY <1>3 DEF SessionIInv, SessionInv, TypeOK
  <2>. QED BY <1>1, <1>2, <1>3, <1>4, <1>5, <2>1, QueueEmptied DEF TypeOK
<1>7. SessionInv'
  BY <1>3, <1>6, NothingWaits DEF SessionInv, ConvOfTarget, KeyOfConv, OneRequest
<1>8. Framed' /\ Aligned' /\ InParts' /\ (setup'.closing => OneAtATime')
  BY <1>1, <1>2, <1>3 DEF Framed, Aligned, OneAtATime, InParts, Unused
<1>. QED BY <1>1, <1>2, <1>3, <1>7, <1>8 DEF SessionIInv

LEMMA SetUseStep ==
  ASSUME SessionIInv, UNCHANGED setup, NEW u \in setup.uses, SetUse(u)
  PROVE  SessionIInv'
<1>1. u \in [udp : BOOLEAN, tcp : BOOLEAN]
  BY ConnectionAssumption DEF SessionIInv, SessionInv, TypeOK
<1>. QED BY <1>1 DEF SetUse, SessionIInv, SessionInv, TypeOK, ConvOfTarget, KeyOfConv, OneRequest,
                     Framed, Aligned, OneAtATime, InParts

-----------------------------------------------------------------------------
(* The server and the network *)

\* A step that leaves the manager alone, and of a connection what the manager relies on.
LEMMA OutsideStep ==
  ASSUME SessionIInv, UNCHANGED <<setup, manager, transport, status, out, cut, half>>,
         faults' \in 0..MaxFaults,
         tcp' \in Tcps, TcpOfPeer(tcp'), udp' \in Udps, UdpOfPeer(udp'), udp'.peer = udp.peer,
         \/ tcp'.sock = tcp.sock /\ tcp'.peer = tcp.peer /\ tcp'.err = tcp.err /\ tcp'.wire = tcp.wire
            /\ tcp'.aligned = tcp.aligned
         \/ tcp.sock = "fresh" /\ tcp'.sock = "open" /\ tcp'.peer = tcp.peer /\ tcp'.err
            /\ tcp'.wire = "start" /\ tcp'.aligned
  PROVE  SessionIInv'
<1>1. SessionInv'
  BY DEF SessionIInv, SessionInv, TypeOK, ConvOfTarget, KeyOfConv, OneRequest, manager
<1>2. Framed' /\ Aligned'
  BY DEF SessionIInv, Framed, Aligned
<1>3. InParts' /\ (setup'.closing => OneAtATime')
  BY DEF SessionIInv, OneAtATime, InParts, manager, TcpOfPeer
<1>. QED BY <1>1, <1>2, <1>3 DEF SessionIInv
\* All that comes is an answer of p, or not an answer.
FromPeer(d, p) == \A i \in DOMAIN d : d[i] \in Conv => d[i][1] = p

LEMMA Came ==
  ASSUME NEW d \in Seq(Down), NEW e \in Seq(Down), NEW p, FromPeer(d, p), FromPeer(e, p)
  PROVE  d \o e \in Seq(Down) /\ FromPeer(d \o e, p)
<1>1. d \o e \in Seq(Down) /\ Len(d \o e) = Len(d) + Len(e) /\ Len(d) \in Nat /\ Len(e) \in Nat
  OBVIOUS
<1>2. ASSUME NEW i \in DOMAIN (d \o e), (d \o e)[i] \in Conv PROVE (d \o e)[i][1] = p
  <2>1. CASE i <= Len(d)
    <3>1. i \in DOMAIN d /\ (d \o e)[i] = d[i]
      BY <1>1, <2>1
    <3>. QED BY <1>2, <3>1 DEF FromPeer
  <2>2. CASE i > Len(d)
    <3>1. i - Len(d) \in DOMAIN e /\ (d \o e)[i] = e[i - Len(d)]
      BY <1>1, <2>2
    <3>2. PICK j : j = i - Len(d)
      OBVIOUS
    <3>. QED BY <1>2, <3>1, <3>2 DEF FromPeer
  <2>3. i \in Nat
    BY <1>1
  <2>. QED BY <1>1, <2>1, <2>2, <2>3
<1>. QED BY <1>1, <1>2 DEF FromPeer

LEMMA Gone ==
  ASSUME NEW d \in Seq(Down), d # <<>>, NEW p, FromPeer(d, p)
  PROVE  /\ Tail(d) \in Seq(Down) /\ FromPeer(Tail(d), p)
         /\ Head(d) \in Down /\ (Head(d) \in Conv => Head(d)[1] = p)
<1>1. Tail(d) \in Seq(Down) /\ Len(Tail(d)) = Len(d) - 1 /\ Head(d) = d[1] /\ d[1] \in Down /\ 1 \in DOMAIN d
  OBVIOUS
<1>2. ASSUME NEW i \in DOMAIN Tail(d), Tail(d)[i] \in Conv PROVE Tail(d)[i][1] = p
  <2>1. i + 1 \in DOMAIN d /\ Tail(d)[i] = d[i + 1]
    BY <1>1
  <2>2. PICK j : j = i + 1
    OBVIOUS
  <2>. QED BY <1>2, <2>1, <2>2 DEF FromPeer
<1>. QED BY <1>1, <1>2 DEF FromPeer

LEMMA PeerOf ==
  ASSUME NEW t
  PROVE  TcpOfPeer(t) <=>
         /\ t.sock = "open" \/ (t.sock = "fresh" /\ t.err) => t.peer \in Addr
         /\ t.sock = "fresh" => t.wire = "start"
         /\ FromPeer(t.down, t.peer)
BY DEF TcpOfPeer, FromPeer

LEMMA DownSet ==
  ASSUME NEW t \in Tcps, NEW d \in Seq(Down)
  PROVE  LET u == [t EXCEPT !.down = d] IN
         /\ u \in Tcps /\ u.sock = t.sock /\ u.peer = t.peer /\ u.err = t.err /\ u.eof = t.eof
         /\ u.wire = t.wire /\ u.aligned = t.aligned /\ u.down = d
BY DEF Tcps

LEMMA UdpSet ==
  ASSUME NEW u \in Udps, NEW d \in SUBSET Down
  PROVE  LET v == [u EXCEPT !.down = d] IN v \in Udps /\ v.sock = u.sock /\ v.peer = u.peer /\ v.down = d
BY DEF Udps

LEMMA Sockets ==
  ASSUME SessionIInv
  PROVE  /\ tcp \in Tcps /\ tcp.down \in Seq(Down) /\ tcp.sock \in {"closed", "fresh", "open"}
         /\ tcp.peer \in Addr \cup {None}
         /\ tcp.wire \in {"start", "body", "bad"} /\ tcp.aligned \in BOOLEAN
         /\ udp \in Udps /\ udp.down \in SUBSET Down /\ udp.sock \in BOOLEAN
         /\ TcpOfPeer(tcp) /\ UdpOfPeer(udp)
BY DEF SessionIInv, SessionInv, TypeOK, Tcps, Udps

LEMMA ServerSendsStep ==
  ASSUME SessionIInv, UNCHANGED setup, NEW u \in Down \ Conv, ServerSends(u)
  PROVE  SessionIInv'
<1>1. UNCHANGED <<setup, manager, transport, status, out, cut, half>>
  BY DEF ServerSends
<1>2. faults' \in 0..MaxFaults
  BY ConnectionAssumption DEF ServerSends, SessionIInv, SessionInv, TypeOK
<1>3. ASSUME tcp' = [tcp EXCEPT !.down = Append(@, u)], UNCHANGED udp PROVE SessionIInv'
  <2>. DEFINE d == Append(tcp.down, u)
  <2>1. d \in Seq(Down) /\ FromPeer(d, tcp.peer)
    <3>1. <<u>> \in Seq(Down) /\ FromPeer(<<u>>, tcp.peer) /\ d = tcp.down \o <<u>>
      BY Sockets DEF FromPeer
    <3>2. FromPeer(tcp.down, tcp.peer)
      BY Sockets, PeerOf
    <3>. QED BY <3>1, <3>2, Sockets, Came
  <2>2. tcp' = [tcp EXCEPT !.down = d]
    BY <1>3
  <2>. HIDE DEF d
  <2>3. /\ tcp' \in Tcps /\ tcp'.sock = tcp.sock /\ tcp'.peer = tcp.peer /\ tcp'.err = tcp.err
        /\ tcp'.wire = tcp.wire /\ tcp'.aligned = tcp.aligned /\ tcp'.down = d
    BY <2>1, <2>2, Sockets, DownSet
  <2>4. TcpOfPeer(tcp')
    BY <2>1, <2>3, Sockets, PeerOf
  <2>. QED BY <1>1, <1>2, <1>3, <2>3, <2>4, Sockets, OutsideStep
<1>4. ASSUME udp' = [udp EXCEPT !.down = @ \cup {u}], UNCHANGED tcp PROVE SessionIInv'
  <2>. DEFINE d == udp.down \cup {u}
  <2>1. d \in SUBSET Down
    BY Sockets
  <2>2. udp' \in Udps /\ udp'.sock = udp.sock /\ udp'.peer = udp.peer /\ udp'.down = d
    BY <1>4, <2>1, Sockets, UdpSet
  <2>3. UdpOfPeer(udp')
    BY <2>2, Sockets DEF UdpOfPeer
  <2>. QED BY <1>1, <1>2, <1>4, <2>2, <2>3, Sockets, OutsideStep
<1>. QED BY <1>3, <1>4 DEF ServerSends

LEMMA TcpEndsStep ==
  ASSUME SessionIInv, UNCHANGED setup, TcpEnds
  PROVE  SessionIInv'
<1>1. UNCHANGED <<setup, manager, transport, status, out, cut, half, udp>> /\ tcp' = [tcp EXCEPT !.eof = TRUE]
  BY DEF TcpEnds
<1>2. faults' \in 0..MaxFaults
  BY ConnectionAssumption DEF TcpEnds, SessionIInv, SessionInv, TypeOK
<1>3. SameButErr(tcp, tcp') /\ tcp'.err = tcp.err /\ tcp'.aligned = tcp.aligned
  BY <1>1, Sockets, EofSet
<1>4. TcpOfPeer(tcp')
  BY <1>3, Sockets, PeerOf DEF SameButErr
<1>. QED BY <1>1, <1>2, <1>3, <1>4, Sockets, OutsideStep DEF SameButErr

LEMMA TcpLateStep ==
  ASSUME SessionIInv, UNCHANGED setup, TcpLate
  PROVE  SessionIInv'
<1>1. /\ UNCHANGED <<setup, manager, transport, status, out, cut, half, udp, faults>>
      /\ tcp.sock = "fresh" /\ tcp.err /\ tcp' = [Tcp("open", tcp.peer) EXCEPT !.err = TRUE]
  BY DEF TcpLate
<1>2. tcp.peer \in Addr
  BY <1>1, Sockets, PeerOf
<1>. DEFINE v == Tcp("open", tcp.peer)
<1>3. /\ v \in Tcps /\ v.sock = "open" /\ v.peer = tcp.peer /\ v.wire = "start" /\ v.aligned /\ v.down = <<>>
  BY <1>2, TcpMade
<1>4. tcp' = [v EXCEPT !.err = TRUE]
  BY <1>1
<1>. HIDE DEF v
<1>5. SameButErr(v, tcp') /\ tcp'.err /\ tcp'.aligned
  BY <1>3, <1>4, ErrSet
<1>6. FromPeer(<<>>, tcp.peer)
  BY NothingWaits DEF FromPeer
<1>7. TcpOfPeer(tcp')
  BY <1>2, <1>3, <1>5, <1>6, PeerOf DEF SameButErr
<1>8. faults' \in 0..MaxFaults
  BY <1>1 DEF SessionIInv, SessionInv, TypeOK
<1>. QED BY <1>1, <1>3, <1>5, <1>7, <1>8, Sockets, OutsideStep DEF SameButErr

LEMMA UdpLostStep ==
  ASSUME SessionIInv, UNCHANGED setup, NEW u \in Down, UdpLost(u)
  PROVE  SessionIInv'
<1>1. UNCHANGED <<setup, manager, transport, status, out, cut, half, tcp, faults>>
  BY DEF UdpLost
<1>. DEFINE d == udp.down \ {u}
<1>2. d \in SUBSET Down /\ udp' = [udp EXCEPT !.down = d]
  BY Sockets DEF UdpLost
<1>3. udp' \in Udps /\ udp'.sock = udp.sock /\ udp'.peer = udp.peer /\ udp'.down = d
  BY <1>2, Sockets, UdpSet
<1>4. UdpOfPeer(udp')
  BY <1>3, Sockets DEF UdpOfPeer
<1>5. faults' \in 0..MaxFaults
  BY <1>1 DEF SessionIInv, SessionInv, TypeOK
<1>. QED BY <1>1, <1>3, <1>4, <1>5, Sockets, OutsideStep
LEMMA SendOneCodeFullStep ==
  ASSUME SessionIInv, UNCHANGED setup, SendOneCodeFull
  PROVE  SessionIInv'
<1>1. SessionInv'
  BY DEF SessionIInv, SessionInv, TypeOK, ConvOfTarget, KeyOfConv, OneRequest, SendOneCodeFull
<1>. QED BY <1>1 DEF SendOneCodeFull, SessionIInv, Framed, Aligned, OneAtATime, InParts

-----------------------------------------------------------------------------
(* What waits, and what of it is sent *)

OneAsk(q) == \A i, j \in DOMAIN q : q[i] = "ask" /\ q[j] = "ask" => i = j

\* A queue that SendData may find.
Waiting(q) ==
  /\ q \in Seq(Unit) /\ Len(q) <= MaxOut /\ OneAsk(q) /\ (cut => q # <<>>)
  /\ setup.closing /\ transport = "tcp" /\ tcp.sock # "closed" => KeyFirst(tcp.wire, q)

LEMMA Appended ==
  ASSUME NEW q, Waiting(q), Len(q) < MaxOut, NEW x \in {"ask", "seg"},
         x = "ask" => \A i \in DOMAIN q : q[i] # "ask"
  PROVE  Waiting(Append(q, x))
<1>. DEFINE r == Append(q, x)
<1>0. q \in Seq(Unit) /\ Len(q) \in Nat /\ x \in Unit /\ MaxOut \in Nat /\ x # "key"
  BY ConnectionAssumption DEF Waiting, Unit
<1>1. /\ r \in Seq(Unit) /\ Len(r) = Len(q) + 1 /\ r # <<>> /\ DOMAIN r = 1..(Len(q) + 1)
      /\ DOMAIN q = 1..Len(q) /\ r[Len(q) + 1] = x
      /\ \A i \in DOMAIN q : r[i] = q[i]
  BY <1>0
<1>2. \A i \in DOMAIN r : (i \in DOMAIN q /\ r[i] = q[i]) \/ (i = Len(q) + 1 /\ r[i] = x)
  BY <1>0, <1>1
<1>3. Len(r) <= MaxOut
  BY <1>0, <1>1
<1>. HIDE DEF r
<1>4. OneAsk(r)
  BY <1>2 DEF OneAsk, Waiting
<1>5. ASSUME KeyFirst(tcp.wire, q) PROVE KeyFirst(tcp.wire, r)
  <2>1. ASSUME NEW i \in DOMAIN r PROVE r[i] = "key" <=> (tcp.wire = "start" /\ i = 1)
    <3>1. CASE i \in DOMAIN q /\ r[i] = q[i]
      BY <1>5, <3>1 DEF KeyFirst
    <3>2. CASE i = Len(q) + 1 /\ r[i] = x
      <4>1. tcp.wire = "start" => Len(q) # 0
        BY <1>0, <1>5 DEF KeyFirst
      <4>. QED BY <1>0, <3>2, <4>1
    <3>. QED BY <1>2, <3>1, <3>2
  <2>. QED BY <1>1, <2>1 DEF KeyFirst
<1>. QED BY <1>1, <1>3, <1>4, <1>5 DEF Waiting, r

LEMMA OutWaits ==
  ASSUME SessionIInv
  PROVE  Waiting(out)
BY DEF SessionIInv, SessionInv, TypeOK, OneRequest, OneAtATime, Waiting, OneAsk

LEMMA AskWaits ==
  ASSUME SessionIInv, Len(GetConvFromServer) <= MaxOut
  PROVE  Waiting(GetConvFromServer)
<1>1. CASE GetConvFromServer = out
  BY <1>1, OutWaits
<1>2. CASE GetConvFromServer # out
  <2>1. GetConvFromServer = Append(out, "ask") /\ (out = <<>> \/ out = <<"key">>)
    BY <1>2 DEF GetConvFromServer
  <2>2. \A i \in DOMAIN out : out[i] # "ask"
    BY <2>1, KeyOnly, NothingWaits
  <2>3. Len(out) < MaxOut
    BY <2>1, ConnectionAssumption DEF SessionIInv, SessionInv, TypeOK
  <2>. QED BY <2>1, <2>2, <2>3, OutWaits, Appended
<1>. QED BY <1>1, <1>2

LEMMA FlushedWaits ==
  ASSUME NEW q, Waiting(q), NEW r \in Flushed(q)
  PROVE  Waiting(r)
BY Appended DEF Flushed

LEMMA RestWaits ==
  ASSUME NEW r \in Seq(Unit), Len(r) <= MaxOut, OneAsk(r), NEW n \in 0..Len(r)
  PROVE  LET q == SubSeq(r, n + 1, Len(r)) IN
         /\ q \in Seq(Unit) /\ Len(q) = Len(r) - n /\ Len(q) <= MaxOut /\ OneAsk(q)
         /\ \A i \in DOMAIN q : n + i \in DOMAIN r /\ q[i] = r[n + i]
<1>. DEFINE q == SubSeq(r, n + 1, Len(r))
<1>0. n \in Nat /\ Len(r) \in Nat /\ MaxOut \in Nat /\ n <= Len(r)
  BY ConnectionAssumption
<1>1. q \in Seq(Unit) /\ Len(q) = Len(r) - n /\ DOMAIN q = 1..(Len(r) - n) /\ DOMAIN r = 1..Len(r)
  BY <1>0
<1>2. \A i \in DOMAIN q : n + i \in DOMAIN r /\ q[i] = r[n + i]
  <2>1. ASSUME NEW i \in 1..(Len(r) - n) PROVE n + i \in 1..Len(r) /\ q[i] = r[n + i]
    <3>1. i \in Nat /\ 1 <= i /\ i <= Len(r) - n
      BY <1>0
    <3>2. n + i \in 1..Len(r) /\ n + 1 + i - 1 = n + i
      BY <1>0, <3>1
    <3>. QED BY <1>0, <3>1, <3>2
  <2>. QED BY <1>1, <2>1
<1>. HIDE DEF q
<1>3. OneAsk(q)
  <2>1. ASSUME NEW i \in DOMAIN q, NEW j \in DOMAIN q, q[i] = "ask", q[j] = "ask" PROVE i = j
    <3>1. PICK k, l : k = n + i /\ l = n + j
      OBVIOUS
    <3>2. k \in DOMAIN r /\ l \in DOMAIN r /\ r[k] = "ask" /\ r[l] = "ask"
      BY <1>2, <2>1, <3>1
    <3>3. k = l
      BY <3>2 DEF OneAsk
    <3>. QED BY <1>0, <1>1, <3>1, <3>3
  <2>. QED BY <2>1 DEF OneAsk
<1>4. Len(q) <= MaxOut
  BY <1>0, <1>1
<1>. QED BY <1>1, <1>2, <1>3, <1>4 DEF q

LEMMA SentFacts ==
  ASSUME NEW r \in Seq(Unit), NEW n \in 0..Len(r)
  PROVE  LET q == SubSeq(r, 1, n) IN
         /\ Len(q) = n /\ DOMAIN q = 1..n /\ \A i \in DOMAIN q : i \in DOMAIN r /\ q[i] = r[i]
         /\ n = 0 => q = <<>>
<1>1. n \in Nat /\ n <= Len(r) /\ Len(r) \in Nat
  OBVIOUS
<1>. QED BY <1>1

LEMMA ParsedFacts ==
  ASSUME NEW r \in Seq(Unit), Len(r) <= MaxOut, OneAsk(r), NEW n \in 0..Len(r),
         NEW w \in {"start", "body"}, KeyFirst(w, r)
  PROVE  LET v == Parsed(w, SubSeq(r, 1, n)) IN
         v \in {"start", "body"} /\ KeyFirst(v, SubSeq(r, n + 1, Len(r)))
<1>. DEFINE sent == SubSeq(r, 1, n)
            rest == SubSeq(r, n + 1, Len(r))
            v == Parsed(w, sent)
<1>1. /\ rest \in Seq(Unit) /\ Len(rest) = Len(r) - n
      /\ \A i \in DOMAIN rest : n + i \in DOMAIN r /\ rest[i] = r[n + i]
  BY RestWaits
<1>2. /\ Len(sent) = n /\ DOMAIN sent = 1..n /\ (n = 0 => sent = <<>>)
      /\ \A i \in DOMAIN sent : i \in DOMAIN r /\ sent[i] = r[i]
  BY SentFacts
<1>3. n \in Nat /\ Len(r) \in Nat /\ DOMAIN rest \subseteq Nat \ {0}
  BY <1>1
<1>. HIDE DEF sent, rest
<1>4. CASE n = 0
  <2>1. v = w
    BY <1>2, <1>4 DEF Parsed
  <2>2. w = "start" => rest # <<>>
    <3>1. w = "start" => Len(r) # 0
      BY DEF KeyFirst
    <3>. QED BY <1>1, <1>4, <3>1
  <2>3. ASSUME NEW i \in DOMAIN rest PROVE rest[i] = "key" <=> (w = "start" /\ i = 1)
    <3>1. n + i = i
      BY <1>3, <1>4
    <3>2. i \in DOMAIN r /\ rest[i] = r[i]
      BY <1>1, <3>1
    <3>. QED BY <3>2 DEF KeyFirst
  <2>4. KeyFirst(w, rest)
    BY <2>2, <2>3 DEF KeyFirst
  <2>. QED BY <2>1, <2>4 DEF rest, sent
<1>5. CASE n # 0
  <2>1. sent # <<>>
    BY <1>2, <1>5
  <2>2. KeyFirst(w, sent)
    BY <1>2, <2>1 DEF KeyFirst
  <2>3. v = "body"
    BY <2>1, <2>2 DEF Parsed
  <2>4. ASSUME NEW i \in DOMAIN rest PROVE rest[i] # "key"
    <3>1. PICK k : k = n + i
      OBVIOUS
    <3>2. k \in DOMAIN r /\ rest[i] = r[k]
      BY <1>1, <3>1
    <3>3. k # 1
      BY <1>3, <1>5, <3>1
    <3>. QED BY <3>2, <3>3 DEF KeyFirst
  <2>5. KeyFirst("body", rest)
    BY <2>4 DEF KeyFirst
  <2>. QED BY <2>3, <2>5 DEF rest, sent
<1>. QED BY <1>4, <1>5

LEMMA AnswersFacts ==
  ASSUME SessionIInv, NEW units, NEW p, NEW ans \in Answers(units, p), units # <<>> => p \in Addr
  PROVE  ans \in Seq(Down) /\ FromPeer(ans, p)
<1>1. CASE ans = <<>>
  BY <1>1, NothingWaits, EmptySeq DEF FromPeer
<1>2. CASE ans # <<>>
  <2>1. PICK n \in setup.num : ans = <<(<<p, n>>)>> /\ "ask" \in {units[i] : i \in DOMAIN units}
    BY <1>2 DEF Answers
  <2>2. units # <<>>
    BY <2>1, NothingWaits
  <2>3. n \in Num
    BY ConnectionAssumption DEF SessionIInv, SessionInv, TypeOK
  <2>4. <<p, n>> \in Down /\ <<p, n>>[1] = p
    BY <2>2, <2>3 DEF Down, Conv
  <2>5. PICK x : x = <<p, n>>
    OBVIOUS
  <2>6. <<x>> \in Seq(Down) /\ DOMAIN <<x>> = {1} /\ <<x>>[1] = x
    BY <2>4, <2>5
  <2>7. ans = <<x>> /\ x[1] = p
    BY <2>1, <2>4, <2>5
  <2>. QED BY <2>6, <2>7 DEF FromPeer
<1>. QED BY <1>1, <1>2
-----------------------------------------------------------------------------
(* What arrives *)

\* The manager's part of SessionInv, when what has arrived is taken.
Took1 == /\ conv' \in Conv \cup {None} /\ key' \in Conv \cup {None}
         /\ kcpStatus' \in {"unconnect", "connect", "exit"}
         /\ KeyOfConv' /\ ConvOfTarget'

LEMMA TookFacts ==
  ASSUME SessionIInv, UNCHANGED <<setup, target>>,
         \/ TookNothing
         \/ \E u \in Down : Took(u) /\ (setup.closing /\ u \in Conv => u[1] = target)
  PROVE  Took1
<1>1. /\ conv \in Conv \cup {None} /\ key \in Conv \cup {None}
      /\ kcpStatus \in {"unconnect", "connect", "exit"}
      /\ KeyOfConv /\ ConvOfTarget
  BY DEF SessionIInv, SessionInv, TypeOK
<1>2. CASE TookNothing
  BY <1>1, <1>2 DEF Took1, TookNothing, KeyOfConv, ConvOfTarget
<1>3. ASSUME NEW u \in Down, Took(u), setup.closing /\ u \in Conv => u[1] = target PROVE Took1
  <2>1. kcpStatus' \in {"unconnect", "connect", "exit"}
    BY <1>1, <1>3 DEF Took
  <2>2. CASE u \in Conv /\ conv = None
    BY <1>1, <1>3, <2>1, <2>2 DEF Took1, Took, KeyOfConv, ConvOfTarget
  <2>3. CASE ~ (u \in Conv /\ conv = None)
    <3>1. UNCHANGED <<conv, key>>
      BY <1>3, <2>3 DEF Took
    <3>. QED BY <1>1, <2>1, <3>1 DEF Took1, KeyOfConv, ConvOfTarget
  <2>. QED BY <2>2, <2>3
<1>. QED BY <1>2, <1>3

\* A queue that SendData may leave.
Left == /\ out' \in Seq(Unit) /\ Len(out') <= MaxOut /\ OneRequest'
        /\ cut' \in BOOLEAN /\ (cut' => out' # <<>>)

LEMMA ReceiveTcpStep ==
  ASSUME SessionIInv, UNCHANGED <<setup, use, target, faults, udp, transport>>, transport = "tcp",
         NEW t \in Tcps, ReceiveTcp(t), TcpOfPeer(t), t.sock = tcp.sock, t.peer = tcp.peer,
         t.aligned = tcp.aligned, setup.closing => t.wire # "bad", Left,
         cut' => tcp.sock # "fresh",
         setup.closing /\ tcp.sock # "closed" => KeyFirst(t.wire, out')
  PROVE  SessionIInv'
<1>. DEFINE Same == tcp'.sock = t.sock /\ tcp'.peer = t.peer /\ tcp'.wire = t.wire /\ tcp'.aligned = t.aligned
<1>0. /\ setup \in Setups /\ use \in [udp : BOOLEAN, tcp : BOOLEAN] /\ target \in Addr
      /\ status \in {"unconnect", "connecting", "success"} /\ half \in BOOLEAN
      /\ faults \in 0..MaxFaults
  BY DEF SessionIInv, SessionInv, TypeOK
<1>1. t.down \in Seq(Down) /\ FromPeer(t.down, t.peer)
  BY PeerOf DEF Tcps
<1>2. NowSuccess => status' \in {"unconnect", "connecting", "success"} /\ (status' = "unconnect" => status = "unconnect")
  BY <1>0 DEF NowSuccess
<1>3. /\ tcp' \in Tcps /\ TcpOfPeer(tcp')
      /\ Same \/ (tcp' = Closed /\ tcp'.sock = "closed" /\ tcp'.wire # "bad")
      /\ status' \in {"unconnect", "connecting", "success"}
      /\ status' = "unconnect" => status = "unconnect" \/ tcp'.sock = "closed"
      /\ half' \in BOOLEAN /\ (half' => half \/ t.sock = "open")
      /\ Took1
  <2>1. CASE TookNothing /\ UNCHANGED <<half, status>> /\ tcp' = t
    BY <1>0, <2>1, TookFacts
  <2>2. CASE t.sock = "open" /\ half' = TRUE /\ tcp' = t /\ NowSuccess /\ TookNothing
    BY <1>2, <2>2, TookFacts
  <2>3. CASE /\ t.sock = "open" /\ t.down # <<>>
             /\ half' = FALSE /\ tcp' = [t EXCEPT !.down = Tail(@)] /\ NowSuccess
             /\ Took(Head(t.down))
    <3>1. /\ Tail(t.down) \in Seq(Down) /\ FromPeer(Tail(t.down), t.peer)
          /\ Head(t.down) \in Down /\ (Head(t.down) \in Conv => Head(t.down)[1] = t.peer)
      BY <1>1, <2>3, Gone
    <3>2. PICK d \in Seq(Down) : d = Tail(t.down)
      BY <3>1
    <3>3. tcp' = [t EXCEPT !.down = d]
      BY <2>3, <3>2
    <3>4. /\ tcp' \in Tcps /\ tcp'.sock = t.sock /\ tcp'.peer = t.peer /\ tcp'.err = t.err
          /\ tcp'.wire = t.wire /\ tcp'.aligned = t.aligned /\ tcp'.down = d
      BY <3>3, DownSet
    <3>5. TcpOfPeer(tcp')
      BY <3>1, <3>2, <3>4, PeerOf
    <3>6. setup.closing => t.peer = target
      BY <2>3 DEF SessionIInv, OneAtATime
    <3>7. Took1
      <4>1. PICK u \in Down : u = Head(t.down)
        BY <3>1
      <4>2. Took(u) /\ (setup.closing /\ u \in Conv => u[1] = target)
        BY <2>3, <3>1, <3>6, <4>1
      <4>. QED BY <4>2, TookFacts
    <3>. QED BY <1>2, <2>3, <3>4, <3>5, <3>7
  <2>4. CASE tcp' = Closed /\ status' = "unconnect" /\ TookNothing /\ UNCHANGED half
    <3>1. Closed.wire # "bad"
      BY ClosedFacts DEF Unused
    <3>. QED BY <1>0, <2>4, <3>1, ClosedFacts, TookFacts
  <2>. QED BY <2>1, <2>2, <2>3, <2>4 DEF ReceiveTcp
<1>4. TypeOK'
  <2>1. udp \in Udps
    BY Sockets
  <2>. QED BY <1>0, <1>3, <2>1 DEF TypeOK, Took1, Left
<1>5. SessionInv'
  BY <1>3, <1>4 DEF SessionInv, Took1, Left
<1>6. Framed' /\ Aligned'
  <2>1. setup.closing /\ tcp.sock = "open" => tcp.aligned
    BY DEF SessionIInv, Aligned
  <2>. QED BY <1>3, <2>1 DEF Framed, Aligned
<1>7. UdpOfPeer(udp')
  BY Sockets
<1>8. InParts'
  <2>1. half => tcp.sock # "fresh"
    BY DEF SessionIInv, InParts
  <2>2. tcp'.sock = tcp.sock \/ tcp'.sock = "closed"
    BY <1>3
  <2>. QED BY <1>3, <2>1, <2>2 DEF InParts
<1>9. ASSUME setup.closing PROVE OneAtATime'
  <2>1. /\ tcp.sock # "closed" => tcp.peer = target
        /\ status = "unconnect" => tcp.sock = "closed"
    BY <1>9 DEF SessionIInv, OneAtATime
  <2>2. CASE Same
    BY <1>3, <1>9, <2>1, <2>2 DEF OneAtATime
  <2>3. CASE tcp'.sock = "closed"
    BY <1>3, <1>9, <2>1, <2>3 DEF OneAtATime
  <2>. QED BY <1>3, <2>2, <2>3
<1>. QED BY <1>3, <1>5, <1>6, <1>7, <1>8, <1>9 DEF SessionIInv

LEMMA UpdateTcpStep ==
  ASSUME SessionIInv, UNCHANGED <<setup, use, target, faults, transport>>, transport = "tcp",
         NEW q, Waiting(q), UpdateTcp(q)
  PROVE  SessionIInv'
<1>1. PICK r \in Flushed(q) : \E n \in 0..Len(r), c \in BOOLEAN :
        LET able == tcp.sock = "open" /\ ~ tcp.eof
            sent == SubSeq(r, 1, n)
        IN  /\ (n > 0 \/ (c /\ ~cut)) => able
            /\ c => n < Len(r)
            /\ c = (c \/ (cut /\ n = 0))
            /\ out' = SubSeq(r, n + 1, Len(r)) /\ cut' = c
            /\ \E ans \in Answers(sent, tcp.peer) :
                 /\ Len(tcp.down \o ans) <= MaxDown
                 /\ ReceiveTcp([tcp EXCEPT !.wire = Parsed(@, sent), !.down = @ \o ans])
            /\ UNCHANGED udp
  BY DEF UpdateTcp
<1>2. Waiting(r) /\ r \in Seq(Unit) /\ Len(r) <= MaxOut /\ OneAsk(r)
  BY FlushedWaits DEF Waiting
<1>3. PICK n \in 0..Len(r), c \in BOOLEAN :
        /\ (n > 0 \/ (c /\ ~cut)) => tcp.sock = "open"
        /\ c => n < Len(r)
        /\ out' = SubSeq(r, n + 1, Len(r)) /\ cut' = c
        /\ \E ans \in Answers(SubSeq(r, 1, n), tcp.peer) :
             ReceiveTcp([tcp EXCEPT !.wire = Parsed(@, SubSeq(r, 1, n)), !.down = @ \o ans])
        /\ UNCHANGED udp
  BY <1>1
<1>. DEFINE sent == SubSeq(r, 1, n)
            v == Parsed(tcp.wire, sent)
<1>4. PICK ans \in Answers(sent, tcp.peer) :
        ReceiveTcp([tcp EXCEPT !.wire = Parsed(@, sent), !.down = @ \o ans])
  BY <1>3
<1>5. n \in Nat /\ Len(r) \in Nat /\ Len(sent) = n /\ (n = 0 => sent = <<>>)
  BY <1>2, SentFacts
<1>6. /\ out' \in Seq(Unit) /\ Len(out') = Len(r) - n /\ Len(out') <= MaxOut /\ OneAsk(out')
  BY <1>2, <1>3, RestWaits
<1>7. Left
  <2>1. cut' => out' # <<>>
    <3>1. c => Len(out') # 0
      BY <1>3, <1>5, <1>6
    <3>. QED BY <1>3, <3>1, NothingWaits
  <2>. QED BY <1>3, <1>6, <2>1 DEF Left, OneRequest, OneAsk
<1>8. n > 0 => tcp.sock = "open"
  BY <1>3
<1>. HIDE DEF sent
<1>9. v \in {"start", "body", "bad"}
  BY Sockets DEF Parsed
<1>10. setup.closing => v # "bad" /\ (tcp.sock # "closed" => KeyFirst(v, out'))
  <2>. SUFFICES ASSUME setup.closing PROVE v # "bad" /\ (tcp.sock # "closed" => KeyFirst(v, out'))
    OBVIOUS
  <2>1. tcp.wire \in {"start", "body"}
    BY Sockets DEF SessionIInv, Framed
  <2>2. CASE tcp.sock = "closed"
    <3>1. n = 0
      BY <1>5, <1>8, <2>2
    <3>. QED BY <1>5, <2>1, <2>2, <3>1 DEF Parsed
  <2>3. CASE tcp.sock # "closed"
    <3>1. KeyFirst(tcp.wire, r)
      BY <1>2, <2>3 DEF Waiting
    <3>2. v \in {"start", "body"} /\ KeyFirst(v, SubSeq(r, n + 1, Len(r)))
      BY <1>2, <2>1, <3>1, ParsedFacts DEF sent
    <3>. QED BY <1>3, <3>2
  <2>. QED BY <2>2, <2>3
<1>11. tcp.sock # "open" => v = tcp.wire
  BY <1>5, <1>8 DEF Parsed
<1>12. cut' => tcp.sock # "fresh"
  <2>1. cut => tcp.sock # "fresh"
    BY DEF SessionIInv, InParts
  <2>. QED BY <1>3, <2>1
<1>13. ans \in Seq(Down) /\ FromPeer(ans, tcp.peer)
  <2>1. sent # <<>> => tcp.peer \in Addr
    <3>1. sent # <<>> => n > 0
      BY <1>5
    <3>. QED BY <1>8, <3>1, Sockets, PeerOf
  <2>. QED BY <2>1, AnswersFacts
<1>14. tcp.down \o ans \in Seq(Down) /\ FromPeer(tcp.down \o ans, tcp.peer)
  BY <1>13, Sockets, PeerOf, Came
<1>15. PICK d \in Seq(Down) : d = tcp.down \o ans
  BY <1>14
<1>. DEFINE t == [tcp EXCEPT !.wire = v, !.down = d]
<1>16. ReceiveTcp(t)
  BY <1>4, <1>15
<1>. HIDE DEF v
<1>17. /\ t \in Tcps /\ t.sock = tcp.sock /\ t.peer = tcp.peer /\ t.err = tcp.err /\ t.aligned = tcp.aligned
       /\ t.wire = v /\ t.down = d
  <2>1. tcp \in Tcps
    BY Sockets
  <2>. QED BY <1>9, <2>1 DEF Tcps
<1>. HIDE DEF t
<1>18. TcpOfPeer(t)
  <2>1. tcp.sock = "fresh" => v = "start"
    BY <1>11, Sockets, PeerOf
  <2>. QED BY <1>14, <1>15, <1>17, <2>1, Sockets, PeerOf
<1>19. UNCHANGED udp
  BY <1>3
<1>. QED BY <1>7, <1>10, <1>12, <1>16, <1>17, <1>18, <1>19, ReceiveTcpStep
LEMMA ReceiveUdpStep ==
  ASSUME SessionIInv, UNCHANGED <<setup, use, target, faults, transport, cut, half, tcp>>,
         transport = "udp", Left, NEW heard \in SUBSET Down,
         \A d \in heard : d \in Conv => d[1] = udp.peer, ReceiveUdp(heard)
  PROVE  SessionIInv'
<1>0. /\ setup \in Setups /\ use \in [udp : BOOLEAN, tcp : BOOLEAN] /\ target \in Addr
      /\ status \in {"unconnect", "connecting", "success"} /\ half \in BOOLEAN
      /\ faults \in 0..MaxFaults
  BY DEF SessionIInv, SessionInv, TypeOK
<1>1. udp.down \in SUBSET Down /\ \A d \in udp.down : d \in Conv => d[1] = udp.peer
  BY Sockets DEF UdpOfPeer
<1>2. ASSUME NEW d \in SUBSET (udp.down \cup heard), udp' = [udp EXCEPT !.down = d]
      PROVE  udp' \in Udps /\ udp'.peer = udp.peer /\ UdpOfPeer(udp')
  <2>1. udp' \in Udps /\ udp'.sock = udp.sock /\ udp'.peer = udp.peer /\ udp'.down = d
    BY <1>1, <1>2, Sockets, UdpSet
  <2>. QED BY <1>1, <1>2, <2>1, Sockets DEF UdpOfPeer
<1>3. setup.closing => udp.peer = target
  BY DEF SessionIInv, OneAtATime
<1>4. /\ udp' \in Udps /\ udp'.peer = udp.peer /\ UdpOfPeer(udp') /\ Took1
      /\ status' \in {"unconnect", "connecting", "success"}
  <2>1. CASE TookNothing /\ UNCHANGED status /\ udp' = [udp EXCEPT !.down = @ \cup heard]
    <3>1. udp.down \cup heard \in SUBSET (udp.down \cup heard)
      OBVIOUS
    <3>. QED BY <1>0, <1>2, <2>1, <3>1, TookFacts
  <2>2. ASSUME NEW u \in udp.down, NEW kept \in SUBSET {u},
               udp' = [udp EXCEPT !.down = (@ \ {u}) \cup heard \cup kept], NowSuccess, Took(u)
        PROVE  /\ udp' \in Udps /\ udp'.peer = udp.peer /\ UdpOfPeer(udp') /\ Took1
               /\ status' \in {"unconnect", "connecting", "success"}
    <3>1. (udp.down \ {u}) \cup heard \cup kept \in SUBSET (udp.down \cup heard)
      OBVIOUS
    <3>2. u \in Down /\ (setup.closing /\ u \in Conv => u[1] = target)
      BY <1>1, <1>3
    <3>3. Took1
      BY <2>2, <3>2, TookFacts
    <3>4. status' \in {"unconnect", "connecting", "success"}
      BY <1>0, <2>2 DEF NowSuccess
    <3>. QED BY <1>2, <2>2, <3>1, <3>3, <3>4
  <2>. QED BY <2>1, <2>2 DEF ReceiveUdp
<1>5. TypeOK'
  BY <1>0, <1>4, Sockets DEF TypeOK, Took1, Left
<1>6. SessionInv'
  BY <1>4, <1>5 DEF SessionInv, Took1, Left
<1>7. Framed' /\ Aligned' /\ InParts' /\ (setup'.closing => OneAtATime')
  BY <1>4 DEF SessionIInv, Framed, Aligned, InParts, OneAtATime
<1>. QED BY <1>4, <1>6, <1>7, Sockets DEF SessionIInv

LEMMA UpdateUdpStep ==
  ASSUME SessionIInv, UNCHANGED <<setup, use, target, faults, transport>>, transport = "udp",
         NEW q, Waiting(q), UpdateUdp(q)
  PROVE  SessionIInv'
<1>0. q \in Seq(Unit) /\ Len(q) <= MaxOut /\ OneAsk(q) /\ Len(q) \in Nat
  BY DEF Waiting
<1>1. PICK n \in 0..Len(q) :
        /\ n > 0 => udp.sock
        /\ \E ans \in Answers(SubSeq(q, 1, n), udp.peer) :
             LET heard == IF "udp" \in setup.reach THEN {ans[i] : i \in DOMAIN ans} ELSE {}
             IN  /\ out' = SubSeq(q, n + 1, Len(q))
                 /\ ReceiveUdp(heard)
                 /\ UNCHANGED <<cut, half, tcp>>
  <2>1. ASSUME NEW n \in {0} \cup IF conv = None /\ udp.sock THEN {Len(q)} ELSE {}
        PROVE  n \in 0..Len(q) /\ (n > 0 => udp.sock)
    BY <1>0
  <2>. QED BY <2>1 DEF UpdateUdp
<1>. DEFINE sent == SubSeq(q, 1, n)
<1>2. n \in Nat /\ Len(sent) = n /\ (n = 0 => sent = <<>>)
  BY <1>0, SentFacts
<1>3. out' = SubSeq(q, n + 1, Len(q)) /\ UNCHANGED <<cut, half, tcp>>
  BY <1>1
<1>4. PICK ans \in Answers(sent, udp.peer) :
        ReceiveUdp(IF "udp" \in setup.reach THEN {ans[i] : i \in DOMAIN ans} ELSE {})
  BY <1>1
<1>5. Left
  <2>1. out' \in Seq(Unit) /\ Len(out') <= MaxOut /\ OneAsk(out')
    BY <1>0, <1>3, RestWaits
  <2>2. ~ cut /\ cut \in BOOLEAN
    BY DEF SessionIInv, SessionInv, TypeOK, InParts
  <2>. QED BY <1>3, <2>1, <2>2 DEF Left, OneRequest, OneAsk
<1>. HIDE DEF sent
<1>6. ans \in Seq(Down) /\ FromPeer(ans, udp.peer)
  <2>1. sent # <<>> => udp.peer \in Addr
    <3>1. sent # <<>> => n > 0
      BY <1>2
    <3>. QED BY <1>1, <3>1, Sockets DEF UdpOfPeer
  <2>. QED BY <2>1, AnswersFacts
<1>7. PICK heard \in SUBSET Down : ReceiveUdp(heard) /\ \A d \in heard : d \in Conv => d[1] = udp.peer
  <2>. DEFINE heard == IF "udp" \in setup.reach THEN {ans[i] : i \in DOMAIN ans} ELSE {}
  <2>1. heard \in SUBSET Down
    BY <1>6
  <2>2. \A d \in heard : d \in Conv => d[1] = udp.peer
    BY <1>6 DEF FromPeer
  <2>3. ReceiveUdp(heard)
    BY <1>4
  <2>. HIDE DEF heard
  <2>. QED BY <2>1, <2>2, <2>3
<1>. QED BY <1>3, <1>5, <1>7, ReceiveUdpStep

LEMMA UpdateStep ==
  ASSUME SessionIInv, UNCHANGED <<setup, use, target, faults>>, NEW q, Waiting(q), Update(q)
  PROVE  SessionIInv'
<1>1. CASE transport = "tcp" /\ UpdateTcp(q) /\ UNCHANGED transport
  BY <1>1, UpdateTcpStep
<1>2. CASE transport = "udp" /\ UpdateUdp(q) /\ UNCHANGED transport
  BY <1>2, UpdateUdpStep
<1>3. CASE out' = q /\ UNCHANGED <<transport, status, kcpStatus, conv, key, cut, half, tcp, udp>>
  <2>1. SessionInv'
    BY <1>3 DEF SessionIInv, SessionInv, TypeOK, ConvOfTarget, KeyOfConv, OneRequest, Waiting, OneAsk
  <2>. QED BY <1>3, <2>1 DEF SessionIInv, Framed, Aligned, InParts, OneAtATime, Waiting
<1>. QED BY <1>1, <1>2, <1>3 DEF Update

-----------------------------------------------------------------------------
(* The invariant *)

LEMMA InitHolds ==
  ASSUME Init
  PROVE  SessionIInv
<1>1. /\ tcp \in Tcps /\ tcp.sock = "fresh" /\ ~ tcp.err /\ tcp.wire = "start" /\ tcp.down = <<>>
  BY TcpMade DEF Init
<1>2. udp \in Udps /\ udp.sock = FALSE /\ udp.down = {}
  BY UdpMade DEF Init
<1>3. /\ setup \in Setups /\ use \in [udp : BOOLEAN, tcp : BOOLEAN] /\ target \in Addr
      /\ transport = "unknown" /\ status = "unconnect" /\ kcpStatus = "connect"
      /\ conv = None /\ key = None /\ out = <<>> /\ cut = FALSE /\ half = FALSE
  BY ConnectionAssumption DEF Init
<1>4. 0 <= MaxOut /\ faults \in 0..MaxFaults
  BY ConnectionAssumption DEF Init
<1>5. TypeOK
  BY <1>1, <1>2, <1>3, <1>4, NothingWaits DEF TypeOK
<1>6. SessionInv
  BY <1>3, <1>5, NothingWaits DEF SessionInv, ConvOfTarget, KeyOfConv, OneRequest
<1>7. TcpOfPeer(tcp) /\ UdpOfPeer(udp)
  BY <1>1, <1>2, NothingWaits DEF TcpOfPeer, UdpOfPeer
<1>. QED BY <1>1, <1>3, <1>6, <1>7 DEF SessionIInv, Framed, Aligned, InParts, OneAtATime

LEMMA StepKeeps ==
  ASSUME SessionIInv, [Next]_<<vars, setup>>
  PROVE  SessionIInv'
<1>0. CASE UNCHANGED <<vars, setup>>
  BY <1>0 DEF vars, SessionIInv, SessionInv, TypeOK, ConvOfTarget, KeyOfConv, OneRequest, Framed,
              Aligned, InParts, OneAtATime, TcpOfPeer, UdpOfPeer
<1>. SUFFICES ASSUME Step, UNCHANGED setup PROVE SessionIInv'
  BY <1>0 DEF Next
<1>1. CASE ConnectLogicServer
  BY <1>1, ConnectStep
<1>2. CASE ReconnectLogicServer
  BY <1>2, ReconnectStep
<1>3. CASE CloseLogicConnect
  BY <1>3, CloseStep
<1>4. CASE \E a \in setup.addr : ChangeAddress(a)
  BY <1>4, ChangeAddressStep
<1>5. CASE \E u \in setup.uses : SetUse(u)
  BY <1>5, SetUseStep
<1>6. CASE SendOneCode
  <2>1. Waiting(GetConvFromServer)
    BY <1>6, AskWaits DEF SendOneCode
  <2>. QED BY <1>6, <2>1, UpdateStep DEF SendOneCode
<1>7. CASE SendOneCodeFull
  BY <1>7, SendOneCodeFullStep
<1>8. CASE ReceiveOneCode
  BY <1>8, OutWaits, UpdateStep DEF ReceiveOneCode
<1>9. CASE \E u \in Down \ Conv : ServerSends(u)
  BY <1>9, ServerSendsStep
<1>10. CASE TcpEnds
  BY <1>10, TcpEndsStep
<1>11. CASE TcpLate
  BY <1>11, TcpLateStep
<1>12. CASE \E u \in Down : UdpLost(u)
  BY <1>12, UdpLostStep
<1>. QED BY <1>1, <1>2, <1>3, <1>4, <1>5, <1>6, <1>7, <1>8, <1>9, <1>10, <1>11, <1>12 DEF Step

(***************************************************************************)
(* The manager and its sockets agree in every state that can be reached:   *)
(* the inductive invariant.                                                *)
(***************************************************************************)
THEOREM ConnectionAgrees == Spec => []SessionIInv
<1>1. Init => SessionIInv
  BY InitHolds
<1>2. SessionIInv /\ [Next]_<<vars, setup>> => SessionIInv'
  BY StepKeeps
<1>. QED BY <1>1, <1>2, PTL DEF Spec

(***************************************************************************)
(* If the application closes before it connects anew, a server gets the    *)
(* key and then whole segments over each TCP connection (ReconnectTcp-     *)
(* LogicServer and ClearTempData drop m_un_send_queue at any byte).        *)
(***************************************************************************)
THEOREM FramedAlways == Spec => []Framed
<1>1. SessionIInv => Framed
  BY DEF SessionIInv
<1>. QED BY <1>1, ConnectionAgrees, PTL

(***************************************************************************)
(* And what is read from such a connection begins with a segment.          *)
(***************************************************************************)
THEOREM AlignedAlways == Spec => []Aligned
<1>1. SessionIInv => Aligned
  BY DEF SessionIInv
<1>. QED BY <1>1, ConnectionAgrees, PTL

(***************************************************************************)
(* Types; conv and key belong together and to the server chosen last, and  *)
(* one request for a conv waits at most (GetConvFromServer, ReceiveData).  *)
(***************************************************************************)
THEOREM SessionAlways == Spec => []SessionInv
<1>1. SessionIInv => SessionInv
  BY DEF SessionIInv
<1>. QED BY <1>1, ConnectionAgrees, PTL

\* Only ChangeAddress takes a conv away, and nothing replaces it.
LEMMA ConvKept ==
  ASSUME SessionIInv, Step, conv # None
  PROVE  conv' = conv \/ \E a \in Addr : ChangeAddress(a)
<1>1. CASE ConnectLogicServer \/ ReconnectLogicServer
  BY <1>1 DEF ConnectLogicServer, ReconnectLogicServer, manager
<1>2. CASE CloseLogicConnect
  BY <1>2 DEF CloseLogicConnect
<1>3. CASE \E u \in setup.uses : SetUse(u)
  BY <1>3 DEF SetUse
<1>4. ASSUME NEW q, Update(q) PROVE conv' = conv
  <2>1. ASSUME NEW u, Took(u) PROVE conv' = conv
    BY <2>1 DEF Took
  <2>2. ASSUME NEW t, ReceiveTcp(t) PROVE conv' = conv
    BY <2>1, <2>2 DEF ReceiveTcp, TookNothing
  <2>3. ASSUME NEW heard, ReceiveUdp(heard) PROVE conv' = conv
    BY <2>1, <2>3 DEF ReceiveUdp, TookNothing
  <2>4. CASE UpdateTcp(q)
    BY <2>2, <2>4 DEF UpdateTcp
  <2>5. CASE UpdateUdp(q)
    BY <2>3, <2>5 DEF UpdateUdp
  <2>. QED BY <1>4, <2>4, <2>5 DEF Update
<1>5. CASE SendOneCode \/ ReceiveOneCode
  BY <1>4, <1>5 DEF SendOneCode, ReceiveOneCode
<1>6. CASE SendOneCodeFull
  BY <1>6 DEF SendOneCodeFull
<1>7. CASE \/ \E u \in Down \ Conv : ServerSends(u)
           \/ TcpEnds \/ TcpLate
           \/ \E u \in Down : UdpLost(u)
  BY <1>7 DEF ServerSends, TcpEnds, TcpLate, UdpLost, manager
<1>8. CASE \E a \in setup.addr : ChangeAddress(a)
  <2>1. setup.addr \subseteq Addr
    BY ConnectionAssumption DEF SessionIInv, SessionInv, TypeOK
  <2>. QED BY <1>8, <2>1
<1>. QED BY <1>1, <1>2, <1>3, <1>5, <1>6, <1>7, <1>8 DEF Step
(***************************************************************************)
(* A session survives reconnects, closes and late answers; only a change   *)
(* of address (NewKcp, DestroyKcp) ends it.                                *)
(***************************************************************************)
THEOREM SessionsKept == Spec => SessionKept
<1>1. SessionIInv /\ [Next]_<<vars, setup>> =>
        [conv # None => conv' = conv \/ \E a \in Addr : ChangeAddress(a)]_vars
  <2>. SUFFICES ASSUME SessionIInv, Next, conv # None
                PROVE  conv' = conv \/ \E a \in Addr : ChangeAddress(a)
    BY DEF vars
  <2>. QED BY ConvKept DEF Next
<1>. QED BY <1>1, ConnectionAgrees, PTL DEF Spec, SessionKept
=============================================================================
