-------------------------------- MODULE Kcp --------------------------------
(***************************************************************************)
(* The selective-repeat protocol of src/client_network_kcp/ikcp.c: two     *)
(* control blocks (struct IKCPCB) that exchange segments over a network    *)
(* which loses, duplicates and reorders them.                              *)
(*                                                                         *)
(* What is abstracted:                                                     *)
(*   - A byte is the position it has in the stream handed to ikcp_send, so *)
(*     the payload of a segment is the interval [lo, hi) of positions.     *)
(*   - ConnectionManager::ReceiveData hands ikcp_input one segment at a    *)
(*     time, so a message of the network is one segment, and the mtu       *)
(*     packing of ikcp_flush (ikcp_output of a full buffer) decides only   *)
(*     which of the encoded segments leave when a flush is cut short.      *)
(*   - The clock: whether resendts or ts_probe has been reached is a free  *)
(*     choice.  A retransmission asked for by fastack is one that comes    *)
(*     early, so the same choice stands for it.                            *)
(*   - The configuration is that of ConnectionManager::NewKcp: congestion  *)
(*     control off (nocwnd = 1).                                           *)
(*   - Sequence numbers do not wrap.                                       *)
(*                                                                         *)
(* A definition marked Slip is no part of the specification: it is a       *)
(* plausible mistake in the definition after it, kept to show which of the *)
(* properties would notice.                                                *)
(***************************************************************************)
EXTENDS Integers, Sequences, FiniteSets

CONSTANTS
  Client, Server,  \* the two control blocks
  Writers,         \* those whose application writes
  Stream,          \* kcp->stream: TRUE after ikcp_setusestream
  Mss,             \* kcp->mss, in bytes of the model
  SendLens,        \* the numbers of bytes the application gives ikcp_send
  MaxFrags,        \* the largest fragment count ikcp_send takes (255)
  SndWnd, RcvWnd,  \* kcp->snd_wnd, kcp->rcv_wnd, in segments
  WndRcv,          \* IKCP_WND_RCV, what rmt_wnd is before the peer is heard
  ReadLens,        \* the buffer lengths the application gives ikcp_recv
  CanRefuse,       \* whether the canoutput callback may refuse output
  MaxBytes,        \* bound: bytes one application writes
  MaxFaults,       \* bound: segments lost or duplicated by the network
  NetCap           \* bound: p flushes while fewer than NetCap[Peer(p)] are in flight

Peers == {Client, Server}
Peer(p) == IF p = Client THEN Server ELSE Client

ASSUME KcpAssumption ==
  /\ Client # Server
  /\ Writers \subseteq Peers
  /\ Stream \in BOOLEAN
  /\ CanRefuse \in BOOLEAN
  /\ Mss \in Nat \ {0}
  /\ SendLens \subseteq Nat \ {0}
  /\ MaxFrags \in Nat \ {0}
  /\ SndWnd \in Nat \ {0}
  /\ RcvWnd \in Nat \ {0}
  /\ WndRcv \in Nat \ {0}
  /\ ReadLens \subseteq Nat
  /\ MaxBytes \in Nat
  /\ MaxFaults \in Nat
  /\ NetCap \in [Peers -> Nat]

VARIABLES
  written,    \* bytes ikcp_send has taken from the application
  snd_queue,  \* payloads not yet numbered
  snd_nxt,    \* the next sequence number to give
  snd_una,    \* the oldest number not acknowledged
  snd_buf,    \* the numbers sent and not acknowledged
  xmit,       \* those of snd_buf whose segment->xmit is not 0
  log,        \* history: the payload of every number given so far
  rmt_wnd,    \* the window the peer advertised last
  probe,      \* kcp->probe: the IKCP_ASK_ flags that are set
  probing,    \* kcp->probe_wait # 0
  rcv_nxt,    \* the next number the application has to get
  rcv_buf,    \* payloads received ahead of rcv_queue, by number
  rcv_queue,  \* payloads in order that wait for ikcp_recv
  acklist,    \* the numbers to acknowledge in the next flush
  delivered,  \* history: the payloads handed out by ikcp_recv
  net,        \* net[p]: the segments in flight to p
  faults      \* segments lost or duplicated so far

sndvars == <<written, snd_queue, snd_nxt, snd_una, snd_buf, xmit, log>>
prbvars == <<rmt_wnd, probe, probing>>
rcvvars == <<rcv_nxt, rcv_buf, rcv_queue, acklist, delivered>>
netvars == <<net, faults>>
vars == <<sndvars, prbvars, rcvvars, netvars>>

-----------------------------------------------------------------------------
(* Data *)

Interval == [lo : Nat, hi : Nat]
NoData == [lo |-> 0, hi |-> 0]
Bytes(d) == d.hi - d.lo

Cmds == {"PUSH", "ACK", "WASK", "WINS"}
Segment == [cmd : Cmds, una : Nat, wnd : Nat, sn : Nat, data : Interval]
AskFlags == {"ASK_SEND", "ASK_TELL"}

Least(a, b) == IF a <= b THEN a ELSE b

\* ikcp_wnd_unused: the room left in rcv_queue.
WndUnused(p) ==
  IF Len(rcv_queue[p]) < RcvWnd THEN RcvWnd - Len(rcv_queue[p]) ELSE 0

\* The header ikcp_flush puts on whatever it encodes.
Seg(p, cmd, sn, data) ==
  [cmd |-> cmd, una |-> rcv_nxt[p], wnd |-> WndUnused(p), sn |-> sn, data |-> data]

Acks(p, S) == {Seg(p, "ACK", sn, NoData) : sn \in S}

\* The segments of out leave p for its peer.
Output(p, out) ==
  /\ Cardinality(net[Peer(p)]) < NetCap[Peer(p)]
  /\ net' = [net EXCEPT ![Peer(p)] = @ \cup out]
  /\ UNCHANGED faults

Init ==
  /\ written = [p \in Peers |-> 0]
  /\ snd_queue = [p \in Peers |-> <<>>]
  /\ snd_nxt = [p \in Peers |-> 0]
  /\ snd_una = [p \in Peers |-> 0]
  /\ snd_buf = [p \in Peers |-> {}]
  /\ xmit = [p \in Peers |-> {}]
  /\ log = [p \in Peers |-> <<>>]
  /\ rmt_wnd = [p \in Peers |-> WndRcv]
  /\ probe = [p \in Peers |-> {}]
  /\ probing = [p \in Peers |-> FALSE]
  /\ rcv_nxt = [p \in Peers |-> 0]
  /\ rcv_buf = [p \in Peers |-> <<>>]
  /\ rcv_queue = [p \in Peers |-> <<>>]
  /\ acklist = [p \in Peers |-> {}]
  /\ delivered = [p \in Peers |-> <<>>]
  /\ net = [p \in Peers |-> {}]
  /\ faults = 0

-----------------------------------------------------------------------------
(* ikcp_send *)

\* The bytes that go into the payload at the tail of snd_queue, if it is short.
Extend(p, n) ==
  LET q == snd_queue[p] IN
  IF Stream /\ q # <<>> /\ Bytes(q[Len(q)]) < Mss
  THEN Least(n, Mss - Bytes(q[Len(q)]))
  ELSE 0

\* snd_queue with its tail payload replaced by one that is e bytes longer.
Extended(q, e) ==
  IF e = 0 THEN q ELSE [q EXCEPT ![Len(q)].hi = @ + e]

\* Slip: the division rounds down.
FragmentsRoundedDown(n) == IF n <= Mss THEN 1 ELSE n \div Mss

\* The number of payloads n bytes are cut into.
Fragments(n) == IF n <= Mss THEN 1 ELSE (n + Mss - 1) \div Mss

\* Slip: the last payload is as long as the others.
FragmentedUnclipped(lo, n) ==
  [i \in 1..Fragments(n) |-> [lo |-> lo + (i - 1) * Mss, hi |-> lo + i * Mss]]

\* n bytes from position lo on, in payloads of at most Mss bytes.
Fragmented(lo, n) ==
  [i \in 1..Fragments(n) |->
     [lo |-> lo + (i - 1) * Mss, hi |-> lo + Least(i * Mss, n)]]

(***************************************************************************)
(* ikcp_send(kcp, buffer, n).  The bytes that extended the tail stay in    *)
(* the queue also when the rest has too many fragments and the call fails. *)
(***************************************************************************)
Send(p, n) ==
  LET e == Extend(p, n)
      base == Extended(snd_queue[p], e)
      refused == Fragments(n - e) > MaxFrags
  IN
  /\ written[p] + n <= MaxBytes
  /\ \/ /\ \/ Stream /\ n - e <= 0
           \/ refused
        /\ snd_queue' = [snd_queue EXCEPT ![p] = base]
        /\ written' = [written EXCEPT ![p] = @ + e]
     \/ /\ ~ (Stream /\ n - e <= 0)
        /\ ~ refused
        /\ snd_queue' = [snd_queue EXCEPT ![p] = base \o Fragmented(written[p] + e, n - e)]
        /\ written' = [written EXCEPT ![p] = @ + n]
  /\ UNCHANGED <<snd_nxt, snd_una, snd_buf, xmit, log, prbvars, rcvvars, netvars>>

-----------------------------------------------------------------------------
(* The head of rcv_buf moves to rcv_queue: ikcp_parse_data and ikcp_recv *)

\* Slip: the reader's window is not looked at.
MovableUnbounded(buf, nxt, queued, k) ==
  /\ \A i \in nxt..(nxt + k - 1) : i \in DOMAIN buf
  /\ nxt + k \notin DOMAIN buf

\* k payloads can be moved when queued ones are in rcv_queue, and no more.
Movable(buf, nxt, queued, k) ==
  /\ \A i \in nxt..(nxt + k - 1) : i \in DOMAIN buf
  /\ k > 0 => queued + k <= RcvWnd
  /\ \/ queued + k >= RcvWnd
     \/ nxt + k \notin DOMAIN buf

\* Slip: rcv_nxt moves once, not once for every payload moved.
MoveToQueueOneStep(p, buf, queue, k) ==
  /\ Movable(buf, rcv_nxt[p], Len(queue), k)
  /\ rcv_queue' = [rcv_queue EXCEPT ![p] =
                     queue \o [i \in 1..k |-> buf[rcv_nxt[p] + i - 1]]]
  /\ rcv_buf' = [rcv_buf EXCEPT ![p] =
                   [sn \in {s \in DOMAIN buf : s >= rcv_nxt[p] + k} |-> buf[sn]]]
  /\ rcv_nxt' = [rcv_nxt EXCEPT ![p] = @ + Least(k, 1)]

\* rcv_buf is buf and rcv_queue is queue before k payloads are moved.
MoveToQueue(p, buf, queue, k) ==
  /\ Movable(buf, rcv_nxt[p], Len(queue), k)
  /\ rcv_queue' = [rcv_queue EXCEPT ![p] =
                     queue \o [i \in 1..k |-> buf[rcv_nxt[p] + i - 1]]]
  /\ rcv_buf' = [rcv_buf EXCEPT ![p] =
                   [sn \in {s \in DOMAIN buf : s >= rcv_nxt[p] + k} |-> buf[sn]]]
  /\ rcv_nxt' = [rcv_nxt EXCEPT ![p] = @ + k]

(***************************************************************************)
(* ikcp_recv(kcp, buffer, len): as many whole payloads as fit.  When the   *)
(* queue had been full, the peer is told that the window is open again.    *)
(***************************************************************************)
Total(q, k) == IF k = 0 THEN 0 ELSE q[k].hi - q[1].lo

Recv(p, len) ==
  LET q == rcv_queue[p]
      full == Len(q) >= RcvWnd
  IN
  /\ q # <<>>
  /\ \E n \in 0..Len(q), k \in 0..RcvWnd :
       /\ Total(q, n) <= len
       /\ n < Len(q) => Total(q, n + 1) > len
       /\ delivered' = [delivered EXCEPT ![p] = @ \o SubSeq(q, 1, n)]
       /\ MoveToQueue(p, rcv_buf[p], SubSeq(q, n + 1, Len(q)), k)
       /\ probe' = [probe EXCEPT ![p] =
                      IF full /\ Len(q) - n + k < RcvWnd THEN @ \cup {"ASK_TELL"} ELSE @]
  /\ UNCHANGED <<sndvars, rmt_wnd, probing, acklist, netvars>>

-----------------------------------------------------------------------------
(* ikcp_input *)

\* ikcp_shrink_buf: snd_una becomes the oldest number left in snd_buf.
ShrinkBuf(p, buf) ==
  \E u \in buf \cup {snd_nxt[p]} :
    /\ \A sn \in buf : u <= sn
    /\ snd_una' = [snd_una EXCEPT ![p] = u]

\* Slip: una is taken for a number the peer has.
UnackedPastUna(p, m) ==
  {sn \in snd_buf[p] : sn > m.una /\ ~ (m.cmd = "ACK" /\ sn = m.sn)}

\* ikcp_parse_una and ikcp_parse_ack: the numbers that remain in snd_buf.
Unacked(p, m) ==
  {sn \in snd_buf[p] : sn >= m.una /\ ~ (m.cmd = "ACK" /\ sn = m.sn)}

\* Slip: snd_una is what the segment says, not what snd_buf says.
AckInputTrustsUna(p, m) ==
  LET left == Unacked(p, m) IN
  /\ rmt_wnd' = [rmt_wnd EXCEPT ![p] = m.wnd]
  /\ snd_buf' = [snd_buf EXCEPT ![p] = left]
  /\ xmit' = [xmit EXCEPT ![p] = @ \cap left]
  /\ snd_una' = [snd_una EXCEPT ![p] = m.una]
  /\ UNCHANGED <<written, snd_queue, snd_nxt, log, probing, delivered>>

\* The part of every segment that concerns the sender.
AckInput(p, m) ==
  LET left == Unacked(p, m) IN
  /\ rmt_wnd' = [rmt_wnd EXCEPT ![p] = m.wnd]
  /\ snd_buf' = [snd_buf EXCEPT ![p] = left]
  /\ xmit' = [xmit EXCEPT ![p] = @ \cap left]
  /\ ShrinkBuf(p, left)
  /\ UNCHANGED <<written, snd_queue, snd_nxt, log, probing, delivered>>

\* rcv_buf with the payload of m, unless one of that number is there.
Inserted(p, m) ==
  [sn \in DOMAIN rcv_buf[p] \cup {m.sn} |->
     IF sn \in DOMAIN rcv_buf[p] THEN rcv_buf[p][sn] ELSE m.data]

\* A PUSH inside the window is acknowledged, and kept unless it is old.
PushInput(p, m) ==
  /\ m.cmd = "PUSH"
  /\ m.sn < rcv_nxt[p] + RcvWnd
  /\ acklist' = [acklist EXCEPT ![p] = @ \cup {m.sn}]
  /\ \/ /\ m.sn >= rcv_nxt[p]
        /\ \E k \in 0..RcvWnd : MoveToQueue(p, Inserted(p, m), rcv_queue[p], k)
     \/ /\ m.sn < rcv_nxt[p]
        /\ UNCHANGED <<rcv_nxt, rcv_buf, rcv_queue>>
  /\ UNCHANGED probe

WaskInput(p, m) ==
  /\ m.cmd = "WASK"
  /\ probe' = [probe EXCEPT ![p] = @ \cup {"ASK_TELL"}]
  /\ UNCHANGED <<rcv_nxt, rcv_buf, rcv_queue, acklist>>

\* ACK and WINS carry nothing else, a PUSH beyond the window is dropped.
OtherInput(p, m) ==
  /\ \/ m.cmd \in {"ACK", "WINS"}
     \/ m.cmd = "PUSH" /\ m.sn >= rcv_nxt[p] + RcvWnd
  /\ UNCHANGED <<probe, rcv_nxt, rcv_buf, rcv_queue, acklist>>

Input(p, m) ==
  /\ AckInput(p, m)
  /\ \/ PushInput(p, m)
     \/ WaskInput(p, m)
     \/ OtherInput(p, m)

-----------------------------------------------------------------------------
(* ikcp_flush. *)

\* Slip: the timer runs out and nothing is asked.
ProbeTimerSilent(p, fired) == probe[p]

\* fired: the clock has reached ts_probe.
ProbeTimer(p, fired) ==
  IF rmt_wnd[p] = 0 /\ probing[p] /\ fired THEN probe[p] \cup {"ASK_SEND"} ELSE probe[p]

(***************************************************************************)
(* canoutput refuses inside the acknowledgement loop.  ikcp_ack_move keeps *)
(* the entries not reached; those encoded before are gone, sent only if a  *)
(* full buffer (out) was output on the way.                                *)
(***************************************************************************)
FlushStopsAtAck(p) ==
  /\ CanRefuse
  /\ \E left \in SUBSET acklist[p] \ {{}} : \E out \in SUBSET (acklist[p] \ left) :
       /\ acklist' = [acklist EXCEPT ![p] = left]
       /\ Output(p, Acks(p, out))
  /\ UNCHANGED <<sndvars, prbvars, rcv_nxt, rcv_buf, rcv_queue, delivered>>

(***************************************************************************)
(* canoutput refuses at a window probe.  All acknowledgements are off the  *)
(* list, and at WINS so is an encoded WASK; the flag refused stays set.    *)
(***************************************************************************)
FlushStopsAtProbe(p, fired) ==
  LET ask == ProbeTimer(p, fired) IN
  /\ CanRefuse
  /\ \/ "ASK_SEND" \in ask /\ probe' = [probe EXCEPT ![p] = ask]
     \/ "ASK_TELL" \in ask /\ probe' = [probe EXCEPT ![p] = {"ASK_TELL"}]
  /\ probing' = [probing EXCEPT ![p] = (rmt_wnd[p] = 0)]
  /\ acklist' = [acklist EXCEPT ![p] = {}]
  /\ \E out \in SUBSET acklist[p] : Output(p, Acks(p, out))
  /\ UNCHANGED <<sndvars, rmt_wnd, rcv_nxt, rcv_buf, rcv_queue, delivered>>

\* Slip: the window is counted from snd_nxt.
AdmittedFromNext(p) == Least(Len(snd_queue[p]), Least(SndWnd, rmt_wnd[p]))

\* How many payloads of snd_queue the window lets through.
Admitted(p) ==
  LET edge == snd_una[p] + Least(SndWnd, rmt_wnd[p])
  IN  IF snd_nxt[p] < edge THEN Least(Len(snd_queue[p]), edge - snd_nxt[p]) ELSE 0

Probes(p, ask) ==
  {Seg(p, "WASK", 0, NoData) : a \in ask \cap {"ASK_SEND"}}
    \cup {Seg(p, "WINS", 0, NoData) : a \in ask \cap {"ASK_TELL"}}

(***************************************************************************)
(* A flush that reaches the data: what the window admits is numbered, then *)
(* every segment of snd_buf never sent, or due again (expired), is sent,   *)
(* up to the number stop at which canoutput refuses.                       *)
(***************************************************************************)
FlushData(p, fired, expired, stop) ==
  LET n == Admitted(p)
      newlog == log[p] \o SubSeq(snd_queue[p], 1, n)
      newbuf == snd_buf[p] \cup (snd_nxt[p]..(snd_nxt[p] + n - 1))
      due == (newbuf \ xmit[p]) \cup expired
      sent == {sn \in due : sn < stop}
      ask == ProbeTimer(p, fired)
  IN
  /\ stop \in due \cup {snd_nxt[p] + n}
  /\ stop \in due => CanRefuse
  /\ snd_queue' = [snd_queue EXCEPT ![p] = SubSeq(@, n + 1, Len(@))]
  /\ snd_nxt' = [snd_nxt EXCEPT ![p] = @ + n]
  /\ log' = [log EXCEPT ![p] = newlog]
  /\ snd_buf' = [snd_buf EXCEPT ![p] = newbuf]
  /\ xmit' = [xmit EXCEPT ![p] = @ \cup sent]
  /\ probe' = [probe EXCEPT ![p] = {}]
  /\ probing' = [probing EXCEPT ![p] = (rmt_wnd[p] = 0)]
  /\ acklist' = [acklist EXCEPT ![p] = {}]
  /\ Output(p, Acks(p, acklist[p]) \cup Probes(p, ask)
                 \cup {Seg(p, "PUSH", sn, newlog[sn + 1]) : sn \in sent})
  /\ UNCHANGED <<written, snd_una, rmt_wnd, rcv_nxt, rcv_buf, rcv_queue, delivered>>

Flush(p) ==
  \/ FlushStopsAtAck(p)
  \/ \E fired \in BOOLEAN :
       \/ FlushStopsAtProbe(p, fired)
       \/ \E expired \in SUBSET xmit[p] :
            \E stop \in snd_buf[p] \cup (snd_nxt[p]..(snd_nxt[p] + Admitted(p))) :
              FlushData(p, fired, expired, stop)

-----------------------------------------------------------------------------
(* The network *)

Receive(p, m) ==
  /\ m \in net[p]
  /\ net' = [net EXCEPT ![p] = @ \ {m}]
  /\ UNCHANGED faults
  /\ Input(p, m)

\* A segment arrives, and will arrive again.
ReceiveTwice(p, m) ==
  /\ m \in net[p]
  /\ faults < MaxFaults
  /\ faults' = faults + 1
  /\ UNCHANGED net
  /\ Input(p, m)

Lose(p, m) ==
  /\ m \in net[p]
  /\ faults < MaxFaults
  /\ faults' = faults + 1
  /\ net' = [net EXCEPT ![p] = @ \ {m}]
  /\ UNCHANGED <<sndvars, prbvars, rcvvars>>

-----------------------------------------------------------------------------

Next ==
  \E p \in Peers :
    \/ p \in Writers /\ \E n \in SendLens : Send(p, n)
    \/ \E len \in ReadLens : Recv(p, len)
    \/ Flush(p)
    \/ \E m \in net[p] : Receive(p, m) \/ ReceiveTwice(p, m) \/ Lose(p, m)

Spec == Init /\ [][Next]_vars

(***************************************************************************)
(* ConnectionManager::Update is called again and again: every interval     *)
(* ms a flush runs in which canoutput does not refuse, the timers of the   *)
(* unacknowledged segments having run out; the data is read into a buffer  *)
(* that takes a whole segment; the network delivers what it does not lose. *)
(***************************************************************************)
FlushAll(p) == FlushData(p, TRUE, xmit[p], snd_nxt[p] + Admitted(p))

ReceiveKind(p, cmd, sn) ==
  \E m \in net[p] : m.cmd = cmd /\ m.sn = sn /\ Receive(p, m)

Fairness ==
  \A p \in Peers :
    /\ WF_vars(FlushAll(p))
    /\ WF_vars(\E len \in ReadLens : len >= Mss /\ Recv(p, len))
    /\ \A cmd \in {"PUSH", "ACK"}, sn \in 0..(MaxBytes - 1) : WF_vars(ReceiveKind(p, cmd, sn))
    /\ \A cmd \in {"WASK", "WINS"} : WF_vars(ReceiveKind(p, cmd, 0))

FairSpec == Spec /\ Fairness

-----------------------------------------------------------------------------
(* Properties *)

TypeOK ==
  /\ written \in [Peers -> Nat]
  /\ snd_queue \in [Peers -> Seq(Interval)]
  /\ snd_nxt \in [Peers -> Nat]
  /\ snd_una \in [Peers -> Nat]
  /\ snd_buf \in [Peers -> SUBSET Nat]
  /\ xmit \in [Peers -> SUBSET Nat]
  /\ log \in [Peers -> Seq(Interval)]
  /\ rmt_wnd \in [Peers -> Nat]
  /\ probe \in [Peers -> SUBSET AskFlags]
  /\ probing \in [Peers -> BOOLEAN]
  /\ rcv_nxt \in [Peers -> Nat]
  /\ rcv_buf = [p \in Peers |-> rcv_buf[p]]
  /\ \A p \in Peers : /\ DOMAIN rcv_buf[p] \subseteq Nat
                      /\ rcv_buf[p] \in [DOMAIN rcv_buf[p] -> Interval]
  /\ rcv_queue \in [Peers -> Seq(Interval)]
  /\ acklist \in [Peers -> SUBSET Nat]
  /\ delivered \in [Peers -> Seq(Interval)]
  /\ net \in [Peers -> SUBSET Segment]
  /\ faults \in Nat

(***************************************************************************)
(* Exactly once and in order: what the application has been given and what *)
(* waits for it are the payloads the peer numbered, from 0 to rcv_nxt - 1, *)
(* whatever the network lost, repeated or reordered.                       *)
(***************************************************************************)
InOrder ==
  \A p \in Peers :
    delivered[p] \o rcv_queue[p] = SubSeq(log[Peer(p)], 1, rcv_nxt[p])

(***************************************************************************)
(* ikcp_parse_una and ikcp_parse_ack free a segment only when the peer     *)
(* holds its payload, in order or ahead of order.                          *)
(***************************************************************************)
Received(p) == 0..(rcv_nxt[p] - 1) \cup DOMAIN rcv_buf[p]

NoEarlyRelease ==
  \A p \in Peers : 0..(snd_nxt[p] - 1) \subseteq snd_buf[p] \cup Received(Peer(p))

\* The payloads of all cut the positions from 0 to w.
Cut(all, w) ==
  /\ \A i \in 1..Len(all) :
       /\ Bytes(all[i]) \in 1..Mss
       /\ all[i].lo = (IF i = 1 THEN 0 ELSE all[i - 1].hi)
  /\ w = (IF all = <<>> THEN 0 ELSE all[Len(all)].hi)

(***************************************************************************)
(* The payloads, numbered or not, cut the bytes taken by ikcp_send without *)
(* gap or overlap, none longer than mss: also when a call extended the     *)
(* tail, and when it failed after that.                                    *)
(***************************************************************************)
Partition == \A p \in Peers : Cut(log[p] \o snd_queue[p], written[p])

(***************************************************************************)
(* The control block stays within its windows: at most snd_wnd numbers     *)
(* outstanding, at most rcv_wnd payloads waiting for the application, and  *)
(* only numbers of [rcv_nxt, rcv_nxt + rcv_wnd) held ahead of order.       *)
(***************************************************************************)
WindowBounds ==
  \A p \in Peers :
    /\ snd_nxt[p] - snd_una[p] <= SndWnd
    /\ Len(rcv_queue[p]) <= RcvWnd
    /\ DOMAIN rcv_buf[p] \subseteq rcv_nxt[p]..(rcv_nxt[p] + RcvWnd - 1)

(***************************************************************************)
(* A sender that starts from a window not larger than ours is never more   *)
(* than two windows ahead of rcv_nxt, however stale the window it acts on. *)
(* One window is not enough: numbers that ikcp_parse_data keeps behind a   *)
(* full rcv_queue are acknowledged, so snd_una can pass rcv_nxt, and       *)
(* ikcp_input does drop such a PUSH.                                       *)
(***************************************************************************)
TwoWindows ==
  WndRcv <= RcvWnd =>
    \A p \in Peers : \A m \in net[p] :
      m.cmd = "PUSH" => m.sn < rcv_nxt[p] + 2 * RcvWnd

(***************************************************************************)
(* A late una or ACK moves neither end back: snd_una and rcv_nxt only      *)
(* grow, and a number once freed is never outstanding again.               *)
(***************************************************************************)
NeverBack ==
  [][\A p \in Peers :
       /\ snd_una'[p] >= snd_una[p]
       /\ rcv_nxt'[p] >= rcv_nxt[p]
       /\ snd_buf'[p] \cap 0..(snd_nxt[p] - 1) \subseteq snd_buf[p]]_vars

(***************************************************************************)
(* Everything ikcp_send took is handed out at the other end, although      *)
(* segments are lost and the window closes: no state of the two windows,   *)
(* probes and timers makes both ends wait for each other.                  *)
(***************************************************************************)
ReadBytes(p) == IF delivered[p] = <<>> THEN 0 ELSE delivered[p][Len(delivered[p])].hi

EverythingArrives ==
  \A p \in Peers : (ReadBytes(Peer(p)) < written[p]) ~> (ReadBytes(Peer(p)) = written[p])

(***************************************************************************)
(* The two control blocks implement a stream of bytes in each direction.   *)
(***************************************************************************)
Promise == INSTANCE ByteStream WITH read <- [p \in Peers |-> ReadBytes(p)]
ImplementsStream == Promise!Spec

-----------------------------------------------------------------------------
(***************************************************************************)
(* The inductive invariant behind InOrder, NoEarlyRelease, WindowBounds    *)
(* and TwoWindows.  It adds what holds of the segments in flight and of    *)
(* the acknowledgements not yet sent.                                      *)
(***************************************************************************)
SenderInv(p) ==
  /\ Len(log[p]) = snd_nxt[p]
  /\ snd_una[p] <= snd_nxt[p]
  /\ snd_nxt[p] <= snd_una[p] + SndWnd
  /\ \A sn \in snd_buf[p] : snd_una[p] <= sn /\ sn < snd_nxt[p]
  /\ xmit[p] \subseteq snd_buf[p]
  /\ \A sn \in 0..(snd_nxt[p] - 1) : sn \in snd_buf[p] \/ sn \in Received(Peer(p))

ReceiverInv(p) ==
  /\ rcv_nxt[p] <= snd_nxt[Peer(p)]
  /\ Len(delivered[p]) + Len(rcv_queue[p]) = rcv_nxt[p]
  /\ \A i \in 1..rcv_nxt[p] : (delivered[p] \o rcv_queue[p])[i] = log[Peer(p)][i]
  /\ Len(rcv_queue[p]) <= RcvWnd
  /\ \A sn \in DOMAIN rcv_buf[p] :
       /\ rcv_nxt[p] <= sn
       /\ sn < rcv_nxt[p] + RcvWnd
       /\ sn < snd_nxt[Peer(p)]
       /\ rcv_buf[p][sn] = log[Peer(p)][sn + 1]
  /\ acklist[p] \subseteq Received(p)

\* m is in flight to p.
NetInv(p, m) ==
  /\ m.una <= rcv_nxt[Peer(p)]
  /\ m.cmd = "ACK" => m.sn \in Received(Peer(p))
  /\ m.cmd = "PUSH" => /\ m.sn < snd_nxt[Peer(p)]
                       /\ m.data = log[Peer(p)][m.sn + 1]

IInv ==
  /\ TypeOK
  /\ \A p \in Peers :
       /\ SenderInv(p)
       /\ ReceiverInv(p)
       /\ \A m \in net[p] : NetInv(p, m)

\* What ImplementsStream needs beyond IInv and Partition: positions ascend.
Ascending(all, w) ==
  \A i \in 1..Len(all) : /\ all[i].hi <= w
                         /\ \A j \in 1..Len(all) : i < j => all[i].hi <= all[j].lo

StreamInv == \A p \in Peers : LET all == log[p] \o snd_queue[p]
                              IN  Cut(all, written[p]) /\ Ascending(all, written[p])

\* What TwoWindows needs beyond IInv.
WindowInv ==
  \A p \in Peers :
    /\ rmt_wnd[p] <= RcvWnd
    /\ snd_nxt[p] <= snd_una[p] + RcvWnd
    /\ \A m \in net[p] : m.wnd <= RcvWnd
=============================================================================
