----------------------------- MODULE KcpProofs -----------------------------
(***************************************************************************)
(* Proofs about Kcp, for every number of bytes, window, read length and    *)
(* network capacity.                                                       *)
(***************************************************************************)
EXTENDS Kcp, SequenceTheorems, TLAPS

(* The two peers are each other's peer. *)
LEMMA PeerFacts ==
  ASSUME NEW p \in Peers
  PROVE  /\ Peer(p) \in Peers
         /\ Peer(p) # p
         /\ Peer(Peer(p)) = p
         /\ \A q \in Peers : q # p => q = Peer(p) /\ Peer(q) = p
BY KcpAssumption DEF Peers, Peer

(* The payloads ikcp_send cuts are intervals of positions. *)
LEMMA FragmentedType ==
  ASSUME NEW lo \in Nat, NEW n \in Nat
  PROVE  Fragments(n) \in Nat /\ Fragmented(lo, n) \in Seq(Interval)
<1>1. Fragments(n) \in Nat
  <2>1. Mss \in Nat /\ Mss > 0 /\ (n + Mss - 1) \in Nat
    BY KcpAssumption
  <2>2. (n + Mss - 1) \div Mss \in Nat
    BY <2>1, SMT
  <2>. QED BY <2>2 DEF Fragments
<1>2. ASSUME NEW i \in 1..Fragments(n)
      PROVE  /\ lo + (i - 1) * Mss \in Nat
             /\ lo + Least(i * Mss, n) \in Nat
  <2>1. Mss \in Nat /\ i \in Nat /\ i - 1 \in Nat
    BY <1>1, KcpAssumption
  <2>2. (i - 1) * Mss \in Nat /\ i * Mss \in Nat
    BY <2>1, SMT
  <2>. QED BY <2>2 DEF Least
<1>3. Fragmented(lo, n) \in [1..Fragments(n) -> Interval]
  BY <1>2 DEF Fragmented, Interval
<1>. QED BY <1>1, <1>3

(* What SubSeq does to a sequence of payloads. *)
LEMMA SubSeqFacts ==
  ASSUME NEW s \in Seq(Interval), NEW a \in Nat \ {0}, NEW b \in Nat, b <= Len(s)
  PROVE  /\ SubSeq(s, a, b) \in Seq(Interval)
         /\ Len(SubSeq(s, a, b)) = IF a <= b THEN b - a + 1 ELSE 0
         /\ \A i \in 1..(b - a + 1) : SubSeq(s, a, b)[i] = s[a + i - 1]
<1>1. \A i \in a..b : s[i] \in Interval
  BY ElementOfSeq, LenProperties
<1>. QED BY <1>1, SubSeqProperties

(***************************************************************************)
(* Moving the head of rcv_buf to rcv_queue.  buf, queue and given are the  *)
(* buffer, the queue and the delivered payloads just before the loop of    *)
(* ikcp_parse_data or ikcp_recv runs.                                      *)
(***************************************************************************)
InSequence(p, queue, given) ==
  /\ queue \in Seq(Interval)
  /\ given \in Seq(Interval)
  /\ Len(given) + Len(queue) = rcv_nxt[p]
  /\ \A i \in 1..rcv_nxt[p] : (given \o queue)[i] = log[Peer(p)][i]
  /\ Len(queue) <= RcvWnd

AheadOf(p, buf) ==
  /\ DOMAIN buf \subseteq Nat
  /\ buf \in [DOMAIN buf -> Interval]
  /\ \A sn \in DOMAIN buf :
       /\ rcv_nxt[p] <= sn
       /\ sn < rcv_nxt[p] + RcvWnd
       /\ sn < snd_nxt[Peer(p)]
       /\ buf[sn] = log[Peer(p)][sn + 1]

Moved(buf, nxt, k) == [i \in 1..k |-> buf[nxt + i - 1]]
Kept(buf, nxt, k) == {s \in DOMAIN buf : s >= nxt + k}

LEMMA MoveParts ==
  ASSUME TypeOK, NEW p \in Peers, NEW buf, NEW queue, NEW k \in 0..RcvWnd,
         MoveToQueue(p, buf, queue, k)
  PROVE  /\ \A i \in rcv_nxt[p]..(rcv_nxt[p] + k - 1) : i \in DOMAIN buf
         /\ k > 0 => Len(queue) + k <= RcvWnd
         /\ rcv_nxt' = [rcv_nxt EXCEPT ![p] = rcv_nxt[p] + k]
         /\ rcv_nxt'[p] = rcv_nxt[p] + k
         /\ rcv_queue' = [rcv_queue EXCEPT ![p] = queue \o Moved(buf, rcv_nxt[p], k)]
         /\ rcv_queue'[p] = queue \o Moved(buf, rcv_nxt[p], k)
         /\ rcv_buf'[p] = [sn \in Kept(buf, rcv_nxt[p], k) |-> buf[sn]]
         /\ DOMAIN rcv_buf'[p] = Kept(buf, rcv_nxt[p], k)
         /\ \A q \in Peers : q # p => rcv_buf'[q] = rcv_buf[q]
<1>1. \A i \in rcv_nxt[p]..(rcv_nxt[p] + k - 1) : i \in DOMAIN buf
  BY DEF MoveToQueue, Movable
<1>2. k > 0 => Len(queue) + k <= RcvWnd
  BY DEF MoveToQueue, Movable
<1>3. rcv_nxt' = [rcv_nxt EXCEPT ![p] = rcv_nxt[p] + k] /\ p \in DOMAIN rcv_nxt
  BY DEF MoveToQueue, TypeOK
<1>4. rcv_queue' = [rcv_queue EXCEPT ![p] = queue \o Moved(buf, rcv_nxt[p], k)]
      /\ p \in DOMAIN rcv_queue
  BY DEF MoveToQueue, TypeOK, Moved
<1>5. rcv_buf' = [rcv_buf EXCEPT ![p] = [sn \in Kept(buf, rcv_nxt[p], k) |-> buf[sn]]]
  BY DEF MoveToQueue, Kept
<1>6. rcv_buf = [q \in Peers |-> rcv_buf[q]]
  BY DEF TypeOK
<1>7. /\ rcv_buf'[p] = [sn \in Kept(buf, rcv_nxt[p], k) |-> buf[sn]]
      /\ \A q \in Peers : q # p => rcv_buf'[q] = rcv_buf[q]
  BY <1>5, <1>6
<1>8. DOMAIN rcv_buf'[p] = Kept(buf, rcv_nxt[p], k)
  BY <1>7
<1>. QED BY <1>1, <1>2, <1>3, <1>4, <1>7, <1>8

LEMMA MovedFacts ==
  ASSUME NEW p \in Peers, NEW buf, NEW k \in Nat, AheadOf(p, buf), rcv_nxt[p] \in Nat,
         \A i \in rcv_nxt[p]..(rcv_nxt[p] + k - 1) : i \in DOMAIN buf
  PROVE  /\ Moved(buf, rcv_nxt[p], k) \in Seq(Interval)
         /\ Len(Moved(buf, rcv_nxt[p], k)) = k
         /\ \A i \in 1..k : Moved(buf, rcv_nxt[p], k)[i] = log[Peer(p)][rcv_nxt[p] + i]
<1>. DEFINE tail == Moved(buf, rcv_nxt[p], k)
<1>1. \A i \in 1..k : /\ rcv_nxt[p] + i - 1 \in DOMAIN buf
                      /\ (rcv_nxt[p] + i - 1) + 1 = rcv_nxt[p] + i
  OBVIOUS
<1>2. \A i \in 1..k : buf[rcv_nxt[p] + i - 1] \in Interval
  BY <1>1 DEF AheadOf
<1>3. tail \in [1..k -> Interval]
  BY <1>2 DEF Moved
<1>4. tail \in Seq(Interval) /\ Len(tail) = k
  BY <1>3
<1>5. \A i \in 1..k : tail[i] = log[Peer(p)][rcv_nxt[p] + i]
  BY <1>1 DEF Moved, AheadOf
<1>. QED BY <1>4, <1>5

(* What is appended in sequence continues the sequence. *)
Grown(p, given, queue, tail, k) ==
  /\ queue \o tail \in Seq(Interval)
  /\ Len(queue \o tail) = Len(queue) + k
  /\ Len(given) + Len(queue \o tail) = rcv_nxt[p] + k
  /\ \A i \in 1..(rcv_nxt[p] + k) : (given \o (queue \o tail))[i] = log[Peer(p)][i]

LEMMA SequenceGrows ==
  ASSUME NEW p \in Peers, NEW queue, NEW given, InSequence(p, queue, given),
         NEW tail \in Seq(Interval), NEW k \in Nat, Len(tail) = k, rcv_nxt[p] \in Nat,
         \A i \in 1..k : tail[i] = log[Peer(p)][rcv_nxt[p] + i]
  PROVE  Grown(p, given, queue, tail, k)
<1>1. /\ queue \in Seq(Interval) /\ given \in Seq(Interval)
      /\ Len(given) \in Nat /\ Len(queue) \in Nat
      /\ Len(given) + Len(queue) = rcv_nxt[p]
  BY LenProperties DEF InSequence
<1>2. queue \o tail \in Seq(Interval) /\ Len(queue \o tail) = Len(queue) + k
  BY <1>1, ConcatProperties
<1>3. /\ given \o queue \in Seq(Interval)
      /\ Len(given \o queue) = rcv_nxt[p]
      /\ \A i \in 1..rcv_nxt[p] : (given \o queue)[i] = log[Peer(p)][i]
  BY <1>1, ConcatProperties DEF InSequence
<1>4. \A i \in 1..(rcv_nxt[p] + k) : (given \o (queue \o tail))[i] =
         IF i <= Len(given) THEN given[i] ELSE (queue \o tail)[i - Len(given)]
  BY <1>1, <1>2, ConcatProperties
<1>5. /\ \A i \in 1..rcv_nxt[p] : (given \o queue)[i] =
           IF i <= Len(given) THEN given[i] ELSE queue[i - Len(given)]
      /\ \A j \in 1..(Len(queue) + k) : (queue \o tail)[j] =
           IF j <= Len(queue) THEN queue[j] ELSE tail[j - Len(queue)]
  BY <1>1, ConcatProperties
<1>6. ASSUME NEW i \in 1..(rcv_nxt[p] + k)
      PROVE  (given \o (queue \o tail))[i] = log[Peer(p)][i]
  <2>0. i \in Nat /\ i >= 1 /\ i <= rcv_nxt[p] + k
    OBVIOUS
  <2>1. CASE i <= rcv_nxt[p]
    <3>1. i \in 1..rcv_nxt[p]
      BY <2>0, <2>1
    <3>2. (given \o queue)[i] = log[Peer(p)][i]
      BY <1>3, <3>1
    <3>3. i > Len(given) => i - Len(given) \in 1..(Len(queue) + k) /\ i - Len(given) <= Len(queue)
      BY <1>1, <2>0, <2>1
    <3>. QED BY <1>4, <1>5, <3>1, <3>2, <3>3
  <2>2. CASE i > rcv_nxt[p]
    <3>1. i - rcv_nxt[p] \in 1..k /\ rcv_nxt[p] + (i - rcv_nxt[p]) = i
      BY <2>0, <2>2
    <3>2. tail[i - rcv_nxt[p]] = log[Peer(p)][i]
      BY <3>1
    <3>3. /\ i > Len(given)
          /\ i - Len(given) \in 1..(Len(queue) + k)
          /\ i - Len(given) > Len(queue)
          /\ (i - Len(given)) - Len(queue) = i - rcv_nxt[p]
      BY <1>1, <2>0, <2>2
    <3>4. (given \o (queue \o tail))[i] = (queue \o tail)[i - Len(given)]
      BY <1>1, <1>4, <2>0, <3>3
    <3>5. (queue \o tail)[i - Len(given)] = tail[i - rcv_nxt[p]]
      <4>1. ASSUME NEW j \in 1..(Len(queue) + k), j > Len(queue)
            PROVE  (queue \o tail)[j] = tail[j - Len(queue)]
        <5>1. ~ j <= Len(queue)
          BY <1>1, <4>1
        <5>. QED BY <1>5, <5>1
      <4>. QED BY <3>3, <4>1
    <3>. QED BY <3>2, <3>4, <3>5
  <2>3. i <= rcv_nxt[p] \/ i > rcv_nxt[p]
    BY <2>0
  <2>. QED BY <2>1, <2>2, <2>3
<1>7. Len(given) + Len(queue \o tail) = rcv_nxt[p] + k
  BY <1>1, <1>2
<1>. QED BY <1>2, <1>6, <1>7 DEF Grown

LEMMA MoveFacts ==
  ASSUME TypeOK, NEW p \in Peers, NEW buf, NEW queue, NEW given, NEW k \in 0..RcvWnd,
         InSequence(p, queue, given), AheadOf(p, buf),
         rcv_nxt[p] <= snd_nxt[Peer(p)],
         MoveToQueue(p, buf, queue, k),
         delivered' = [delivered EXCEPT ![p] = given],
         UNCHANGED <<log, snd_nxt>>,
         acklist'[p] \subseteq 0..(rcv_nxt[p] - 1) \cup DOMAIN buf
  PROVE  /\ rcv_nxt' \in [Peers -> Nat]
         /\ rcv_queue' \in [Peers -> Seq(Interval)]
         /\ delivered' \in [Peers -> Seq(Interval)]
         /\ \A q \in Peers : /\ DOMAIN rcv_buf'[q] \subseteq Nat
                             /\ rcv_buf'[q] \in [DOMAIN rcv_buf'[q] -> Interval]
         /\ ReceiverInv(p)'
         /\ rcv_nxt[p] <= rcv_nxt'[p]
         /\ 0..(rcv_nxt[p] - 1) \cup DOMAIN buf \subseteq Received(p)'
<1>. DEFINE nxt == rcv_nxt[p]
            tail == Moved(buf, nxt, k)
            kept == Kept(buf, nxt, k)
<1>0. nxt \in Nat /\ k \in Nat /\ RcvWnd \in Nat /\ snd_nxt[Peer(p)] \in Nat
  BY KcpAssumption, PeerFacts DEF TypeOK
<1>1. /\ \A i \in nxt..(nxt + k - 1) : i \in DOMAIN buf
      /\ k > 0 => Len(queue) + k <= RcvWnd
      /\ rcv_nxt' = [rcv_nxt EXCEPT ![p] = nxt + k]
      /\ rcv_nxt'[p] = nxt + k
      /\ rcv_queue' = [rcv_queue EXCEPT ![p] = queue \o tail]
      /\ rcv_queue'[p] = queue \o tail
      /\ rcv_buf'[p] = [sn \in kept |-> buf[sn]]
      /\ \A q \in Peers : q # p => rcv_buf'[q] = rcv_buf[q]
  BY MoveParts
<1>2. /\ tail \in Seq(Interval)
      /\ Len(tail) = k
      /\ \A i \in 1..k : tail[i] = log[Peer(p)][nxt + i]
  BY <1>0, <1>1, MovedFacts
<1>. HIDE DEF tail, kept
<1>3. /\ queue \o tail \in Seq(Interval)
      /\ Len(queue \o tail) = Len(queue) + k
      /\ Len(given) + Len(queue \o tail) = nxt + k
      /\ \A i \in 1..(nxt + k) : (given \o (queue \o tail))[i] = log[Peer(p)][i]
  <2>1. tail \in Seq(Interval) /\ k \in Nat /\ Len(tail) = k /\ rcv_nxt[p] \in Nat
    BY <1>0, <1>2
  <2>2. \A i \in 1..k : tail[i] = log[Peer(p)][rcv_nxt[p] + i]
    BY <1>2
  <2>3. Grown(p, given, queue, tail, k)
    BY <2>1, <2>2, SequenceGrows
  <2>. QED BY <2>3 DEF Grown
<1>4. given \in Seq(Interval) /\ delivered'[p] = given
  BY DEF InSequence, TypeOK
<1>5. /\ rcv_nxt' \in [Peers -> Nat]
      /\ rcv_queue' \in [Peers -> Seq(Interval)]
      /\ delivered' \in [Peers -> Seq(Interval)]
  <2>0. nxt + k \in Nat
    BY <1>0
  <2>1. rcv_nxt \in [Peers -> Nat]
    BY DEF TypeOK
  <2>2. rcv_queue \in [Peers -> Seq(Interval)] /\ delivered \in [Peers -> Seq(Interval)]
    BY DEF TypeOK
  <2>3. rcv_nxt' \in [Peers -> Nat]
    BY <1>1, <2>0, <2>1
  <2>4. rcv_queue' \in [Peers -> Seq(Interval)]
    BY <1>1, <1>3, <2>2
  <2>5. delivered' \in [Peers -> Seq(Interval)]
    BY <1>4, <2>2
  <2>. QED BY <2>3, <2>4, <2>5
<1>6. ASSUME NEW q \in Peers
      PROVE  /\ DOMAIN rcv_buf'[q] \subseteq Nat
             /\ rcv_buf'[q] \in [DOMAIN rcv_buf'[q] -> Interval]
  <2>1. CASE q = p
    BY <1>1, <2>1 DEF AheadOf, Kept, kept
  <2>2. CASE q # p
    BY <1>1, <2>2 DEF TypeOK
  <2>. QED BY <2>1, <2>2
<1>7. 0..(nxt - 1) \cup DOMAIN buf \subseteq Received(p)'
  <2>0. DOMAIN rcv_buf'[p] = kept /\ rcv_nxt'[p] = nxt + k
    BY <1>1
  <2>1. Received(p)' = 0..(nxt + k - 1) \cup kept
    <3>1. Received(p)' = 0..(rcv_nxt'[p] - 1) \cup DOMAIN rcv_buf'[p]
      BY Zenon DEF Received
    <3>2. rcv_nxt'[p] - 1 = nxt + k - 1
      BY <1>0, <2>0
    <3>. QED BY <2>0, <3>1, <3>2, Zenon
  <2>2. \A sn \in DOMAIN buf : sn \in 0..(nxt + k - 1) \/ sn \in kept
    BY <1>0 DEF AheadOf, Kept, kept
  <2>. QED BY <1>0, <2>1, <2>2
<1>8. nxt + k <= snd_nxt[Peer(p)]
  <2>1. CASE k = 0
    BY <1>0, <2>1
  <2>2. CASE k > 0
    <3>1. nxt + k - 1 \in DOMAIN buf
      BY <1>0, <1>1, <2>2
    <3>. QED BY <1>0, <3>1 DEF AheadOf
  <2>. QED BY <1>0, <2>1, <2>2
<1>9. Len(queue \o tail) <= RcvWnd
  BY <1>0, <1>1, <1>3, LenProperties DEF InSequence
<1>10. \A sn \in kept : /\ nxt + k <= sn
                        /\ sn < nxt + k + RcvWnd
                        /\ sn < snd_nxt[Peer(p)]
                        /\ buf[sn] = log[Peer(p)][sn + 1]
  BY <1>0 DEF AheadOf, Kept, kept
<1>11. ReceiverInv(p)'
  <2>1. snd_nxt' = snd_nxt /\ log' = log
    OBVIOUS
  <2>2. acklist'[p] \subseteq Received(p)'
    BY <1>7
  <2>. QED BY <1>1, <1>3, <1>4, <1>8, <1>9, <1>10, <2>1, <2>2 DEF ReceiverInv, Peer
<1>. QED BY <1>0, <1>1, <1>5, <1>6, <1>7, <1>11

-----------------------------------------------------------------------------
(***************************************************************************)
(* A step of p.  What the peer knows of p stays true when p only grows,    *)
(* and what p knows of the peer stays true because the peer is idle.       *)
(***************************************************************************)
Grows(p) ==
  /\ rcv_nxt[p] <= rcv_nxt'[p]
  /\ Received(p) \subseteq Received(p)'
  /\ snd_nxt[p] <= snd_nxt'[p]
  /\ \A i \in 1..snd_nxt[p] : log'[p][i] = log[p][i]

IdleSender(p) ==
  /\ snd_nxt'[p] = snd_nxt[p]
  /\ snd_una'[p] = snd_una[p]
  /\ snd_buf'[p] = snd_buf[p]
  /\ xmit'[p] = xmit[p]
  /\ log'[p] = log[p]

IdleReceiver(p) ==
  /\ rcv_nxt'[p] = rcv_nxt[p]
  /\ rcv_buf'[p] = rcv_buf[p]
  /\ rcv_queue'[p] = rcv_queue[p]
  /\ delivered'[p] = delivered[p]
  /\ acklist'[p] \subseteq acklist[p]

LEMMA IdleReceived ==
  ASSUME NEW p \in Peers, IdleReceiver(p)
  PROVE  Received(p)' = Received(p)
<1>1. Received(p)' = 0..(rcv_nxt'[p] - 1) \cup DOMAIN rcv_buf'[p]
  BY Zenon DEF Received
<1>2. Received(p)' = 0..(rcv_nxt[p] - 1) \cup DOMAIN rcv_buf[p]
  BY <1>1, Zenon DEF IdleReceiver
<1>. QED BY <1>2, Zenon DEF Received

LEMMA SenderStays ==
  ASSUME NEW p \in Peers, SenderInv(p), IdleSender(p),
         Received(Peer(p)) \subseteq Received(Peer(p))'
  PROVE  SenderInv(p)'
<1>1. /\ Len(log'[p]) = snd_nxt'[p]
      /\ snd_una'[p] <= snd_nxt'[p]
      /\ snd_nxt'[p] <= snd_una'[p] + SndWnd
      /\ \A sn \in snd_buf'[p] : snd_una'[p] <= sn /\ sn < snd_nxt'[p]
      /\ xmit'[p] \subseteq snd_buf'[p]
  BY Zenon DEF SenderInv, IdleSender
<1>2. \A sn \in 0..(snd_nxt'[p] - 1) : sn \in snd_buf'[p] \/ sn \in Received(Peer(p))'
  BY Zenon DEF SenderInv, IdleSender
<1>. QED BY <1>1, <1>2, Zenon DEF SenderInv

LEMMA ReceiverStays ==
  ASSUME TypeOK, TypeOK', NEW p \in Peers, ReceiverInv(p), IdleReceiver(p), Grows(Peer(p))
  PROVE  ReceiverInv(p)'
<1>. DEFINE q == Peer(p)
<1>0. /\ q \in Peers
      /\ rcv_nxt[p] \in Nat
      /\ snd_nxt[q] \in Nat /\ snd_nxt'[q] \in Nat
      /\ rcv_nxt[p] <= snd_nxt[q]
      /\ DOMAIN rcv_buf[p] \subseteq Nat
  BY PeerFacts DEF TypeOK, ReceiverInv
<1>1. /\ snd_nxt[q] <= snd_nxt'[q]
      /\ \A i \in 1..snd_nxt[q] : log'[q][i] = log[q][i]
  BY Zenon DEF Grows
<1>2. /\ rcv_nxt'[p] = rcv_nxt[p]
      /\ rcv_buf'[p] = rcv_buf[p]
      /\ rcv_queue'[p] = rcv_queue[p]
      /\ delivered'[p] = delivered[p]
      /\ acklist'[p] \subseteq acklist[p]
  BY DEF IdleReceiver
<1>3. rcv_nxt'[p] <= snd_nxt'[q]
  BY <1>0, <1>1, <1>2
<1>4. /\ Len(delivered'[p]) + Len(rcv_queue'[p]) = rcv_nxt'[p]
      /\ Len(rcv_queue'[p]) <= RcvWnd
  BY <1>2 DEF ReceiverInv
<1>5. ASSUME NEW i \in 1..rcv_nxt'[p]
      PROVE  (delivered'[p] \o rcv_queue'[p])[i] = log'[q][i]
  <2>1. i \in 1..rcv_nxt[p] /\ i \in 1..snd_nxt[q]
    BY <1>0, <1>2
  <2>2. (delivered[p] \o rcv_queue[p])[i] = log[q][i]
    BY <2>1 DEF ReceiverInv
  <2>. QED BY <1>1, <1>2, <2>1, <2>2
<1>6. ASSUME NEW sn \in DOMAIN rcv_buf'[p]
      PROVE  /\ rcv_nxt'[p] <= sn
             /\ sn < rcv_nxt'[p] + RcvWnd
             /\ sn < snd_nxt'[q]
             /\ rcv_buf'[p][sn] = log'[q][sn + 1]
  <2>1. sn \in DOMAIN rcv_buf[p] /\ sn \in Nat
    BY <1>0, <1>2
  <2>2. /\ rcv_nxt[p] <= sn
        /\ sn < rcv_nxt[p] + RcvWnd
        /\ sn < snd_nxt[q]
        /\ rcv_buf[p][sn] = log[q][sn + 1]
    BY <2>1 DEF ReceiverInv
  <2>3. sn < snd_nxt'[q] /\ sn + 1 \in 1..snd_nxt[q]
    BY <1>0, <1>1, <2>1, <2>2
  <2>. QED BY <1>1, <1>2, <2>2, <2>3
<1>7. acklist'[p] \subseteq Received(p)'
  BY <1>2, IdleReceived, Zenon DEF ReceiverInv
<1>. QED BY <1>3, <1>4, <1>5, <1>6, <1>7, Zenon DEF ReceiverInv

LEMMA InFlightStays ==
  ASSUME TypeOK, TypeOK', NEW p \in Peers, NEW m \in Segment, NetInv(p, m), Grows(Peer(p))
  PROVE  NetInv(p, m)'
<1>. DEFINE q == Peer(p)
<1>0. /\ q \in Peers
      /\ rcv_nxt[q] \in Nat /\ rcv_nxt'[q] \in Nat
      /\ snd_nxt[q] \in Nat /\ snd_nxt'[q] \in Nat
      /\ m.una \in Nat /\ m.sn \in Nat
  BY PeerFacts DEF TypeOK, Segment
<1>1. /\ rcv_nxt[q] <= rcv_nxt'[q]
      /\ Received(q) \subseteq Received(q)'
      /\ snd_nxt[q] <= snd_nxt'[q]
      /\ \A i \in 1..snd_nxt[q] : log'[q][i] = log[q][i]
  BY Zenon DEF Grows
<1>2. m.una <= rcv_nxt'[q]
  BY <1>0, <1>1 DEF NetInv
<1>3. m.cmd = "ACK" => m.sn \in Received(q)'
  BY <1>1, Zenon DEF NetInv
<1>4. ASSUME m.cmd = "PUSH"
      PROVE  m.sn < snd_nxt'[q] /\ m.data = log'[q][m.sn + 1]
  <2>1. m.sn < snd_nxt[q] /\ m.data = log[q][m.sn + 1]
    BY <1>4 DEF NetInv
  <2>2. m.sn + 1 \in 1..snd_nxt[q]
    BY <1>0, <2>1
  <2>. QED BY <1>0, <1>1, <2>1, <2>2
<1>. QED BY <1>2, <1>3, <1>4, Zenon DEF NetInv

(* What it takes for a step of p to keep the invariant. *)
LEMMA StepOfPeer ==
  ASSUME IInv, TypeOK', NEW p \in Peers,
         SenderInv(p)', ReceiverInv(p)', Grows(p),
         IdleSender(Peer(p)), IdleReceiver(Peer(p)),
         net'[p] \subseteq net[p],
         \A m \in net'[Peer(p)] : m \in net[Peer(p)] \/ NetInv(Peer(p), m)'
  PROVE  IInv'
<1>. DEFINE q == Peer(p)
<1>0. /\ q \in Peers /\ Peer(q) = p
      /\ \A r \in Peers : r = p \/ r = q
  BY PeerFacts
<1>1. TypeOK /\ SenderInv(q) /\ ReceiverInv(q)
  BY <1>0, Zenon DEF IInv
<1>2. Received(q)' = Received(q)
  BY <1>0, IdleReceived, Zenon
<1>3. Grows(q)
  <2>1. snd_nxt[q] \in Nat /\ rcv_nxt[q] \in Nat
    BY <1>0, <1>1 DEF TypeOK
  <2>2. /\ snd_nxt'[q] = snd_nxt[q] /\ rcv_nxt'[q] = rcv_nxt[q] /\ log'[q] = log[q]
    BY Zenon DEF IdleSender, IdleReceiver
  <2>3. snd_nxt[q] <= snd_nxt'[q] /\ rcv_nxt[q] <= rcv_nxt'[q]
    BY <2>1, <2>2
  <2>. QED BY <1>2, <2>2, <2>3, Zenon DEF Grows
<1>4. SenderInv(q)'
  <2>1. Received(p) \subseteq Received(p)'
    BY Zenon DEF Grows
  <2>. QED BY <1>0, <1>1, <2>1, SenderStays, Zenon
<1>5. ReceiverInv(q)'
  BY <1>0, <1>1, ReceiverStays, Zenon
<1>6. ASSUME NEW m \in net'[p] PROVE NetInv(p, m)'
  <2>1. m \in net[p] /\ NetInv(p, m)
    BY <1>6, Zenon DEF IInv
  <2>2. m \in Segment
    BY <1>1, <2>1 DEF TypeOK
  <2>. QED BY <1>1, <1>3, <2>1, <2>2, InFlightStays, Zenon
<1>7. ASSUME NEW m \in net'[q] PROVE NetInv(q, m)'
  <2>1. CASE m \in net[q]
    <3>1. NetInv(q, m) /\ m \in Segment
      BY <1>0, <1>1, <2>1 DEF IInv, TypeOK
    <3>. QED BY <1>0, <1>1, <3>1, InFlightStays, Zenon
  <2>. QED BY <2>1, Zenon
<1>. QED BY <1>0, <1>4, <1>5, <1>6, <1>7, Zenon DEF IInv

-----------------------------------------------------------------------------
(* The initial state. *)
LEMMA InitInv == Init => IInv
<1>. SUFFICES ASSUME Init PROVE IInv
  OBVIOUS
<1>1. TypeOK
  <2>1. \A p \in Peers : /\ DOMAIN rcv_buf[p] \subseteq Nat
                         /\ rcv_buf[p] \in [DOMAIN rcv_buf[p] -> Interval]
    <3>. SUFFICES ASSUME NEW p \in Peers
                  PROVE /\ DOMAIN rcv_buf[p] \subseteq Nat
                        /\ rcv_buf[p] \in [DOMAIN rcv_buf[p] -> Interval]
      OBVIOUS
    <3>1. rcv_buf[p] = << >>
      BY DEF Init
    <3>2. << >> \in Seq(Interval) /\ Len(<< >>) = 0
      OBVIOUS
    <3>. QED BY <3>1, <3>2
  <2>2. \A p \in Peers : probe[p] = {} /\ snd_buf[p] = {} /\ xmit[p] = {} /\ acklist[p] = {}
    BY DEF Init
  <2>. QED BY <2>1, KcpAssumption DEF Init, TypeOK, Segment
<1>2. ASSUME NEW p \in Peers PROVE SenderInv(p) /\ ReceiverInv(p)
  <2>1. /\ log[p] = << >> /\ snd_nxt[p] = 0 /\ snd_una[p] = 0
        /\ snd_buf[p] = {} /\ xmit[p] = {} /\ acklist[p] = {}
        /\ rcv_nxt[p] = 0 /\ rcv_buf[p] = << >>
        /\ rcv_queue[p] = << >> /\ delivered[p] = << >>
        /\ snd_nxt[Peer(p)] = 0
    BY PeerFacts DEF Init
  <2>2. SenderInv(p)
    BY <2>1, KcpAssumption DEF SenderInv
  <2>3. ReceiverInv(p)
    BY <2>1, KcpAssumption DEF ReceiverInv
  <2>. QED BY <2>2, <2>3
<1>3. \A p \in Peers : net[p] = {}
  BY DEF Init
<1>. QED BY <1>1, <1>2, <1>3 DEF IInv

(* Actions that leave what IInv is about alone. *)
LEMMA IdleStep ==
  ASSUME IInv, TypeOK',
         UNCHANGED <<snd_nxt, snd_una, snd_buf, xmit, log, rcvvars>>,
         \A p \in Peers : net'[p] \subseteq net[p]
  PROVE  IInv'
<1>1. PICK p \in Peers : TRUE
  BY DEF Peers
<1>2. TypeOK /\ SenderInv(p) /\ ReceiverInv(p)
  BY <1>1, Zenon DEF IInv
<1>3. Peer(p) \in Peers
  BY <1>1, PeerFacts
<1>4. \A q \in Peers : IdleSender(q) /\ IdleReceiver(q)
  BY DEF IdleSender, IdleReceiver, rcvvars
<1>5. ASSUME NEW q \in Peers PROVE Grows(q)
  <2>1. Received(q)' = Received(q)
    BY <1>4, IdleReceived
  <2>2. snd_nxt[q] \in Nat /\ rcv_nxt[q] \in Nat /\ snd_nxt' = snd_nxt /\ rcv_nxt' = rcv_nxt /\ log' = log
    BY <1>2 DEF TypeOK, rcvvars
  <2>3. snd_nxt[q] <= snd_nxt'[q] /\ rcv_nxt[q] <= rcv_nxt'[q]
    BY <2>2
  <2>. QED BY <2>1, <2>2, <2>3, Zenon DEF Grows
<1>6. SenderInv(p)'
  <2>1. Received(Peer(p)) \subseteq Received(Peer(p))'
    BY <1>3, <1>5, Zenon DEF Grows
  <2>. QED BY <1>2, <1>4, <2>1, SenderStays, Zenon
<1>7. ReceiverInv(p)'
  BY <1>2, <1>3, <1>4, <1>5, ReceiverStays, Zenon
<1>. QED BY <1>1, <1>3, <1>4, <1>5, <1>6, <1>7, StepOfPeer, Zenon

LEMMA SendStep ==
  ASSUME IInv, NEW p \in Peers, NEW n \in Nat \ {0}, Send(p, n)
  PROVE  IInv'
<1>. DEFINE e == Extend(p, n)
            base == Extended(snd_queue[p], e)
<1>1. TypeOK
  BY DEF IInv
<1>2. /\ snd_queue \in [Peers -> Seq(Interval)]
      /\ written \in [Peers -> Nat]
      /\ snd_queue[p] \in Seq(Interval)
      /\ written[p] \in Nat
  BY <1>1 DEF TypeOK
<1>3. Mss \in Nat
  BY KcpAssumption
<1>4. e \in 0..n /\ (e # 0 => snd_queue[p] # << >>)
  <2>1. snd_queue[p] # << >> => Bytes(snd_queue[p][Len(snd_queue[p])]) \in Int
    <3>. SUFFICES ASSUME snd_queue[p] # << >>
                  PROVE Bytes(snd_queue[p][Len(snd_queue[p])]) \in Int
      OBVIOUS
    <3>1. Len(snd_queue[p]) \in 1..Len(snd_queue[p])
      BY <1>2, EmptySeq, LenProperties
    <3>2. snd_queue[p][Len(snd_queue[p])] \in Interval
      BY <1>2, <3>1
    <3>. QED BY <3>2 DEF Bytes, Interval
  <2>. QED BY <1>3, <2>1 DEF Extend, Least
<1>5. base \in Seq(Interval)
  <2>1. CASE e = 0
    BY <1>2, <2>1 DEF Extended
  <2>2. CASE e # 0
    <3>. DEFINE q == snd_queue[p]
                last == q[Len(q)]
                longer == [last EXCEPT !.hi = @ + e]
    <3>1. q \in Seq(Interval) /\ Len(q) \in 1..Len(q)
      BY <1>2, <1>4, <2>2, EmptySeq, LenProperties
    <3>2. last \in Interval
      BY <3>1
    <3>3. longer \in Interval
      BY <1>4, <3>2 DEF Interval
    <3>4. [q EXCEPT ![Len(q)] = longer] \in Seq(Interval)
      BY <3>1, <3>3, ExceptSeq
    <3>. QED BY <2>2, <3>4 DEF Extended
  <2>. QED BY <2>1, <2>2
<1>. HIDE DEF e, base
<1>6. /\ snd_queue' \in [Peers -> Seq(Interval)]
      /\ written' \in [Peers -> Nat]
  <2>1. CASE /\ snd_queue' = [snd_queue EXCEPT ![p] = base]
             /\ written' = [written EXCEPT ![p] = @ + e]
    BY <1>2, <1>4, <1>5, <2>1
  <2>2. CASE /\ snd_queue' = [snd_queue EXCEPT ![p] = base \o Fragmented(written[p] + e, n - e)]
             /\ written' = [written EXCEPT ![p] = @ + n]
    <3>1. written[p] + e \in Nat /\ n - e \in Nat
      BY <1>2, <1>4
    <3>2. Fragmented(written[p] + e, n - e) \in Seq(Interval)
      BY <3>1, FragmentedType
    <3>3. base \o Fragmented(written[p] + e, n - e) \in Seq(Interval)
      BY <1>5, <3>2, ConcatProperties
    <3>. QED BY <1>2, <2>2, <3>3
  <2>. QED BY <2>1, <2>2, Zenon DEF Send, e, base
<1>7. UNCHANGED <<snd_nxt, snd_una, snd_buf, xmit, log, prbvars, rcvvars, netvars>>
  BY DEF Send
<1>8. TypeOK'
  BY <1>1, <1>6, <1>7 DEF TypeOK, prbvars, rcvvars, netvars
<1>. QED BY <1>7, <1>8, IdleStep DEF netvars

LEMMA LoseStep ==
  ASSUME IInv, NEW p \in Peers, NEW m, Lose(p, m)
  PROVE  IInv'
<1>1. UNCHANGED <<sndvars, prbvars, rcvvars>>
  BY DEF Lose
<1>2. /\ net' = [net EXCEPT ![p] = net[p] \ {m}]
      /\ faults' = faults + 1
      /\ net \in [Peers -> SUBSET Segment]
      /\ faults \in Nat
  BY DEF Lose, IInv, TypeOK
<1>3. net' \in [Peers -> SUBSET Segment] /\ faults' \in Nat
  BY <1>2
<1>4. TypeOK'
  BY <1>1, <1>3 DEF IInv, TypeOK, sndvars, prbvars, rcvvars
<1>5. \A q \in Peers : net'[q] \subseteq net[q]
  BY <1>2
<1>. QED BY <1>1, <1>4, <1>5, IdleStep DEF sndvars

(* rcv_buf keeps its shape when payloads are moved. *)
LEMMA BufferShape ==
  ASSUME TypeOK, NEW p, NEW buf, NEW queue, NEW k, MoveToQueue(p, buf, queue, k)
  PROVE  rcv_buf' = [q \in Peers |-> rcv_buf'[q]]
<1>1. rcv_buf = [q \in Peers |-> rcv_buf[q]]
  BY DEF TypeOK
<1>2. DOMAIN rcv_buf = Peers
  BY <1>1
<1>3. rcv_buf' = [rcv_buf EXCEPT ![p] = [sn \in Kept(buf, rcv_nxt[p], k) |-> buf[sn]]]
  BY DEF MoveToQueue, Kept
<1>. QED BY <1>2, <1>3

(* What is delivered by a read and what stays queued are still in sequence. *)
LEMMA ReadInSequence ==
  ASSUME TypeOK, NEW p \in Peers, ReceiverInv(p), NEW n \in 0..Len(rcv_queue[p])
  PROVE  InSequence(p, SubSeq(rcv_queue[p], n + 1, Len(rcv_queue[p])),
                       delivered[p] \o SubSeq(rcv_queue[p], 1, n))
<1>. DEFINE q == rcv_queue[p]
            d == delivered[p]
            head == SubSeq(q, 1, n)
            rest == SubSeq(q, n + 1, Len(q))
<1>1. /\ q \in Seq(Interval) /\ d \in Seq(Interval)
      /\ Len(q) \in Nat /\ Len(d) \in Nat /\ n \in Nat /\ n <= Len(q)
      /\ rcv_nxt[p] \in Nat
  BY LenProperties DEF TypeOK
<1>2. /\ Len(d) + Len(q) = rcv_nxt[p]
      /\ \A i \in 1..rcv_nxt[p] : (d \o q)[i] = log[Peer(p)][i]
      /\ Len(q) <= RcvWnd
  BY DEF ReceiverInv
<1>. HIDE DEF q, d
<1>3. /\ head \in Seq(Interval)
      /\ Len(head) = n
      /\ \A i \in 1..n : head[i] = q[i]
  BY <1>1, SubSeqFacts
<1>4. /\ rest \in Seq(Interval)
      /\ Len(rest) = Len(q) - n
      /\ \A i \in 1..(Len(q) - n) : rest[i] = q[n + i]
  BY <1>1, SubSeqFacts
<1>. HIDE DEF head, rest
<1>5. /\ d \o head \in Seq(Interval)
      /\ Len(d \o head) = Len(d) + n
      /\ \A i \in 1..(Len(d) + n) : (d \o head)[i] = IF i <= Len(d) THEN d[i] ELSE head[i - Len(d)]
  BY <1>1, <1>3, ConcatProperties
<1>6. \A i \in 1..rcv_nxt[p] : (d \o q)[i] = IF i <= Len(d) THEN d[i] ELSE q[i - Len(d)]
  BY <1>1, <1>2, ConcatProperties
<1>7. \A i \in 1..rcv_nxt[p] : ((d \o head) \o rest)[i] =
         IF i <= Len(d) + n THEN (d \o head)[i] ELSE rest[i - (Len(d) + n)]
  <2>1. \A i \in 1..(Len(d \o head) + Len(rest)) : ((d \o head) \o rest)[i] =
           IF i <= Len(d \o head) THEN (d \o head)[i] ELSE rest[i - Len(d \o head)]
    BY <1>4, <1>5, ConcatProperties
  <2>2. Len(d \o head) + Len(rest) = rcv_nxt[p]
    BY <1>1, <1>2, <1>4, <1>5
  <2>. QED BY <1>5, <2>1, <2>2, Zenon
<1>8. ASSUME NEW i \in 1..rcv_nxt[p]
      PROVE  ((d \o head) \o rest)[i] = (d \o q)[i]
  <2>0. i \in Nat /\ i >= 1 /\ i <= rcv_nxt[p]
    BY <1>1
  <2>1. CASE i <= Len(d)
    BY <1>1, <1>5, <1>6, <1>7, <2>0, <2>1
  <2>2. CASE i > Len(d) /\ i <= Len(d) + n
    <3>1. i - Len(d) \in 1..n /\ i \in 1..(Len(d) + n) /\ ~ (i <= Len(d))
      BY <1>1, <2>0, <2>2
    <3>. QED BY <1>3, <1>5, <1>6, <1>7, <2>2, <3>1
  <2>3. CASE i > Len(d) + n
    <3>1. /\ i - (Len(d) + n) \in 1..(Len(q) - n)
          /\ n + (i - (Len(d) + n)) = i - Len(d)
          /\ ~ (i <= Len(d)) /\ ~ (i <= Len(d) + n)
      BY <1>1, <1>2, <2>0, <2>3
    <3>2. rest[i - (Len(d) + n)] = q[i - Len(d)]
      BY <1>4, <3>1
    <3>. QED BY <1>6, <1>7, <3>1, <3>2
  <2>4. i <= Len(d) \/ (i > Len(d) /\ i <= Len(d) + n) \/ i > Len(d) + n
    BY <1>1, <2>0
  <2>. QED BY <2>1, <2>2, <2>3, <2>4
<1>9. Len(d \o head) + Len(rest) = rcv_nxt[p] /\ Len(rest) <= RcvWnd
  BY <1>1, <1>2, <1>4, <1>5, KcpAssumption
<1>10. InSequence(p, rest, d \o head)
  BY <1>2, <1>4, <1>5, <1>8, <1>9 DEF InSequence
<1>. QED BY <1>10 DEF q, d, head, rest

LEMMA BufferAhead ==
  ASSUME TypeOK, NEW p \in Peers, ReceiverInv(p)
  PROVE  AheadOf(p, rcv_buf[p])
BY DEF TypeOK, ReceiverInv, AheadOf

LEMMA RecvStep ==
  ASSUME IInv, NEW p \in Peers, NEW len, Recv(p, len)
  PROVE  IInv'
<1>0. TypeOK /\ SenderInv(p) /\ ReceiverInv(p)
  BY DEF IInv
<1>1. PICK n \in 0..Len(rcv_queue[p]), k \in 0..RcvWnd :
        /\ delivered' = [delivered EXCEPT ![p] = @ \o SubSeq(rcv_queue[p], 1, n)]
        /\ MoveToQueue(p, rcv_buf[p], SubSeq(rcv_queue[p], n + 1, Len(rcv_queue[p])), k)
        /\ \E f \in SUBSET {"ASK_TELL"} : probe' = [probe EXCEPT ![p] = @ \cup f]
  <2>1. PICK n \in 0..Len(rcv_queue[p]), k \in 0..RcvWnd :
        /\ delivered' = [delivered EXCEPT ![p] = @ \o SubSeq(rcv_queue[p], 1, n)]
        /\ MoveToQueue(p, rcv_buf[p], SubSeq(rcv_queue[p], n + 1, Len(rcv_queue[p])), k)
        /\ probe' = [probe EXCEPT ![p] =
             IF Len(rcv_queue[p]) >= RcvWnd /\ Len(rcv_queue[p]) - n + k < RcvWnd
             THEN @ \cup {"ASK_TELL"} ELSE @]
    BY Zenon DEF Recv
  <2>2. CASE Len(rcv_queue[p]) >= RcvWnd /\ Len(rcv_queue[p]) - n + k < RcvWnd
    BY <2>1, <2>2
  <2>3. CASE ~ (Len(rcv_queue[p]) >= RcvWnd /\ Len(rcv_queue[p]) - n + k < RcvWnd)
    <3>1. probe' = [probe EXCEPT ![p] = @ \cup {}]
      BY <2>1, <2>3
    <3>. QED BY <2>1, <3>1
  <2>. QED BY <2>2, <2>3
<1>2. UNCHANGED <<sndvars, rmt_wnd, probing, acklist, netvars>>
  BY DEF Recv
<1>. DEFINE queue == SubSeq(rcv_queue[p], n + 1, Len(rcv_queue[p]))
            given == delivered[p] \o SubSeq(rcv_queue[p], 1, n)
<1>3. InSequence(p, queue, given)
  BY <1>0, ReadInSequence
<1>4. AheadOf(p, rcv_buf[p])
  BY <1>0, BufferAhead
<1>5. delivered' = [delivered EXCEPT ![p] = given]
  BY <1>1
<1>. HIDE DEF queue, given
<1>6. /\ MoveToQueue(p, rcv_buf[p], queue, k)
      /\ rcv_nxt[p] <= snd_nxt[Peer(p)]
      /\ acklist'[p] \subseteq 0..(rcv_nxt[p] - 1) \cup DOMAIN rcv_buf[p]
      /\ UNCHANGED <<log, snd_nxt>>
  BY <1>0, <1>1, <1>2 DEF ReceiverInv, Received, sndvars, queue
<1>7. /\ rcv_nxt' \in [Peers -> Nat]
      /\ rcv_queue' \in [Peers -> Seq(Interval)]
      /\ delivered' \in [Peers -> Seq(Interval)]
      /\ \A q \in Peers : /\ DOMAIN rcv_buf'[q] \subseteq Nat
                          /\ rcv_buf'[q] \in [DOMAIN rcv_buf'[q] -> Interval]
      /\ ReceiverInv(p)'
      /\ rcv_nxt[p] <= rcv_nxt'[p]
      /\ 0..(rcv_nxt[p] - 1) \cup DOMAIN rcv_buf[p] \subseteq Received(p)'
  BY <1>0, <1>3, <1>4, <1>5, <1>6, MoveFacts
<1>8. TypeOK'
  <2>1. probe' \in [Peers -> SUBSET AskFlags]
    BY <1>0, <1>1 DEF TypeOK, AskFlags
  <2>2. rcv_buf' = [q \in Peers |-> rcv_buf'[q]]
    BY <1>0, <1>6, BufferShape
  <2>. QED BY <1>0, <1>2, <1>7, <2>1, <2>2 DEF TypeOK, sndvars, netvars
<1>9. Grows(p)
  <2>1. snd_nxt[p] \in Nat
    BY <1>0 DEF TypeOK
  <2>. QED BY <1>6, <1>7, <2>1 DEF Grows, Received
<1>10. IdleSender(p) /\ IdleSender(Peer(p))
  BY <1>2 DEF IdleSender, sndvars
<1>11. IdleReceiver(Peer(p))
  <2>1. \A q \in Peers : q # p => /\ rcv_nxt'[q] = rcv_nxt[q]
                                  /\ rcv_buf'[q] = rcv_buf[q]
                                  /\ rcv_queue'[q] = rcv_queue[q]
                                  /\ delivered'[q] = delivered[q]
    BY <1>0, <1>5, <1>6 DEF TypeOK, MoveToQueue
  <2>. QED BY <1>2, <2>1, PeerFacts DEF IdleReceiver
<1>12. SenderInv(p)'
  <2>1. Received(Peer(p)) \subseteq Received(Peer(p))'
    BY <1>11, PeerFacts, IdleReceived
  <2>. QED BY <1>0, <1>10, <2>1, SenderStays, Zenon
<1>13. net' = net
  BY <1>2 DEF netvars
<1>. QED BY <1>7, <1>8, <1>9, <1>10, <1>11, <1>12, <1>13, StepOfPeer

(***************************************************************************)
(* ikcp_input.  m is in flight to p; net' is what Receive or ReceiveTwice  *)
(* make of net.                                                            *)
(***************************************************************************)
LEMMA AckInputFacts ==
  ASSUME TypeOK, NEW p \in Peers, NEW m \in Segment, SenderInv(p), NetInv(p, m),
         AckInput(p, m), IdleReceiver(Peer(p))
  PROVE  /\ snd_una' \in [Peers -> Nat]
         /\ snd_buf' \in [Peers -> SUBSET Nat]
         /\ xmit' \in [Peers -> SUBSET Nat]
         /\ rmt_wnd' \in [Peers -> Nat]
         /\ SenderInv(p)'
         /\ snd_una[p] <= snd_una'[p]
         /\ snd_buf'[p] \subseteq snd_buf[p]
         /\ IdleSender(Peer(p))
<1>. DEFINE left == Unacked(p, m)
<1>0. /\ snd_nxt[p] \in Nat /\ snd_una[p] \in Nat
      /\ snd_buf[p] \subseteq Nat /\ xmit[p] \subseteq Nat
      /\ m.una \in Nat /\ m.wnd \in Nat /\ m.sn \in Nat
      /\ Peer(p) \in Peers /\ Peer(p) # p
      /\ SndWnd \in Nat
  BY PeerFacts, KcpAssumption DEF TypeOK, Segment
<1>1. PICK u \in left \cup {snd_nxt[p]} :
        /\ \A sn \in left : u <= sn
        /\ snd_una' = [snd_una EXCEPT ![p] = u]
  BY DEF AckInput, ShrinkBuf
<1>2. /\ rmt_wnd' = [rmt_wnd EXCEPT ![p] = m.wnd]
      /\ snd_buf' = [snd_buf EXCEPT ![p] = left]
      /\ xmit' = [xmit EXCEPT ![p] = xmit[p] \cap left]
      /\ snd_nxt' = snd_nxt /\ log' = log
  BY DEF AckInput
<1>3. left \subseteq snd_buf[p]
  BY DEF Unacked
<1>4. u \in Nat
  BY <1>0, <1>3
<1>5. /\ snd_una' \in [Peers -> Nat]
      /\ snd_buf' \in [Peers -> SUBSET Nat]
      /\ xmit' \in [Peers -> SUBSET Nat]
      /\ rmt_wnd' \in [Peers -> Nat]
  <2>1. snd_una' \in [Peers -> Nat]
    BY <1>1, <1>4 DEF TypeOK
  <2>2. snd_buf' \in [Peers -> SUBSET Nat]
    BY <1>0, <1>2, <1>3 DEF TypeOK
  <2>3. xmit' \in [Peers -> SUBSET Nat]
    BY <1>0, <1>2 DEF TypeOK
  <2>4. rmt_wnd' \in [Peers -> Nat]
    BY <1>0, <1>2 DEF TypeOK
  <2>. QED BY <2>1, <2>2, <2>3, <2>4
<1>6. /\ snd_una'[p] = u
      /\ snd_buf'[p] = left
      /\ xmit'[p] = xmit[p] \cap left
      /\ snd_nxt'[p] = snd_nxt[p]
      /\ log'[p] = log[p]
  BY <1>1, <1>2 DEF TypeOK
<1>7. IdleSender(Peer(p))
  BY <1>0, <1>1, <1>2 DEF IdleSender, TypeOK
<1>8. /\ Len(log[p]) = snd_nxt[p]
      /\ snd_una[p] <= snd_nxt[p]
      /\ snd_nxt[p] <= snd_una[p] + SndWnd
      /\ \A sn \in snd_buf[p] : snd_una[p] <= sn /\ sn < snd_nxt[p]
      /\ \A sn \in 0..(snd_nxt[p] - 1) : sn \in snd_buf[p] \/ sn \in Received(Peer(p))
  BY DEF SenderInv
<1>9. snd_una[p] <= u /\ u <= snd_nxt[p]
  <2>1. CASE u = snd_nxt[p]
    BY <1>0, <1>8, <2>1
  <2>2. CASE u \in left
    BY <1>0, <1>3, <1>8, <2>2
  <2>. QED BY <2>1, <2>2
<1>10. ASSUME NEW sn \in snd_buf[p], sn \notin left
       PROVE  sn \in Received(Peer(p))
  <2>1. sn \in Nat
    BY <1>0
  <2>2. CASE ~ (sn >= m.una)
    <3>1. rcv_nxt[Peer(p)] \in Nat /\ m.una <= rcv_nxt[Peer(p)]
      BY <1>0 DEF TypeOK, NetInv
    <3>2. sn \in 0..(rcv_nxt[Peer(p)] - 1)
      BY <1>0, <2>1, <2>2, <3>1
    <3>. QED BY <3>2 DEF Received
  <2>3. CASE m.cmd = "ACK" /\ sn = m.sn
    BY <2>3 DEF NetInv
  <2>. QED BY <1>10, <2>2, <2>3 DEF Unacked
<1>11. SenderInv(p)'
  <2>1. Received(Peer(p))' = Received(Peer(p))
    BY <1>0, IdleReceived
  <2>2. \A sn \in left : u <= sn /\ sn < snd_nxt[p]
    BY <1>1, <1>3, <1>8
  <2>3. snd_nxt[p] <= u + SndWnd
    BY <1>0, <1>4, <1>8, <1>9
  <2>4. \A sn \in 0..(snd_nxt[p] - 1) : sn \in left \/ sn \in Received(Peer(p))
    BY <1>8, <1>10
  <2>5. /\ Len(log'[p]) = snd_nxt'[p]
        /\ snd_una'[p] <= snd_nxt'[p]
        /\ snd_nxt'[p] <= snd_una'[p] + SndWnd
        /\ \A sn \in snd_buf'[p] : snd_una'[p] <= sn /\ sn < snd_nxt'[p]
        /\ xmit'[p] \subseteq snd_buf'[p]
    BY <1>6, <1>8, <1>9, <2>2, <2>3
  <2>6. \A sn \in 0..(snd_nxt'[p] - 1) : sn \in snd_buf'[p] \/ sn \in Received(Peer(p))'
    BY <1>6, <2>1, <2>4, Zenon
  <2>. QED BY <2>5, <2>6, Zenon DEF SenderInv
<1>. HIDE DEF left
<1>. QED BY <1>3, <1>5, <1>6, <1>7, <1>9, <1>11

LEMMA InsertedAhead ==
  ASSUME TypeOK, NEW p \in Peers, NEW m \in Segment, ReceiverInv(p), NetInv(p, m),
         m.cmd = "PUSH", m.sn < rcv_nxt[p] + RcvWnd, m.sn >= rcv_nxt[p]
  PROVE  /\ AheadOf(p, Inserted(p, m))
         /\ DOMAIN Inserted(p, m) = DOMAIN rcv_buf[p] \cup {m.sn}
<1>1. m.sn \in Nat /\ m.data \in Interval /\ rcv_nxt[p] \in Nat
  BY DEF TypeOK, Segment
<1>2. m.sn < snd_nxt[Peer(p)] /\ m.data = log[Peer(p)][m.sn + 1]
  BY DEF NetInv
<1>3. AheadOf(p, rcv_buf[p])
  BY BufferAhead
<1>4. DOMAIN Inserted(p, m) = DOMAIN rcv_buf[p] \cup {m.sn}
  BY DEF Inserted
<1>5. \A sn \in DOMAIN rcv_buf[p] \cup {m.sn} : Inserted(p, m)[sn] =
        IF sn \in DOMAIN rcv_buf[p] THEN rcv_buf[p][sn] ELSE m.data
  BY DEF Inserted
<1>6. \A sn \in DOMAIN rcv_buf[p] \cup {m.sn} :
        /\ sn \in Nat
        /\ Inserted(p, m)[sn] \in Interval
        /\ rcv_nxt[p] <= sn
        /\ sn < rcv_nxt[p] + RcvWnd
        /\ sn < snd_nxt[Peer(p)]
        /\ Inserted(p, m)[sn] = log[Peer(p)][sn + 1]
  BY <1>1, <1>2, <1>3, <1>5 DEF AheadOf
<1>7. Inserted(p, m) \in [DOMAIN Inserted(p, m) -> Interval]
  BY <1>4, <1>6 DEF Inserted
<1>. QED BY <1>4, <1>6, <1>7 DEF AheadOf

(* What a segment does to the receiving half of p. *)
LEMMA ReceiverInput ==
  ASSUME TypeOK, NEW p \in Peers, NEW m \in Segment, ReceiverInv(p), NetInv(p, m),
         UNCHANGED <<log, snd_nxt, delivered>>,
         \/ PushInput(p, m)
         \/ WaskInput(p, m)
         \/ OtherInput(p, m)
  PROVE  /\ rcv_nxt' \in [Peers -> Nat]
         /\ rcv_queue' \in [Peers -> Seq(Interval)]
         /\ delivered' \in [Peers -> Seq(Interval)]
         /\ rcv_buf' = [q \in Peers |-> rcv_buf'[q]]
         /\ \A q \in Peers : /\ DOMAIN rcv_buf'[q] \subseteq Nat
                             /\ rcv_buf'[q] \in [DOMAIN rcv_buf'[q] -> Interval]
         /\ acklist' \in [Peers -> SUBSET Nat]
         /\ probe' \in [Peers -> SUBSET AskFlags]
         /\ ReceiverInv(p)'
         /\ rcv_nxt[p] <= rcv_nxt'[p]
         /\ Received(p) \subseteq Received(p)'
         /\ IdleReceiver(Peer(p))
<1>0. /\ rcv_nxt[p] \in Nat /\ m.sn \in Nat
      /\ delivered' = delivered
      /\ delivered' = [delivered EXCEPT ![p] = delivered[p]]
      /\ delivered \in [Peers -> Seq(Interval)]
      /\ Peer(p) \in Peers /\ Peer(p) # p
  BY PeerFacts DEF TypeOK, Segment
<1>1. CASE UNCHANGED <<rcv_nxt, rcv_buf, rcv_queue>>
  <2>1. /\ rcv_nxt' \in [Peers -> Nat]
        /\ rcv_queue' \in [Peers -> Seq(Interval)]
        /\ delivered' \in [Peers -> Seq(Interval)]
        /\ rcv_buf' = [q \in Peers |-> rcv_buf'[q]]
        /\ \A q \in Peers : /\ DOMAIN rcv_buf'[q] \subseteq Nat
                            /\ rcv_buf'[q] \in [DOMAIN rcv_buf'[q] -> Interval]
    BY <1>1 DEF TypeOK
  <2>2. rcv_nxt[p] <= rcv_nxt'[p]
    BY <1>0, <1>1
  <2>3. Received(p)' = Received(p)
    BY <1>1, Zenon DEF Received
  <2>4. /\ acklist' \in [Peers -> SUBSET Nat]
        /\ \A q \in Peers : q # p => acklist'[q] = acklist[q]
        /\ acklist'[p] \subseteq Received(p)
        /\ probe' \in [Peers -> SUBSET AskFlags]
    <3>1. CASE PushInput(p, m)
      <4>1. /\ acklist' = [acklist EXCEPT ![p] = acklist[p] \cup {m.sn}]
            /\ probe' = probe
        BY <3>1 DEF PushInput
      <4>2. m.sn \in Received(p)
        <5>1. CASE m.sn < rcv_nxt[p]
          BY <1>0, <5>1 DEF Received
        <5>2. CASE /\ m.sn >= rcv_nxt[p]
                   /\ \E k \in 0..RcvWnd : MoveToQueue(p, Inserted(p, m), rcv_queue[p], k)
          <6>1. PICK k \in 0..RcvWnd : MoveToQueue(p, Inserted(p, m), rcv_queue[p], k)
            BY <5>2
          <6>2. rcv_nxt'[p] = rcv_nxt[p] + k
            BY <6>1 DEF MoveToQueue, TypeOK
          <6>3. k = 0
            BY <1>0, <1>1, <6>2, KcpAssumption
          <6>4. DOMAIN rcv_buf'[p] = Kept(Inserted(p, m), rcv_nxt[p], k)
            BY <6>1, MoveParts
          <6>5. m.sn \in DOMAIN Inserted(p, m)
            BY DEF Inserted
          <6>6. m.sn \in Kept(Inserted(p, m), rcv_nxt[p], k)
            BY <1>0, <5>2, <6>3, <6>5 DEF Kept
          <6>7. m.sn \in DOMAIN rcv_buf'[p]
            BY <6>4, <6>6
          <6>. QED BY <1>1, <6>7 DEF Received
        <5>. QED BY <3>1, <5>1, <5>2 DEF PushInput
      <4>. QED BY <1>0, <4>1, <4>2 DEF TypeOK, ReceiverInv
    <3>2. CASE WaskInput(p, m)
      BY <3>2 DEF WaskInput, TypeOK, ReceiverInv, AskFlags
    <3>3. CASE OtherInput(p, m)
      BY <3>3 DEF OtherInput, TypeOK, ReceiverInv
    <3>. QED BY <3>1, <3>2, <3>3
  <2>5. ReceiverInv(p)'
    <3>1. acklist'[p] \subseteq Received(p)'
      BY <2>3, <2>4
    <3>2. /\ snd_nxt' = snd_nxt /\ log' = log /\ delivered' = delivered
          /\ rcv_nxt' = rcv_nxt /\ rcv_buf' = rcv_buf /\ rcv_queue' = rcv_queue
      BY <1>1
    <3>. QED BY <3>1, <3>2, Zenon DEF ReceiverInv
  <2>6. IdleReceiver(Peer(p))
    BY <1>0, <1>1, <2>4 DEF IdleReceiver
  <2>. QED BY <2>1, <2>2, <2>3, <2>4, <2>5, <2>6
<1>2. CASE /\ PushInput(p, m)
           /\ m.sn >= rcv_nxt[p]
           /\ \E k \in 0..RcvWnd : MoveToQueue(p, Inserted(p, m), rcv_queue[p], k)
  <2>1. PICK k \in 0..RcvWnd : MoveToQueue(p, Inserted(p, m), rcv_queue[p], k)
    BY <1>2
  <2>2. /\ acklist' = [acklist EXCEPT ![p] = acklist[p] \cup {m.sn}]
        /\ probe' = probe
        /\ m.cmd = "PUSH" /\ m.sn < rcv_nxt[p] + RcvWnd
    BY <1>2 DEF PushInput
  <2>3. /\ AheadOf(p, Inserted(p, m))
        /\ DOMAIN Inserted(p, m) = DOMAIN rcv_buf[p] \cup {m.sn}
    BY <1>2, <2>2, InsertedAhead
  <2>4. InSequence(p, rcv_queue[p], delivered[p])
    BY DEF InSequence, ReceiverInv, TypeOK
  <2>5. /\ acklist' \in [Peers -> SUBSET Nat]
        /\ \A q \in Peers : q # p => acklist'[q] = acklist[q]
        /\ probe' \in [Peers -> SUBSET AskFlags]
        /\ acklist'[p] = acklist[p] \cup {m.sn}
    BY <1>0, <2>2 DEF TypeOK
  <2>6. acklist'[p] \subseteq 0..(rcv_nxt[p] - 1) \cup DOMAIN Inserted(p, m)
    BY <2>3, <2>5 DEF ReceiverInv, Received
  <2>7. rcv_nxt[p] <= snd_nxt[Peer(p)]
    BY DEF ReceiverInv
  <2>8. /\ rcv_nxt' \in [Peers -> Nat]
        /\ rcv_queue' \in [Peers -> Seq(Interval)]
        /\ delivered' \in [Peers -> Seq(Interval)]
        /\ \A q \in Peers : /\ DOMAIN rcv_buf'[q] \subseteq Nat
                            /\ rcv_buf'[q] \in [DOMAIN rcv_buf'[q] -> Interval]
        /\ ReceiverInv(p)'
        /\ rcv_nxt[p] <= rcv_nxt'[p]
        /\ 0..(rcv_nxt[p] - 1) \cup DOMAIN Inserted(p, m) \subseteq Received(p)'
    BY <1>0, <2>1, <2>3, <2>4, <2>6, <2>7, MoveFacts
  <2>9. Received(p) \subseteq Received(p)'
    BY <2>3, <2>8 DEF Received
  <2>10. rcv_buf' = [q \in Peers |-> rcv_buf'[q]]
    BY <2>1, BufferShape
  <2>11. IdleReceiver(Peer(p))
    <3>1. \A q \in Peers : q # p => /\ rcv_nxt'[q] = rcv_nxt[q]
                                    /\ rcv_buf'[q] = rcv_buf[q]
                                    /\ rcv_queue'[q] = rcv_queue[q]
      BY <2>1 DEF TypeOK, MoveToQueue
    <3>. QED BY <1>0, <2>5, <3>1 DEF IdleReceiver
  <2>. QED BY <2>5, <2>8, <2>9, <2>10, <2>11
<1>. QED BY <1>1, <1>2 DEF PushInput, WaskInput, OtherInput

LEMMA InputStep ==
  ASSUME IInv, NEW p \in Peers, NEW m \in net[p], Input(p, m),
         net' \in [Peers -> SUBSET Segment], faults' \in Nat,
         \A q \in Peers : net'[q] \subseteq net[q]
  PROVE  IInv'
<1>1. TypeOK /\ SenderInv(p) /\ ReceiverInv(p) /\ NetInv(p, m)
  BY DEF IInv
<1>2. m \in Segment /\ Peer(p) \in Peers
  BY <1>1, PeerFacts DEF TypeOK
<1>3. /\ AckInput(p, m)
      /\ \/ PushInput(p, m)
         \/ WaskInput(p, m)
         \/ OtherInput(p, m)
  BY Zenon DEF Input
<1>4. UNCHANGED <<written, snd_queue, snd_nxt, log, probing, delivered>>
  BY <1>3 DEF AckInput
<1>5. /\ rcv_nxt' \in [Peers -> Nat]
      /\ rcv_queue' \in [Peers -> Seq(Interval)]
      /\ delivered' \in [Peers -> Seq(Interval)]
      /\ rcv_buf' = [q \in Peers |-> rcv_buf'[q]]
      /\ \A q \in Peers : /\ DOMAIN rcv_buf'[q] \subseteq Nat
                          /\ rcv_buf'[q] \in [DOMAIN rcv_buf'[q] -> Interval]
      /\ acklist' \in [Peers -> SUBSET Nat]
      /\ probe' \in [Peers -> SUBSET AskFlags]
      /\ ReceiverInv(p)'
      /\ rcv_nxt[p] <= rcv_nxt'[p]
      /\ Received(p) \subseteq Received(p)'
      /\ IdleReceiver(Peer(p))
  BY <1>1, <1>2, <1>3, <1>4, ReceiverInput
<1>6. /\ snd_una' \in [Peers -> Nat]
      /\ snd_buf' \in [Peers -> SUBSET Nat]
      /\ xmit' \in [Peers -> SUBSET Nat]
      /\ rmt_wnd' \in [Peers -> Nat]
      /\ SenderInv(p)'
      /\ IdleSender(Peer(p))
  BY <1>1, <1>2, <1>3, <1>5, AckInputFacts, Zenon
<1>7. TypeOK'
  BY <1>1, <1>4, <1>5, <1>6 DEF TypeOK
<1>8. Grows(p)
  <2>1. snd_nxt[p] \in Nat /\ snd_nxt' = snd_nxt /\ log' = log
    BY <1>1, <1>4 DEF TypeOK
  <2>2. snd_nxt[p] <= snd_nxt'[p]
    BY <2>1
  <2>. QED BY <1>5, <2>1, <2>2, Zenon DEF Grows
<1>. QED BY <1>2, <1>5, <1>6, <1>7, <1>8, StepOfPeer

LEMMA ReceiveStep ==
  ASSUME IInv, NEW p \in Peers, NEW m \in net[p], Receive(p, m) \/ ReceiveTwice(p, m)
  PROVE  IInv'
<1>0. net \in [Peers -> SUBSET Segment] /\ faults \in Nat
  BY DEF IInv, TypeOK
<1>1. Input(p, m)
  BY Zenon DEF Receive, ReceiveTwice
<1>2. /\ net' = [net EXCEPT ![p] = net[p] \ {m}] \/ net' = net
      /\ faults' = faults \/ faults' = faults + 1
  BY Zenon DEF Receive, ReceiveTwice
<1>3. net' \in [Peers -> SUBSET Segment] /\ faults' \in Nat
  BY <1>0, <1>2
<1>4. \A q \in Peers : net'[q] \subseteq net[q]
  BY <1>0, <1>2
<1>. QED BY <1>1, <1>3, <1>4, InputStep

-----------------------------------------------------------------------------
(* ikcp_flush. *)

\* What p puts on the network now is well formed and true of p.
LEMMA EncodedSegment ==
  ASSUME TypeOK, NEW p \in Peers, NEW cmd \in Cmds, NEW sn \in Nat, NEW data \in Interval
  PROVE  /\ Seg(p, cmd, sn, data) \in Segment
         /\ Seg(p, cmd, sn, data).una = rcv_nxt[p]
         /\ Seg(p, cmd, sn, data).cmd = cmd
         /\ Seg(p, cmd, sn, data).sn = sn
         /\ Seg(p, cmd, sn, data).data = data
<1>1. rcv_nxt[p] \in Nat /\ Len(rcv_queue[p]) \in Nat
  BY LenProperties DEF TypeOK
<1>2. WndUnused(p) \in Nat
  BY <1>1, KcpAssumption DEF WndUnused
<1>. QED BY <1>1, <1>2 DEF Seg, Segment

LEMMA EncodedAcks ==
  ASSUME TypeOK, NEW p \in Peers, ReceiverInv(p), IdleReceiver(p), NEW S, S \subseteq acklist[p]
  PROVE  /\ Acks(p, S) \subseteq Segment
         /\ \A m \in Acks(p, S) : NetInv(Peer(p), m)'
<1>. SUFFICES ASSUME NEW m \in Acks(p, S)
              PROVE  m \in Segment /\ NetInv(Peer(p), m)'
  BY Zenon
<1>0. PICK sn \in S : m = Seg(p, "ACK", sn, NoData)
  BY DEF Acks
<1>1. sn \in acklist[p] /\ sn \in Nat /\ sn \in Received(p) /\ rcv_nxt[p] \in Nat
  BY DEF TypeOK, ReceiverInv
<1>2. "ACK" \in Cmds /\ NoData \in Interval
  BY DEF Cmds, NoData, Interval
<1>3. m \in Segment /\ m.una = rcv_nxt[p] /\ m.cmd = "ACK" /\ m.sn = sn
  BY <1>0, <1>1, <1>2, EncodedSegment
<1>4. rcv_nxt'[p] = rcv_nxt[p] /\ Received(p)' = Received(p) /\ Peer(Peer(p)) = p
  BY IdleReceived, PeerFacts DEF IdleReceiver
<1>5. m.una <= rcv_nxt'[p] /\ m.sn \in Received(p)' /\ m.cmd # "PUSH"
  BY <1>1, <1>3, <1>4
<1>6. NetInv(Peer(p), m)'
  BY <1>4, <1>5, Zenon DEF NetInv
<1>. QED BY <1>3, <1>6

LEMMA EncodedProbes ==
  ASSUME TypeOK, NEW p \in Peers, IdleReceiver(p), NEW ask
  PROVE  /\ Probes(p, ask) \subseteq Segment
         /\ \A m \in Probes(p, ask) : NetInv(Peer(p), m)'
<1>. SUFFICES ASSUME NEW m \in Probes(p, ask)
              PROVE  m \in Segment /\ NetInv(Peer(p), m)'
  BY Zenon
<1>0. PICK cmd \in {"WASK", "WINS"} : m = Seg(p, cmd, 0, NoData)
  BY DEF Probes
<1>1. "WASK" \in Cmds /\ "WINS" \in Cmds /\ NoData \in Interval
  BY DEF Cmds, NoData, Interval
<1>2. m \in Segment /\ m.una = rcv_nxt[p] /\ m.cmd = cmd
  BY <1>0, <1>1, EncodedSegment
<1>3. rcv_nxt'[p] = rcv_nxt[p] /\ rcv_nxt[p] \in Nat /\ Peer(Peer(p)) = p
  BY PeerFacts DEF IdleReceiver, TypeOK
<1>4. m.una <= rcv_nxt'[p] /\ m.cmd # "PUSH" /\ m.cmd # "ACK"
  BY <1>2, <1>3
<1>5. NetInv(Peer(p), m)'
  BY <1>3, <1>4, Zenon DEF NetInv
<1>. QED BY <1>2, <1>5

(* The network after a flush of p that emitted out. *)
LEMMA OutputFacts ==
  ASSUME TypeOK, NEW p \in Peers, NEW out, out \subseteq Segment, Output(p, out)
  PROVE  /\ net' \in [Peers -> SUBSET Segment]
         /\ faults' \in Nat
         /\ net'[p] = net[p]
         /\ net'[Peer(p)] = net[Peer(p)] \cup out
<1>1. /\ net' = [net EXCEPT ![Peer(p)] = net[Peer(p)] \cup out]
      /\ faults' = faults
      /\ net \in [Peers -> SUBSET Segment]
      /\ faults \in Nat
      /\ Peer(p) \in Peers /\ Peer(p) # p
  BY PeerFacts DEF Output, TypeOK
<1>. QED BY <1>1

(* A flush cut short numbers nothing and sends acknowledgements at most. *)
LEMMA CutShortStep ==
  ASSUME IInv, NEW p \in Peers, NEW S \in SUBSET acklist[p], NEW left \in SUBSET acklist[p],
         Output(p, Acks(p, S)),
         acklist' = [acklist EXCEPT ![p] = left],
         UNCHANGED <<sndvars, rmt_wnd, rcv_nxt, rcv_buf, rcv_queue, delivered>>,
         probe' \in [Peers -> SUBSET AskFlags],
         probing' \in [Peers -> BOOLEAN]
  PROVE  IInv'
<1>0. TypeOK /\ SenderInv(p) /\ ReceiverInv(p)
  BY DEF IInv
<1>1. /\ acklist \in [Peers -> SUBSET Nat]
      /\ acklist' \in [Peers -> SUBSET Nat]
      /\ \A q \in Peers : acklist'[q] \subseteq acklist[q]
  BY <1>0 DEF TypeOK
<1>2. \A q \in Peers : IdleSender(q) /\ IdleReceiver(q)
  BY <1>1 DEF IdleSender, IdleReceiver, sndvars
<1>3. /\ Acks(p, S) \subseteq Segment
      /\ \A m \in Acks(p, S) : NetInv(Peer(p), m)'
  BY <1>0, <1>2, EncodedAcks
<1>4. /\ net' \in [Peers -> SUBSET Segment]
      /\ faults' \in Nat
      /\ net'[p] = net[p]
      /\ net'[Peer(p)] = net[Peer(p)] \cup Acks(p, S)
  BY <1>0, <1>3, OutputFacts
<1>5. TypeOK'
  BY <1>0, <1>1, <1>4 DEF TypeOK, sndvars
<1>6. \A q \in Peers : Received(q)' = Received(q)
  BY <1>2, IdleReceived
<1>7. ASSUME NEW q \in Peers PROVE Grows(q)
  <2>1. /\ snd_nxt[q] \in Nat /\ rcv_nxt[q] \in Nat
        /\ snd_nxt' = snd_nxt /\ rcv_nxt' = rcv_nxt /\ log' = log
    BY <1>0 DEF TypeOK, sndvars
  <2>2. snd_nxt[q] <= snd_nxt'[q] /\ rcv_nxt[q] <= rcv_nxt'[q]
    BY <2>1
  <2>. QED BY <1>6, <2>1, <2>2, Zenon DEF Grows
<1>8. Peer(p) \in Peers
  BY PeerFacts
<1>9. SenderInv(p)'
  <2>1. Received(Peer(p)) \subseteq Received(Peer(p))'
    BY <1>6, <1>8
  <2>. QED BY <1>0, <1>2, <2>1, SenderStays, Zenon
<1>10. ReceiverInv(p)'
  BY <1>0, <1>2, <1>5, <1>7, <1>8, ReceiverStays, Zenon
<1>11. \A m \in net'[Peer(p)] : m \in net[Peer(p)] \/ NetInv(Peer(p), m)'
  BY <1>3, <1>4, Zenon
<1>. QED BY <1>2, <1>4, <1>5, <1>7, <1>8, <1>9, <1>10, <1>11, StepOfPeer

LEMMA FlushStopsAtAckStep ==
  ASSUME IInv, NEW p \in Peers, FlushStopsAtAck(p)
  PROVE  IInv'
<1>1. PICK left \in SUBSET acklist[p], S \in SUBSET acklist[p] :
         acklist' = [acklist EXCEPT ![p] = left] /\ Output(p, Acks(p, S))
  BY DEF FlushStopsAtAck
<1>2. UNCHANGED <<sndvars, rmt_wnd, rcv_nxt, rcv_buf, rcv_queue, delivered>>
  BY DEF FlushStopsAtAck, prbvars
<1>3. probe' \in [Peers -> SUBSET AskFlags] /\ probing' \in [Peers -> BOOLEAN]
  BY DEF FlushStopsAtAck, prbvars, IInv, TypeOK
<1>. QED BY <1>1, <1>2, <1>3, CutShortStep, Zenon

LEMMA FlushStopsAtProbeStep ==
  ASSUME IInv, NEW p \in Peers, NEW fired \in BOOLEAN, FlushStopsAtProbe(p, fired)
  PROVE  IInv'
<1>1. PICK S \in SUBSET acklist[p] : Output(p, Acks(p, S))
  BY DEF FlushStopsAtProbe
<1>2. /\ acklist' = [acklist EXCEPT ![p] = {}]
      /\ probing' = [probing EXCEPT ![p] = (rmt_wnd[p] = 0)]
      /\ UNCHANGED <<sndvars, rmt_wnd, rcv_nxt, rcv_buf, rcv_queue, delivered>>
  BY DEF FlushStopsAtProbe
<1>3. probing' \in [Peers -> BOOLEAN]
  <2>1. probing \in [Peers -> BOOLEAN]
    BY DEF IInv, TypeOK
  <2>2. (rmt_wnd[p] = 0) \in BOOLEAN
    OBVIOUS
  <2>. QED BY <1>2, <2>1, <2>2
<1>4. probe' \in [Peers -> SUBSET AskFlags]
  <2>1. probe \in [Peers -> SUBSET AskFlags]
    BY DEF IInv, TypeOK
  <2>2. ProbeTimer(p, fired) \in SUBSET AskFlags
    BY <2>1 DEF ProbeTimer, AskFlags
  <2>3. \/ probe' = [probe EXCEPT ![p] = ProbeTimer(p, fired)]
        \/ probe' = [probe EXCEPT ![p] = {"ASK_TELL"}]
    BY DEF FlushStopsAtProbe
  <2>. QED BY <2>1, <2>2, <2>3 DEF AskFlags
<1>5. {} \in SUBSET acklist[p]
  OBVIOUS
<1>. QED BY <1>1, <1>2, <1>3, <1>4, <1>5, CutShortStep, Zenon

(***************************************************************************)
(* A flush that reaches the data: n payloads of snd_queue get the numbers  *)
(* from snd_nxt on.                                                        *)
(***************************************************************************)
LEMMA AdmittedFacts ==
  ASSUME TypeOK, NEW p \in Peers, SenderInv(p)
  PROVE  /\ Admitted(p) \in 0..Len(snd_queue[p])
         /\ snd_nxt[p] + Admitted(p) <= snd_una[p] + SndWnd
<1>1. /\ snd_nxt[p] \in Nat /\ snd_una[p] \in Nat /\ rmt_wnd[p] \in Nat
      /\ Len(snd_queue[p]) \in Nat /\ SndWnd \in Nat
  BY LenProperties, KcpAssumption DEF TypeOK
<1>2. snd_nxt[p] <= snd_una[p] + SndWnd
  BY DEF SenderInv
<1>. DEFINE edge == snd_una[p] + Least(SndWnd, rmt_wnd[p])
<1>3. edge \in Nat /\ edge <= snd_una[p] + SndWnd
  BY <1>1 DEF Least
<1>4. Admitted(p) = IF snd_nxt[p] < edge
                    THEN Least(Len(snd_queue[p]), edge - snd_nxt[p]) ELSE 0
  BY DEF Admitted
<1>. HIDE DEF edge
<1>. QED BY <1>1, <1>2, <1>3, <1>4 DEF Least

LEMMA NumberedFacts ==
  ASSUME TypeOK, NEW p \in Peers, SenderInv(p), NEW n \in 0..Len(snd_queue[p])
  PROVE  LET newlog == log[p] \o SubSeq(snd_queue[p], 1, n) IN
         /\ newlog \in Seq(Interval)
         /\ Len(newlog) = snd_nxt[p] + n
         /\ \A i \in 1..snd_nxt[p] : newlog[i] = log[p][i]
         /\ \A i \in 1..(snd_nxt[p] + n) : newlog[i] \in Interval
         /\ SubSeq(snd_queue[p], n + 1, Len(snd_queue[p])) \in Seq(Interval)
<1>. DEFINE head == SubSeq(snd_queue[p], 1, n)
            newlog == log[p] \o head
<1>1. /\ log[p] \in Seq(Interval) /\ snd_queue[p] \in Seq(Interval)
      /\ Len(snd_queue[p]) \in Nat /\ snd_nxt[p] \in Nat
      /\ Len(log[p]) = snd_nxt[p]
  BY LenProperties DEF TypeOK, SenderInv
<1>2. head \in Seq(Interval) /\ Len(head) = n
  BY <1>1, SubSeqFacts
<1>3. SubSeq(snd_queue[p], n + 1, Len(snd_queue[p])) \in Seq(Interval)
  BY <1>1, SubSeqFacts
<1>. HIDE DEF head
<1>4. /\ newlog \in Seq(Interval)
      /\ Len(newlog) = snd_nxt[p] + n
      /\ \A i \in 1..(snd_nxt[p] + n) : newlog[i] =
           IF i <= snd_nxt[p] THEN log[p][i] ELSE head[i - snd_nxt[p]]
  <2>1. /\ newlog \in Seq(Interval)
        /\ Len(newlog) = Len(log[p]) + Len(head)
        /\ \A i \in 1..(Len(log[p]) + Len(head)) : newlog[i] =
             IF i <= Len(log[p]) THEN log[p][i] ELSE head[i - Len(log[p])]
    BY <1>1, <1>2, ConcatProperties
  <2>. QED BY <1>1, <1>2, <2>1, Zenon
<1>. HIDE DEF newlog
<1>5. ASSUME NEW i \in 1..snd_nxt[p] PROVE newlog[i] = log[p][i]
  <2>1. i \in 1..(snd_nxt[p] + n) /\ i <= snd_nxt[p]
    BY <1>1
  <2>. QED BY <1>4, <2>1, Zenon
<1>6. \A i \in 1..(snd_nxt[p] + n) : newlog[i] \in Interval
  BY <1>4
<1>. QED BY <1>3, <1>4, <1>5, <1>6 DEF newlog, head

LEMMA FlushDataStep ==
  ASSUME IInv, NEW p \in Peers, NEW fired \in BOOLEAN, NEW expired \in SUBSET xmit[p],
         NEW stop, FlushData(p, fired, expired, stop)
  PROVE  IInv'
<1>. DEFINE n == Admitted(p)
            newlog == log[p] \o SubSeq(snd_queue[p], 1, n)
            newbuf == snd_buf[p] \cup (snd_nxt[p]..(snd_nxt[p] + n - 1))
            due == (newbuf \ xmit[p]) \cup expired
            sent == {sn \in due : sn < stop}
            ask == ProbeTimer(p, fired)
            pushes == {Seg(p, "PUSH", sn, newlog[sn + 1]) : sn \in sent}
            out == Acks(p, acklist[p]) \cup Probes(p, ask) \cup pushes
<1>0. TypeOK /\ SenderInv(p) /\ ReceiverInv(p)
  BY DEF IInv
<1>1. /\ n \in 0..Len(snd_queue[p])
      /\ snd_nxt[p] + n <= snd_una[p] + SndWnd
      /\ n \in Nat /\ snd_nxt[p] \in Nat /\ snd_una[p] \in Nat
  <2>1. Len(snd_queue[p]) \in Nat /\ snd_nxt[p] \in Nat /\ snd_una[p] \in Nat
    BY <1>0, LenProperties DEF TypeOK
  <2>. QED BY <1>0, <2>1, AdmittedFacts
<1>2. /\ newlog \in Seq(Interval)
      /\ Len(newlog) = snd_nxt[p] + n
      /\ \A i \in 1..snd_nxt[p] : newlog[i] = log[p][i]
      /\ \A i \in 1..(snd_nxt[p] + n) : newlog[i] \in Interval
      /\ SubSeq(snd_queue[p], n + 1, Len(snd_queue[p])) \in Seq(Interval)
  BY <1>0, <1>1, NumberedFacts
<1>3. /\ snd_queue' = [snd_queue EXCEPT ![p] = SubSeq(snd_queue[p], n + 1, Len(snd_queue[p]))]
      /\ snd_nxt' = [snd_nxt EXCEPT ![p] = snd_nxt[p] + n]
      /\ log' = [log EXCEPT ![p] = newlog]
      /\ snd_buf' = [snd_buf EXCEPT ![p] = newbuf]
      /\ xmit' = [xmit EXCEPT ![p] = xmit[p] \cup sent]
      /\ probe' = [probe EXCEPT ![p] = {}]
      /\ probing' = [probing EXCEPT ![p] = (rmt_wnd[p] = 0)]
      /\ acklist' = [acklist EXCEPT ![p] = {}]
      /\ Output(p, out)
      /\ UNCHANGED <<written, snd_una, rmt_wnd, rcv_nxt, rcv_buf, rcv_queue, delivered>>
  BY DEF FlushData
<1>. HIDE DEF n, newlog, ask, out
<1>4. /\ \A sn \in newbuf : sn \in Nat /\ snd_una[p] <= sn /\ sn < snd_nxt[p] + n
      /\ xmit[p] \subseteq newbuf
      /\ sent \subseteq newbuf
  <2>1. /\ snd_buf[p] \subseteq Nat
        /\ snd_una[p] <= snd_nxt[p]
        /\ \A sn \in snd_buf[p] : snd_una[p] <= sn /\ sn < snd_nxt[p]
        /\ xmit[p] \subseteq snd_buf[p]
    BY <1>0 DEF TypeOK, SenderInv
  <2>. QED BY <1>1, <2>1
<1>5. /\ snd_nxt'[p] = snd_nxt[p] + n
      /\ log'[p] = newlog
      /\ snd_buf'[p] = newbuf
      /\ xmit'[p] = xmit[p] \cup sent
      /\ snd_una'[p] = snd_una[p]
  BY <1>0, <1>3 DEF TypeOK
<1>6. \A q \in Peers : IdleReceiver(q)
  BY <1>0, <1>3 DEF IdleReceiver, TypeOK
<1>7. Peer(p) \in Peers /\ Peer(p) # p /\ Peer(Peer(p)) = p
  BY PeerFacts
<1>8. IdleSender(Peer(p))
  BY <1>0, <1>3, <1>7 DEF IdleSender, TypeOK
<1>9. \A q \in Peers : Received(q)' = Received(q)
  BY <1>6, IdleReceived
<1>10. Grows(p)
  <2>1. rcv_nxt[p] \in Nat /\ rcv_nxt'[p] = rcv_nxt[p]
    BY <1>0, <1>3 DEF TypeOK
  <2>2. rcv_nxt[p] <= rcv_nxt'[p] /\ snd_nxt[p] <= snd_nxt'[p]
    BY <1>1, <1>5, <2>1
  <2>3. \A i \in 1..snd_nxt[p] : log'[p][i] = log[p][i]
    BY <1>2, <1>5
  <2>. QED BY <1>9, <2>2, <2>3, Zenon DEF Grows
<1>11. pushes \subseteq Segment /\ \A m \in pushes : NetInv(Peer(p), m)'
  <2>. SUFFICES ASSUME NEW m \in pushes PROVE m \in Segment /\ NetInv(Peer(p), m)'
    BY Zenon
  <2>0. PICK sn \in sent : m = Seg(p, "PUSH", sn, newlog[sn + 1])
    OBVIOUS
  <2>1. sn \in Nat /\ sn < snd_nxt[p] + n /\ sn + 1 \in 1..(snd_nxt[p] + n)
    BY <1>1, <1>4
  <2>2. newlog[sn + 1] \in Interval /\ "PUSH" \in Cmds
    BY <1>2, <2>1 DEF Cmds
  <2>3. /\ m \in Segment /\ m.una = rcv_nxt[p] /\ m.cmd = "PUSH"
        /\ m.sn = sn /\ m.data = newlog[sn + 1]
    BY <1>0, <2>0, <2>1, <2>2, EncodedSegment
  <2>4. rcv_nxt[p] \in Nat /\ rcv_nxt'[p] = rcv_nxt[p]
    BY <1>0, <1>3 DEF TypeOK
  <2>5. /\ m.una <= rcv_nxt'[p] /\ m.cmd # "ACK"
        /\ m.sn < snd_nxt'[p] /\ m.data = log'[p][m.sn + 1]
    BY <1>5, <2>1, <2>3, <2>4
  <2>6. NetInv(Peer(p), m)'
    BY <1>7, <2>5, Zenon DEF NetInv
  <2>. QED BY <2>3, <2>6
<1>12. /\ Acks(p, acklist[p]) \subseteq Segment
       /\ \A m \in Acks(p, acklist[p]) : NetInv(Peer(p), m)'
  BY <1>0, <1>6, EncodedAcks
<1>13. /\ Probes(p, ask) \subseteq Segment
       /\ \A m \in Probes(p, ask) : NetInv(Peer(p), m)'
  BY <1>0, <1>6, EncodedProbes
<1>. HIDE DEF pushes
<1>14. out \subseteq Segment /\ \A m \in out : NetInv(Peer(p), m)'
  BY <1>11, <1>12, <1>13 DEF out
<1>15. /\ net' \in [Peers -> SUBSET Segment]
       /\ faults' \in Nat
       /\ net'[p] = net[p]
       /\ net'[Peer(p)] = net[Peer(p)] \cup out
  BY <1>0, <1>3, <1>14, OutputFacts
<1>. HIDE DEF newbuf, sent
<1>16. TypeOK'
  <2>1. snd_queue' \in [Peers -> Seq(Interval)] /\ log' \in [Peers -> Seq(Interval)]
    BY <1>0, <1>2, <1>3 DEF TypeOK
  <2>2. snd_nxt' \in [Peers -> Nat]
    BY <1>0, <1>1, <1>3 DEF TypeOK
  <2>3. snd_buf' \in [Peers -> SUBSET Nat]
    BY <1>0, <1>3, <1>4 DEF TypeOK
  <2>4. xmit' \in [Peers -> SUBSET Nat]
    BY <1>0, <1>3, <1>4 DEF TypeOK
  <2>5. probe' \in [Peers -> SUBSET AskFlags] /\ acklist' \in [Peers -> SUBSET Nat]
    BY <1>0, <1>3 DEF TypeOK
  <2>6. probing' \in [Peers -> BOOLEAN]
    <3>1. (rmt_wnd[p] = 0) \in BOOLEAN
      OBVIOUS
    <3>. QED BY <1>0, <1>3, <3>1 DEF TypeOK
  <2>. QED BY <1>0, <1>3, <1>15, <2>1, <2>2, <2>3, <2>4, <2>5, <2>6 DEF TypeOK
<1>17. SenderInv(p)'
  <2>1. /\ snd_una[p] <= snd_nxt[p]
        /\ \A sn \in 0..(snd_nxt[p] - 1) : sn \in snd_buf[p] \/ sn \in Received(Peer(p))
    BY <1>0 DEF SenderInv
  <2>2. snd_una'[p] <= snd_nxt'[p] /\ snd_nxt'[p] <= snd_una'[p] + SndWnd
    BY <1>1, <1>5, <2>1
  <2>3. \A sn \in 0..(snd_nxt[p] + n - 1) : sn \in newbuf \/ sn \in Received(Peer(p))
    BY <1>1, <2>1 DEF newbuf
  <2>4. \A sn \in 0..(snd_nxt'[p] - 1) : sn \in snd_buf'[p] \/ sn \in Received(Peer(p))'
    <3>1. Received(Peer(p))' = Received(Peer(p))
      BY <1>7, <1>9, Zenon
    <3>2. snd_nxt'[p] - 1 = snd_nxt[p] + n - 1 /\ snd_buf'[p] = newbuf
      BY <1>1, <1>5
    <3>. SUFFICES ASSUME NEW sn \in 0..(snd_nxt'[p] - 1)
                  PROVE sn \in snd_buf'[p] \/ sn \in Received(Peer(p))'
      BY Zenon
    <3>3. sn \in 0..(snd_nxt[p] + n - 1)
      BY <3>2, Zenon
    <3>. QED BY <2>3, <3>1, <3>2, <3>3, Zenon
  <2>5. \A sn \in snd_buf'[p] : snd_una'[p] <= sn /\ sn < snd_nxt'[p]
    BY <1>4, <1>5
  <2>6. Len(log'[p]) = snd_nxt'[p] /\ xmit'[p] \subseteq snd_buf'[p]
    BY <1>2, <1>4, <1>5
  <2>. QED BY <2>2, <2>4, <2>5, <2>6, Zenon DEF SenderInv
<1>18. ReceiverInv(p)'
  <2>1. Grows(Peer(p))
    <3>1. /\ snd_nxt[Peer(p)] \in Nat /\ rcv_nxt[Peer(p)] \in Nat
          /\ rcv_nxt' = rcv_nxt
      BY <1>0, <1>3, <1>7 DEF TypeOK
    <3>2. /\ snd_nxt[Peer(p)] <= snd_nxt'[Peer(p)]
          /\ rcv_nxt[Peer(p)] <= rcv_nxt'[Peer(p)]
          /\ log'[Peer(p)] = log[Peer(p)]
      BY <1>8, <3>1 DEF IdleSender
    <3>. QED BY <1>7, <1>9, <3>2, Zenon DEF Grows
  <2>. QED BY <1>0, <1>6, <1>16, <2>1, ReceiverStays, Zenon
<1>19. \A m \in net'[Peer(p)] : m \in net[Peer(p)] \/ NetInv(Peer(p), m)'
  BY <1>14, <1>15, Zenon
<1>. QED BY <1>6, <1>7, <1>8, <1>10, <1>15, <1>16, <1>17, <1>18, <1>19, StepOfPeer

-----------------------------------------------------------------------------
LEMMA StepInv == IInv /\ [Next]_vars => IInv'
<1>. SUFFICES ASSUME IInv, [Next]_vars PROVE IInv'
  OBVIOUS
<1>1. CASE UNCHANGED vars
  <2>1. TypeOK'
    BY <1>1 DEF IInv, TypeOK, vars, sndvars, prbvars, rcvvars, netvars
  <2>. QED BY <1>1, <2>1, IdleStep DEF vars, sndvars, rcvvars, netvars
<1>2. ASSUME NEW p \in Peers, NEW n \in SendLens, Send(p, n) PROVE IInv'
  BY <1>2, KcpAssumption, SendStep
<1>3. ASSUME NEW p \in Peers, NEW len \in ReadLens, Recv(p, len) PROVE IInv'
  BY <1>3, RecvStep
<1>4. ASSUME NEW p \in Peers, Flush(p) PROVE IInv'
  BY <1>4, FlushStopsAtAckStep, FlushStopsAtProbeStep, FlushDataStep DEF Flush
<1>5. ASSUME NEW p \in Peers, NEW m \in net[p], Receive(p, m) \/ ReceiveTwice(p, m) \/ Lose(p, m)
      PROVE IInv'
  BY <1>5, ReceiveStep, LoseStep
<1>. QED BY <1>1, <1>2, <1>3, <1>4, <1>5 DEF Next

(***************************************************************************)
(* The inductive invariant holds of every reachable state.                 *)
(***************************************************************************)
THEOREM Invariance == Spec => []IInv
BY InitInv, StepInv, PTL DEF Spec

(* Every variable has its type, whatever the bounds. *)
THEOREM Types == Spec => []TypeOK
<1>1. IInv => TypeOK
  BY DEF IInv
<1>. QED BY <1>1, Invariance, PTL

(***************************************************************************)
(* ikcp_recv hands out the peer's payloads once each and in order.         *)
(***************************************************************************)
THEOREM DeliversInOrder == Spec => []InOrder
<1>1. IInv => InOrder
  <2>. SUFFICES ASSUME IInv, NEW p \in Peers
                PROVE  delivered[p] \o rcv_queue[p] = SubSeq(log[Peer(p)], 1, rcv_nxt[p])
    BY DEF InOrder
  <2>. DEFINE q == Peer(p)
              got == delivered[p] \o rcv_queue[p]
              sent == SubSeq(log[q], 1, rcv_nxt[p])
  <2>0. TypeOK /\ q \in Peers /\ ReceiverInv(p) /\ SenderInv(q)
    BY PeerFacts DEF IInv
  <2>1. /\ delivered[p] \in Seq(Interval) /\ rcv_queue[p] \in Seq(Interval)
        /\ log[q] \in Seq(Interval) /\ rcv_nxt[p] \in Nat
        /\ Len(delivered[p]) \in Nat /\ Len(rcv_queue[p]) \in Nat
    BY <2>0, LenProperties DEF TypeOK
  <2>2. /\ rcv_nxt[p] <= Len(log[q])
        /\ Len(delivered[p]) + Len(rcv_queue[p]) = rcv_nxt[p]
        /\ \A i \in 1..rcv_nxt[p] : got[i] = log[q][i]
    BY <2>0, Zenon DEF ReceiverInv, SenderInv
  <2>3. got \in Seq(Interval) /\ Len(got) = rcv_nxt[p]
    <3>1. got \in Seq(Interval) /\ Len(got) = Len(delivered[p]) + Len(rcv_queue[p])
      BY <2>1, ConcatProperties, Zenon
    <3>. QED BY <2>2, <3>1, Zenon
  <2>4. /\ sent \in Seq(Interval) /\ Len(sent) = rcv_nxt[p]
        /\ \A i \in 1..rcv_nxt[p] : sent[i] = log[q][i]
    BY <2>1, <2>2, SubSeqFacts
  <2>. HIDE DEF got, sent
  <2>5. \A i \in 1..Len(got) : got[i] = sent[i]
    BY <2>2, <2>3, <2>4
  <2>6. got = sent
    BY <2>3, <2>4, <2>5, SeqEqual
  <2>. QED BY <2>6 DEF got, sent
<1>. QED BY <1>1, Invariance, PTL

(***************************************************************************)
(* No segment is freed before the peer holds its payload.                  *)
(***************************************************************************)
THEOREM ReleasesWhatArrived == Spec => []NoEarlyRelease
<1>1. IInv => NoEarlyRelease
  BY DEF IInv, SenderInv, NoEarlyRelease
<1>. QED BY <1>1, Invariance, PTL

(***************************************************************************)
(* The queues and the numbers outstanding stay within the windows.         *)
(***************************************************************************)
THEOREM StaysInWindow == Spec => []WindowBounds
<1>1. IInv => WindowBounds
  <2>. SUFFICES ASSUME IInv, NEW p \in Peers
                PROVE /\ snd_nxt[p] - snd_una[p] <= SndWnd
                      /\ Len(rcv_queue[p]) <= RcvWnd
                      /\ DOMAIN rcv_buf[p] \subseteq rcv_nxt[p]..(rcv_nxt[p] + RcvWnd - 1)
    BY DEF WindowBounds
  <2>0. TypeOK /\ ReceiverInv(p) /\ SenderInv(p)
    BY DEF IInv
  <2>1. /\ snd_nxt[p] \in Nat /\ snd_una[p] \in Nat /\ rcv_nxt[p] \in Nat
        /\ DOMAIN rcv_buf[p] \subseteq Nat /\ SndWnd \in Nat /\ RcvWnd \in Nat
    BY <2>0, KcpAssumption DEF TypeOK
  <2>2. snd_nxt[p] - snd_una[p] <= SndWnd
    BY <2>0, <2>1 DEF SenderInv
  <2>3. \A sn \in DOMAIN rcv_buf[p] : rcv_nxt[p] <= sn /\ sn < rcv_nxt[p] + RcvWnd
    BY <2>0 DEF ReceiverInv
  <2>4. DOMAIN rcv_buf[p] \subseteq rcv_nxt[p]..(rcv_nxt[p] + RcvWnd - 1)
    BY <2>1, <2>3
  <2>. QED BY <2>0, <2>2, <2>4 DEF ReceiverInv
<1>. QED BY <1>1, Invariance, PTL

-----------------------------------------------------------------------------
(* The windows advertised: what TwoWindows needs beyond IInv. *)

LEMMA AdvertisedWindow ==
  ASSUME TypeOK, NEW p \in Peers
  PROVE  WndUnused(p) \in Nat /\ WndUnused(p) <= RcvWnd
<1>1. Len(rcv_queue[p]) \in Nat
  BY LenProperties DEF TypeOK
<1>2. RcvWnd \in Nat
  BY KcpAssumption
<1>. QED BY <1>1, <1>2 DEF WndUnused

\* A step that sends only segments of p, p acting, and admits what it may.
LEMMA WindowStepOfPeer ==
  ASSUME TypeOK, TypeOK', WindowInv, NEW p \in Peers,
         rmt_wnd'[p] <= RcvWnd,
         snd_nxt'[p] <= snd_una'[p] + RcvWnd,
         rmt_wnd'[Peer(p)] = rmt_wnd[Peer(p)],
         snd_nxt'[Peer(p)] = snd_nxt[Peer(p)],
         snd_una'[Peer(p)] = snd_una[Peer(p)],
         \A q \in Peers : \A m \in net'[q] : m \in net[q] \/ m.wnd = WndUnused(p)
  PROVE  WindowInv'
<1>1. ASSUME NEW q \in Peers
      PROVE  rmt_wnd'[q] <= RcvWnd /\ snd_nxt'[q] <= snd_una'[q] + RcvWnd
  <2>1. CASE q = p
    BY <2>1
  <2>2. CASE q = Peer(p)
    BY <2>2 DEF WindowInv
  <2>. QED BY <2>1, <2>2, PeerFacts
<1>2. ASSUME NEW q \in Peers, NEW m \in net'[q] PROVE m.wnd <= RcvWnd
  BY AdvertisedWindow DEF WindowInv
<1>. QED BY <1>1, <1>2, Zenon DEF WindowInv

LEMMA WindowStep ==
  ASSUME IInv, IInv', WindowInv, [Next]_vars
  PROVE  WindowInv'
<1>0. TypeOK /\ TypeOK'
  BY DEF IInv
<1>1. ASSUME UNCHANGED <<snd_nxt, snd_una, rmt_wnd>>, NEW p \in Peers,
             \A q \in Peers : \A m \in net'[q] : m \in net[q] \/ m.wnd = WndUnused(p)
      PROVE  WindowInv'
  <2>1. rmt_wnd[p] <= RcvWnd /\ snd_nxt[p] <= snd_una[p] + RcvWnd
    BY DEF WindowInv
  <2>. QED BY <1>0, <1>1, <2>1, WindowStepOfPeer
<1>2. CASE UNCHANGED vars
  <2>1. PICK p \in Peers : TRUE
    BY DEF Peers
  <2>. QED BY <1>1, <1>2, <2>1 DEF vars, sndvars, prbvars, netvars
<1>3. ASSUME NEW p \in Peers, NEW n \in SendLens, Send(p, n) PROVE WindowInv'
  BY <1>1, <1>3 DEF Send, prbvars, netvars
<1>4. ASSUME NEW p \in Peers, NEW len \in ReadLens, Recv(p, len) PROVE WindowInv'
  <2>1. UNCHANGED <<snd_nxt, snd_una, rmt_wnd, net>>
    BY <1>4 DEF Recv, sndvars, netvars
  <2>. QED BY <1>1, <2>1
<1>5. ASSUME NEW p \in Peers, NEW m \in net[p], Lose(p, m) PROVE WindowInv'
  <2>1. UNCHANGED <<snd_nxt, snd_una, rmt_wnd>>
    BY <1>5 DEF Lose, sndvars, prbvars
  <2>2. \A q \in Peers : net'[q] \subseteq net[q]
    BY <1>0, <1>5 DEF Lose, TypeOK
  <2>. QED BY <1>1, <2>1, <2>2
<1>6. ASSUME NEW p \in Peers, NEW m \in net[p], Receive(p, m) \/ ReceiveTwice(p, m)
      PROVE  WindowInv'
  <2>1. AckInput(p, m)
    BY <1>6, Zenon DEF Receive, ReceiveTwice, Input
  <2>2. /\ \A q \in Peers : net'[q] \subseteq net[q]
        /\ Peer(p) \in Peers /\ Peer(p) # p
        /\ m \in Segment
    <3>1. net' = [net EXCEPT ![p] = net[p] \ {m}] \/ net' = net
      BY <1>6, Zenon DEF Receive, ReceiveTwice
    <3>2. net \in [Peers -> SUBSET Segment]
      BY <1>0 DEF TypeOK
    <3>3. \A q \in Peers : net'[q] \subseteq net[q]
      BY <3>1, <3>2
    <3>. QED BY <3>2, <3>3, PeerFacts
  <2>3. /\ rmt_wnd' = [rmt_wnd EXCEPT ![p] = m.wnd]
        /\ snd_nxt' = snd_nxt
    BY <2>1 DEF AckInput
  <2>4. PICK u \in Unacked(p, m) \cup {snd_nxt[p]} : snd_una' = [snd_una EXCEPT ![p] = u]
    BY <2>1 DEF AckInput, ShrinkBuf
  <2>5. /\ snd_una[p] \in Nat /\ snd_nxt[p] \in Nat /\ u \in Nat
        /\ snd_una[p] <= u
    BY <1>0, <2>4 DEF IInv, SenderInv, TypeOK, Unacked
  <2>6. snd_una'[p] = u /\ snd_una'[Peer(p)] = snd_una[Peer(p)]
    BY <1>0, <2>2, <2>4 DEF TypeOK
  <2>7. rmt_wnd'[p] = m.wnd /\ rmt_wnd'[Peer(p)] = rmt_wnd[Peer(p)]
    BY <1>0, <2>2, <2>3 DEF TypeOK
  <2>8. m.wnd <= RcvWnd /\ snd_nxt[p] <= snd_una[p] + RcvWnd
    BY DEF WindowInv
  <2>9. snd_nxt'[p] <= snd_una'[p] + RcvWnd
    BY <2>3, <2>5, <2>6, <2>8, KcpAssumption
  <2>. QED BY <1>0, <2>2, <2>3, <2>6, <2>7, <2>8, <2>9, WindowStepOfPeer
<1>7. ASSUME NEW p \in Peers, NEW out, Output(p, out), \A m \in out : m.wnd = WndUnused(p)
      PROVE  \A q \in Peers : \A m \in net'[q] : m \in net[q] \/ m.wnd = WndUnused(p)
  BY <1>0, <1>7 DEF Output, TypeOK
<1>8. ASSUME NEW p, NEW S PROVE \A m \in Acks(p, S) : m.wnd = WndUnused(p)
  BY DEF Acks, Seg
<1>9. ASSUME NEW p \in Peers, FlushStopsAtAck(p) PROVE WindowInv'
  <2>1. PICK S : Output(p, Acks(p, S))
    BY <1>9 DEF FlushStopsAtAck
  <2>2. UNCHANGED <<snd_nxt, snd_una, rmt_wnd>>
    BY <1>9 DEF FlushStopsAtAck, sndvars, prbvars
  <2>3. \A q \in Peers : \A m \in net'[q] : m \in net[q] \/ m.wnd = WndUnused(p)
    BY <1>7, <1>8, <2>1
  <2>. QED BY <1>1, <2>2, <2>3
<1>10. ASSUME NEW p \in Peers, NEW fired \in BOOLEAN, FlushStopsAtProbe(p, fired)
       PROVE  WindowInv'
  <2>1. PICK S : Output(p, Acks(p, S))
    BY <1>10 DEF FlushStopsAtProbe
  <2>2. UNCHANGED <<snd_nxt, snd_una, rmt_wnd>>
    BY <1>10 DEF FlushStopsAtProbe, sndvars
  <2>3. \A q \in Peers : \A m \in net'[q] : m \in net[q] \/ m.wnd = WndUnused(p)
    BY <1>7, <1>8, <2>1
  <2>. QED BY <1>1, <2>2, <2>3
<1>11. ASSUME NEW p \in Peers, NEW fired \in BOOLEAN, NEW expired \in SUBSET xmit[p],
              NEW stop, FlushData(p, fired, expired, stop)
       PROVE  WindowInv'
  <2>1. PICK out : Output(p, out) /\ \A m \in out : m.wnd = WndUnused(p)
    <3>1. PICK S, data : Output(p, Acks(p, acklist[p]) \cup Probes(p, ProbeTimer(p, fired))
                                     \cup {Seg(p, "PUSH", sn, data[sn + 1]) : sn \in S})
      BY <1>11 DEF FlushData
    <3>2. \A m \in Probes(p, ProbeTimer(p, fired)) : m.wnd = WndUnused(p)
      BY DEF Probes, Seg
    <3>3. \A m \in {Seg(p, "PUSH", sn, data[sn + 1]) : sn \in S} : m.wnd = WndUnused(p)
      BY DEF Seg
    <3>. QED BY <1>8, <3>1, <3>2, <3>3
  <2>2. \A q \in Peers : \A m \in net'[q] : m \in net[q] \/ m.wnd = WndUnused(p)
    BY <1>7, <2>1
  <2>3. /\ snd_nxt' = [snd_nxt EXCEPT ![p] = snd_nxt[p] + Admitted(p)]
        /\ snd_una' = snd_una /\ rmt_wnd' = rmt_wnd
    BY <1>11 DEF FlushData
  <2>4. snd_nxt[p] + Admitted(p) <= snd_una[p] + RcvWnd
    <3>. DEFINE edge == snd_una[p] + Least(SndWnd, rmt_wnd[p])
    <3>1. /\ snd_nxt[p] \in Nat /\ snd_una[p] \in Nat /\ rmt_wnd[p] \in Nat
          /\ Len(snd_queue[p]) \in Nat /\ SndWnd \in Nat /\ RcvWnd \in Nat
      BY <1>0, LenProperties, KcpAssumption DEF TypeOK
    <3>2. rmt_wnd[p] <= RcvWnd /\ snd_nxt[p] <= snd_una[p] + RcvWnd
      BY DEF WindowInv
    <3>3. edge \in Nat /\ edge <= snd_una[p] + RcvWnd
      BY <3>1, <3>2 DEF Least
    <3>4. Admitted(p) = IF snd_nxt[p] < edge
                        THEN Least(Len(snd_queue[p]), edge - snd_nxt[p]) ELSE 0
      BY DEF Admitted
    <3>. HIDE DEF edge
    <3>. QED BY <3>1, <3>2, <3>3, <3>4 DEF Least
  <2>5. /\ snd_nxt'[p] = snd_nxt[p] + Admitted(p)
        /\ snd_nxt'[Peer(p)] = snd_nxt[Peer(p)]
    BY <1>0, <2>3, PeerFacts DEF TypeOK
  <2>6. rmt_wnd[p] <= RcvWnd
    BY DEF WindowInv
  <2>. QED BY <1>0, <2>2, <2>3, <2>4, <2>5, <2>6, WindowStepOfPeer
<1>12. ASSUME NEW p \in Peers, Flush(p) PROVE WindowInv'
  BY <1>9, <1>10, <1>11, <1>12 DEF Flush
<1>. QED BY <1>2, <1>3, <1>4, <1>5, <1>6, <1>12 DEF Next

(***************************************************************************)
(* A receiver with a window not smaller than what its peer believes at the *)
(* start is never sent a number two windows ahead.                         *)
(***************************************************************************)
THEOREM SendsTwoWindowsAhead == Spec => []TwoWindows
<1>1. CASE ~ (WndRcv <= RcvWnd)
  <2>1. TwoWindows
    BY <1>1 DEF TwoWindows
  <2>. QED BY <2>1, PTL
<1>2. CASE WndRcv <= RcvWnd
  <2>1. Init => WindowInv
    BY <1>2, KcpAssumption DEF Init, WindowInv
  <2>2. WindowInv /\ IInv /\ IInv' /\ [Next]_vars => WindowInv'
    BY WindowStep
  <2>3. IInv /\ WindowInv => TwoWindows
    <3>. SUFFICES ASSUME IInv, WindowInv, NEW p \in Peers, NEW m \in net[p], m.cmd = "PUSH"
                  PROVE  m.sn < rcv_nxt[p] + 2 * RcvWnd
      BY DEF TwoWindows
    <3>. DEFINE q == Peer(p)
    <3>0. /\ TypeOK /\ ReceiverInv(p) /\ NetInv(p, m)
          /\ q \in Peers /\ Peer(q) = p /\ SenderInv(q)
      BY PeerFacts DEF IInv
    <3>1. /\ snd_nxt[q] \in Nat /\ snd_una[q] \in Nat /\ rcv_nxt[p] \in Nat
          /\ RcvWnd \in Nat /\ m.sn \in Nat
      BY <3>0, KcpAssumption DEF TypeOK, Segment
    <3>2. m.sn < snd_nxt[q] /\ snd_nxt[q] <= snd_una[q] + RcvWnd
      BY <3>0 DEF NetInv, WindowInv
    <3>3. snd_una[q] <= rcv_nxt[p] + RcvWnd
      <4>1. CASE snd_una[q] = 0
        BY <3>1, <4>1
      <4>2. CASE snd_una[q] > 0
        <5>1. snd_una[q] - 1 \in 0..(snd_nxt[q] - 1) /\ snd_una[q] - 1 \notin snd_buf[q]
          BY <3>0, <3>1, <4>2 DEF SenderInv
        <5>2. snd_una[q] - 1 \in Received(p)
          BY <3>0, <5>1 DEF SenderInv
        <5>3. snd_una[q] - 1 < rcv_nxt[p] + RcvWnd
          BY <3>0, <3>1, <5>2 DEF Received, ReceiverInv
        <5>. QED BY <3>1, <5>3
      <4>. QED BY <3>1, <4>1, <4>2
    <3>. QED BY <3>1, <3>2, <3>3
  <2>. QED BY <2>1, <2>2, <2>3, Invariance, PTL DEF Spec
<1>. QED BY <1>1, <1>2

-----------------------------------------------------------------------------
(* What a step may not take back. *)
Onward(p) ==
  /\ snd_una'[p] >= snd_una[p]
  /\ rcv_nxt'[p] >= rcv_nxt[p]
  /\ snd_buf'[p] \cap 0..(snd_nxt[p] - 1) \subseteq snd_buf[p]

LEMMA OnwardWhenIdle ==
  ASSUME TypeOK, NEW p \in Peers, snd_una'[p] = snd_una[p], rcv_nxt'[p] = rcv_nxt[p],
         snd_buf'[p] = snd_buf[p]
  PROVE  Onward(p)
BY DEF Onward, TypeOK

(* Moving payloads to rcv_queue moves no rcv_nxt back. *)
LEMMA OnwardReceiver ==
  ASSUME TypeOK, NEW p \in Peers, NEW q \in Peers, NEW buf, NEW queue, NEW k \in 0..RcvWnd,
         MoveToQueue(p, buf, queue, k)
  PROVE  rcv_nxt'[q] >= rcv_nxt[q]
<1>1. /\ rcv_nxt' = [rcv_nxt EXCEPT ![p] = rcv_nxt[p] + k]
      /\ rcv_nxt \in [Peers -> Nat] /\ k \in Nat
  BY KcpAssumption DEF MoveToQueue, TypeOK
<1>. QED BY <1>1

LEMMA OnwardStep ==
  ASSUME IInv, [Next]_vars, NEW q \in Peers
  PROVE  Onward(q)
<1>0. TypeOK
  BY DEF IInv
<1>1. ASSUME UNCHANGED <<snd_una, snd_buf, rcv_nxt>> PROVE Onward(q)
  BY <1>0, <1>1, OnwardWhenIdle
<1>2. CASE UNCHANGED vars
  BY <1>1, <1>2 DEF vars, sndvars, rcvvars
<1>3. ASSUME NEW p \in Peers, NEW n \in SendLens, Send(p, n) PROVE Onward(q)
  BY <1>1, <1>3 DEF Send, rcvvars
<1>4. ASSUME NEW p \in Peers, NEW len \in ReadLens, Recv(p, len) PROVE Onward(q)
  <2>1. PICK n \in 0..Len(rcv_queue[p]), k \in 0..RcvWnd :
          MoveToQueue(p, rcv_buf[p], SubSeq(rcv_queue[p], n + 1, Len(rcv_queue[p])), k)
    BY <1>4, Zenon DEF Recv
  <2>2. rcv_nxt'[q] >= rcv_nxt[q]
    BY <1>0, <2>1, OnwardReceiver
  <2>3. snd_una' = snd_una /\ snd_buf' = snd_buf
    BY <1>4 DEF Recv, sndvars
  <2>. QED BY <1>0, <2>2, <2>3 DEF Onward, TypeOK
<1>5. ASSUME NEW p \in Peers, NEW m \in net[p], Lose(p, m) PROVE Onward(q)
  BY <1>1, <1>5 DEF Lose, sndvars, rcvvars
<1>6. ASSUME NEW p \in Peers, NEW m \in net[p], Receive(p, m) \/ ReceiveTwice(p, m)
      PROVE  Onward(q)
  <2>1. /\ AckInput(p, m)
        /\ PushInput(p, m) \/ WaskInput(p, m) \/ OtherInput(p, m)
    BY <1>6, Zenon DEF Receive, ReceiveTwice, Input
  <2>2. rcv_nxt'[q] >= rcv_nxt[q]
    <3>1. CASE rcv_nxt' = rcv_nxt
      BY <1>0, <3>1 DEF TypeOK
    <3>2. CASE \E k \in 0..RcvWnd : MoveToQueue(p, Inserted(p, m), rcv_queue[p], k)
      BY <1>0, <3>2, OnwardReceiver
    <3>. QED BY <2>1, <3>1, <3>2 DEF PushInput, WaskInput, OtherInput
  <2>3. snd_buf' = [snd_buf EXCEPT ![p] = Unacked(p, m)]
    BY <2>1 DEF AckInput
  <2>4. snd_buf'[q] \subseteq snd_buf[q]
    BY <1>0, <2>3 DEF TypeOK, Unacked
  <2>5. PICK u \in Unacked(p, m) \cup {snd_nxt[p]} : snd_una' = [snd_una EXCEPT ![p] = u]
    BY <2>1 DEF AckInput, ShrinkBuf
  <2>6. snd_una[p] \in Nat /\ u \in Nat /\ snd_una[p] <= u
    BY <1>0, <2>5 DEF IInv, SenderInv, TypeOK, Unacked
  <2>7. snd_una'[q] >= snd_una[q]
    <3>1. snd_una \in [Peers -> Nat]
      BY <1>0 DEF TypeOK
    <3>. QED BY <2>5, <2>6, <3>1
  <2>. QED BY <2>2, <2>4, <2>7 DEF Onward
<1>7. ASSUME NEW p \in Peers, Flush(p) PROVE Onward(q)
  <2>1. CASE FlushStopsAtAck(p)
    BY <1>1, <2>1 DEF FlushStopsAtAck, sndvars
  <2>2. ASSUME NEW fired \in BOOLEAN, FlushStopsAtProbe(p, fired) PROVE Onward(q)
    BY <1>1, <2>2 DEF FlushStopsAtProbe, sndvars
  <2>3. ASSUME NEW fired, NEW expired, NEW stop, FlushData(p, fired, expired, stop)
        PROVE  Onward(q)
    <3>1. /\ snd_una' = snd_una /\ rcv_nxt' = rcv_nxt
          /\ snd_buf' = [snd_buf EXCEPT ![p] =
               snd_buf[p] \cup (snd_nxt[p]..(snd_nxt[p] + Admitted(p) - 1))]
      BY <2>3 DEF FlushData
    <3>2. snd_buf'[q] \cap 0..(snd_nxt[q] - 1) \subseteq snd_buf[q]
      <4>1. snd_nxt[p] \in Nat /\ snd_buf \in [Peers -> SUBSET Nat]
        BY <1>0 DEF TypeOK
      <4>2. CASE q = p
        <5>1. snd_buf'[p] = snd_buf[p] \cup (snd_nxt[p]..(snd_nxt[p] + Admitted(p) - 1))
          BY <3>1, <4>1
        <5>2. \A sn \in 0..(snd_nxt[p] - 1) : sn \notin snd_nxt[p]..(snd_nxt[p] + Admitted(p) - 1)
          BY <4>1
        <5>. QED BY <4>2, <5>1, <5>2
      <4>3. CASE q # p
        BY <3>1, <4>1, <4>3
      <4>. QED BY <4>2, <4>3
    <3>3. /\ snd_una[q] \in Nat /\ rcv_nxt[q] \in Nat
          /\ snd_una'[q] = snd_una[q] /\ rcv_nxt'[q] = rcv_nxt[q]
      BY <1>0, <3>1 DEF TypeOK
    <3>4. snd_una'[q] >= snd_una[q] /\ rcv_nxt'[q] >= rcv_nxt[q]
      BY <3>3
    <3>. QED BY <3>2, <3>4, Zenon DEF Onward
  <2>. QED BY <1>7, <2>1, <2>2, <2>3 DEF Flush
<1>. QED BY <1>2, <1>3, <1>4, <1>5, <1>6, <1>7 DEF Next

(***************************************************************************)
(* Acknowledgements and deliveries are final, however late or often the    *)
(* segments that caused them arrive.                                       *)
(***************************************************************************)
THEOREM NothingTakenBack == Spec => NeverBack
<1>1. IInv /\ [Next]_vars =>
        [\A p \in Peers :
           /\ snd_una'[p] >= snd_una[p]
           /\ rcv_nxt'[p] >= rcv_nxt[p]
           /\ snd_buf'[p] \cap 0..(snd_nxt[p] - 1) \subseteq snd_buf[p]]_vars
  BY OnwardStep DEF Onward
<1>. QED BY <1>1, Invariance, PTL DEF Spec, NeverBack

-----------------------------------------------------------------------------
(***************************************************************************)
(* The payloads cut the stream.  all stands for log[p] \o snd_queue[p], w  *)
(* for written[p].                                                         *)
(***************************************************************************)
Pieces(all, w) == all \in Seq(Interval) /\ w \in Nat /\ Cut(all, w) /\ Ascending(all, w)

(* The pieces n bytes are cut into: the last of them is not empty. *)
LEMMA FragmentsFacts ==
  ASSUME NEW n \in Nat \ {0}
  PROVE  /\ Fragments(n) \in Nat \ {0}
         /\ (Fragments(n) - 1) * Mss < n
         /\ n <= Fragments(n) * Mss
<1>1. Mss \in Nat /\ Mss > 0
  BY KcpAssumption
<1>2. CASE n <= Mss
  <2>1. Fragments(n) = 1
    BY <1>2 DEF Fragments
  <2>. QED BY <1>1, <1>2, <2>1
<1>3. CASE ~ (n <= Mss)
  <2>. DEFINE f == (n + Mss - 1) \div Mss
  <2>1. Fragments(n) = f
    BY <1>3 DEF Fragments
  <2>2. f \in Int /\ Mss * f <= n + Mss - 1 /\ n + Mss - 1 < Mss * f + Mss
    BY <1>1, SMT
  <2>. HIDE DEF f
  <2>3. f * Mss = Mss * f /\ (f - 1) * Mss = Mss * f - Mss
    BY <1>1, <2>2, SMT
  <2>4. f > 0
    <3>. SUFFICES ASSUME f <= 0 PROVE FALSE
      BY <2>2
    <3>1. Mss * f <= 0
      BY <1>1, <2>2, SMT
    <3>. QED BY <1>1, <2>2, <3>1
  <2>. QED BY <1>1, <2>1, <2>2, <2>3, <2>4
<1>. QED BY <1>2, <1>3

LEMMA FragmentFacts ==
  ASSUME NEW lo \in Nat, NEW n \in Nat \ {0}
  PROVE  LET new == Fragmented(lo, n) IN
         /\ Len(new) = Fragments(n)
         /\ \A i \in 1..Len(new) :
              /\ new[i] \in Interval
              /\ Bytes(new[i]) \in 1..Mss
              /\ new[i].lo = (IF i = 1 THEN lo ELSE new[i - 1].hi)
              /\ lo <= new[i].lo
              /\ new[i].hi <= lo + n
              /\ \A j \in 1..Len(new) : i < j => new[i].hi <= new[j].lo
         /\ new[Len(new)].hi = lo + n
<1>. DEFINE F == Fragments(n)
            new == Fragmented(lo, n)
<1>1. /\ Mss \in Nat /\ Mss > 0 /\ F \in Nat /\ F > 0 /\ n \in Nat
      /\ (F - 1) * Mss < n /\ n <= F * Mss
  BY KcpAssumption, FragmentsFacts
<1>2. new \in Seq(Interval) /\ Len(new) = F
  <2>1. new \in Seq(Interval)
    BY <1>1, FragmentedType
  <2>2. DOMAIN new = 1..F
    BY DEF Fragmented
  <2>3. DOMAIN new = 1..Len(new) /\ Len(new) \in Nat
    BY <2>1, LenProperties
  <2>. HIDE DEF new, F
  <2>. QED BY <1>1, <2>1, <2>2, <2>3
<1>. HIDE DEF F
<1>3. \A i \in 1..F : new[i] = [lo |-> lo + (i - 1) * Mss, hi |-> lo + Least(i * Mss, n)]
  BY DEF Fragmented, F
<1>. HIDE DEF new
<1>4. \A i \in 1..F : new[i].lo = lo + (i - 1) * Mss /\ new[i].hi = lo + Least(i * Mss, n)
  <2>. SUFFICES ASSUME NEW i \in 1..F
                PROVE  new[i].lo = lo + (i - 1) * Mss /\ new[i].hi = lo + Least(i * Mss, n)
    OBVIOUS
  <2>. DEFINE a == lo + (i - 1) * Mss
              b == lo + Least(i * Mss, n)
  <2>1. new[i] = [lo |-> a, hi |-> b]
    BY <1>3
  <2>. HIDE DEF a, b
  <2>2. new[i].lo = a /\ new[i].hi = b
    BY <2>1
  <2>. QED BY <2>2 DEF a, b
<1>5. ASSUME NEW i \in 1..F
      PROVE  /\ i * Mss \in Nat /\ (i - 1) * Mss \in Nat
             /\ (i - 1) * Mss < n
             /\ i * Mss = (i - 1) * Mss + Mss
  <2>1. i * Mss \in Nat /\ (i - 1) * Mss \in Nat /\ i * Mss = (i - 1) * Mss + Mss
    BY <1>1, SMT
  <2>2. (i - 1) * Mss <= (F - 1) * Mss
    <3>1. \A a, b, c \in Nat : a <= b => a * c <= b * c
      BY SMT
    <3>2. i - 1 \in Nat /\ F - 1 \in Nat /\ i - 1 <= F - 1
      BY <1>1
    <3>. QED BY <1>1, <3>1, <3>2, Zenon
  <2>3. (F - 1) * Mss \in Nat
    BY <1>1, SMT
  <2>. QED BY <1>1, <2>1, <2>2, <2>3
<1>6. ASSUME NEW i \in 1..F, i < F
      PROVE  i * Mss < n
  <2>1. PICK j \in 1..F : j - 1 = i
    <3>. i + 1 \in 1..F /\ i + 1 - 1 = i
      BY <1>1, <1>6
    <3>. QED OBVIOUS
  <2>2. (j - 1) * Mss < n
    BY <1>5
  <2>. QED BY <2>1, <2>2, Zenon
<1>7. ASSUME NEW i \in 1..F
      PROVE  /\ new[i] \in Interval
             /\ Bytes(new[i]) \in 1..Mss
             /\ new[i].lo = (IF i = 1 THEN lo ELSE new[i - 1].hi)
             /\ lo <= new[i].lo
             /\ new[i].hi <= lo + n
  <2>1. new[i] \in Interval
    BY <1>2
  <2>2. Bytes(new[i]) \in 1..Mss
    <3>. DEFINE a == (i - 1) * Mss
                b == i * Mss
    <3>1. a \in Nat /\ b \in Nat /\ a < n /\ b = a + Mss
      BY <1>5
    <3>2. new[i].lo = lo + a /\ new[i].hi = lo + Least(b, n)
      BY <1>4
    <3>. HIDE DEF a, b
    <3>. QED BY <1>1, <3>1, <3>2 DEF Bytes, Least
  <2>3. CASE i = 1
    <3>1. (i - 1) * Mss = 0
      BY <1>1, <2>3, SMT
    <3>2. new[i].lo = lo
      BY <1>4, <3>1
    <3>3. new[i].hi <= lo + n
      <4>1. i * Mss \in Nat /\ new[i].hi = lo + Least(i * Mss, n)
        BY <1>4, <1>5
      <4>. QED BY <1>1, <4>1 DEF Least
    <3>. QED BY <2>1, <2>2, <2>3, <3>2, <3>3
  <2>4. CASE i # 1
    <3>1. i - 1 \in 1..F /\ i - 1 < F
      BY <1>1, <2>4
    <3>2. (i - 1) * Mss < n /\ (i - 1) * Mss \in Nat
      BY <1>5
    <3>3. new[i - 1].hi = lo + Least((i - 1) * Mss, n)
      BY <1>4, <3>1
    <3>4. new[i - 1].hi = lo + (i - 1) * Mss
      BY <1>1, <3>2, <3>3 DEF Least
    <3>5. new[i].lo = lo + (i - 1) * Mss
      BY <1>4
    <3>6. new[i].hi <= lo + n
      <4>1. i * Mss \in Nat /\ new[i].hi = lo + Least(i * Mss, n)
        BY <1>4, <1>5
      <4>. QED BY <1>1, <4>1 DEF Least
    <3>. QED BY <2>1, <2>2, <2>4, <3>2, <3>4, <3>5, <3>6
  <2>. QED BY <2>3, <2>4
<1>8. ASSUME NEW i \in 1..F, NEW j \in 1..F, i < j
      PROVE  new[i].hi <= new[j].lo
  <2>. DEFINE a == i * Mss
              b == (j - 1) * Mss
  <2>1. a <= b
    <3>1. \A x, y, z \in Nat : x <= y => x * z <= y * z
      BY SMT
    <3>2. i \in Nat /\ j - 1 \in Nat /\ i <= j - 1
      BY <1>8
    <3>. QED BY <1>1, <3>1, <3>2, Zenon
  <2>2. a \in Nat /\ b \in Nat
    BY <1>5
  <2>3. new[i].hi = lo + Least(a, n) /\ new[j].lo = lo + b
    BY <1>4
  <2>. HIDE DEF a, b
  <2>. QED BY <1>1, <2>1, <2>2, <2>3 DEF Least
<1>9. new[F].hi = lo + n
  <2>1. F \in 1..F
    BY <1>1
  <2>2. new[F].hi = lo + Least(F * Mss, n) /\ F * Mss \in Nat
    BY <1>4, <1>5, <2>1
  <2>. QED BY <1>1, <2>2 DEF Least
<1>. QED BY <1>2, <1>7, <1>8, <1>9 DEF F, new

(* A payload that e bytes are added to. *)
LEMMA LongerPayload ==
  ASSUME NEW d \in Interval, NEW e \in Nat
  PROVE  LET longer == [d EXCEPT !.hi = @ + e] IN
         longer \in Interval /\ longer.lo = d.lo /\ longer.hi = d.hi + e
<1>1. PICK lo \in Nat, hi \in Nat : d = [lo |-> lo, hi |-> hi]
  BY DEF Interval
<1>2. [d EXCEPT !.hi = @ + e] = [lo |-> lo, hi |-> hi + e]
  BY <1>1
<1>3. d.lo = lo /\ d.hi = hi /\ hi + e \in Nat
  BY <1>1
<1>. QED BY <1>2, <1>3 DEF Interval

LEMMA PiecesAppended ==
  ASSUME NEW all, NEW w, Pieces(all, w), NEW n \in Nat \ {0}
  PROVE  Pieces(all \o Fragmented(w, n), w + n)
<1>. DEFINE new == Fragmented(w, n)
            L == Len(all)
            M == Len(new)
            both == all \o new
<1>1. /\ all \in Seq(Interval) /\ w \in Nat /\ L \in Nat
      /\ new \in Seq(Interval) /\ M \in Nat \ {0}
  BY LenProperties, FragmentedType, FragmentFacts, FragmentsFacts DEF Pieces
<1>2. /\ \A i \in 1..L : /\ all[i] \in Interval
                         /\ Bytes(all[i]) \in 1..Mss
                         /\ all[i].lo = (IF i = 1 THEN 0 ELSE all[i - 1].hi)
                         /\ all[i].hi <= w
                         /\ \A j \in 1..L : i < j => all[i].hi <= all[j].lo
      /\ L = 0 => w = 0
      /\ L > 0 => w = all[L].hi
  BY <1>1, EmptySeq DEF Pieces, Cut, Ascending
<1>3. /\ \A i \in 1..M :
           /\ new[i] \in Interval
           /\ Bytes(new[i]) \in 1..Mss
           /\ new[i].lo = (IF i = 1 THEN w ELSE new[i - 1].hi)
           /\ w <= new[i].lo
           /\ new[i].hi <= w + n
           /\ \A j \in 1..M : i < j => new[i].hi <= new[j].lo
      /\ new[M].hi = w + n
  BY <1>1, FragmentFacts
<1>. HIDE DEF new
<1>4. /\ both \in Seq(Interval) /\ Len(both) = L + M
      /\ \A i \in 1..(L + M) : both[i] = IF i <= L THEN all[i] ELSE new[i - L]
  BY <1>1, ConcatProperties
<1>. HIDE DEF both, L, M
<1>5. ASSUME NEW i \in 1..(L + M)
      PROVE  \/ i \in 1..L /\ both[i] = all[i]
             \/ i - L \in 1..M /\ i \notin 1..L /\ both[i] = new[i - L]
  BY <1>1, <1>4
<1>6. ASSUME NEW i \in 1..(L + M)
      PROVE  Bytes(both[i]) \in 1..Mss
  BY <1>2, <1>3, <1>5
<1>7. ASSUME NEW i \in 1..(L + M)
      PROVE  both[i].lo = (IF i = 1 THEN 0 ELSE both[i - 1].hi)
  <2>1. CASE i \in 1..L
    <3>1. both[i].lo = (IF i = 1 THEN 0 ELSE all[i - 1].hi)
      BY <1>2, <1>5, <2>1
    <3>2. i # 1 => i - 1 \in 1..(L + M) /\ i - 1 \in 1..L
      BY <1>1, <2>1
    <3>. QED BY <1>5, <3>1, <3>2
  <2>2. CASE i = L + 1
    <3>1. both[i] = new[1] /\ 1 \in 1..M
      BY <1>1, <1>4, <2>2
    <3>2. both[i].lo = w
      BY <1>3, <3>1
    <3>3. CASE L = 0
      BY <1>1, <1>2, <2>2, <3>2, <3>3
    <3>4. CASE L > 0
      <4>1. i # 1 /\ i - 1 = L /\ L \in 1..(L + M) /\ L <= L
        BY <1>1, <2>2, <3>4
      <4>2. both[L] = all[L]
        BY <1>4, <4>1
      <4>. QED BY <1>2, <3>2, <3>4, <4>1, <4>2
    <3>. QED BY <1>1, <3>3, <3>4
  <2>3. CASE i > L + 1
    <3>. DEFINE k == i - L
    <3>1. k \in 1..M /\ k # 1 /\ i # 1 /\ ~ (i <= L) /\ ~ (i - 1 <= L)
          /\ i - 1 \in 1..(L + M) /\ (i - 1) - L = k - 1
      BY <1>1, <2>3
    <3>2. both[i] = new[k] /\ both[i - 1] = new[k - 1]
      BY <1>4, <3>1
    <3>. HIDE DEF k
    <3>. QED BY <1>3, <3>1, <3>2
  <2>. QED BY <1>1, <2>1, <2>2, <2>3
<1>8. ASSUME NEW i \in 1..(L + M)
      PROVE  both[i].hi <= w + n
  <2>1. CASE i \in 1..L
    <3>1. both[i] = all[i] /\ all[i] \in Interval /\ all[i].hi <= w
      BY <1>2, <1>5, <2>1
    <3>. QED BY <1>1, <3>1 DEF Interval
  <2>2. CASE i \notin 1..L
    BY <1>3, <1>5, <2>2
  <2>. QED BY <2>1, <2>2
<1>9. ASSUME NEW i \in 1..(L + M), NEW j \in 1..(L + M), i < j
      PROVE  both[i].hi <= both[j].lo
  <2>1. CASE i \in 1..L /\ j \in 1..L
    BY <1>2, <1>5, <1>9, <2>1
  <2>2. CASE i \in 1..L /\ j \notin 1..L
    <3>1. both[i] = all[i] /\ all[i] \in Interval /\ all[i].hi <= w
      BY <1>2, <1>5, <2>2
    <3>2. both[j] = new[j - L] /\ new[j - L] \in Interval /\ w <= new[j - L].lo
      BY <1>3, <1>5, <2>2
    <3>3. all[i].hi \in Nat /\ new[j - L].lo \in Nat
      BY <3>1, <3>2 DEF Interval
    <3>. QED BY <1>1, <3>1, <3>2, <3>3
  <2>3. CASE i \notin 1..L /\ j \notin 1..L
    <3>1. /\ both[i] = new[i - L] /\ i - L \in 1..M
          /\ both[j] = new[j - L] /\ j - L \in 1..M
      BY <1>5, <2>3
    <3>2. i - L < j - L
      BY <1>1, <1>9
    <3>. QED BY <1>3, <3>1, <3>2
  <2>4. ~ (i \notin 1..L /\ j \in 1..L)
    BY <1>1, <1>9
  <2>. QED BY <2>1, <2>2, <2>3, <2>4
<1>10. both # <<>> /\ both[Len(both)].hi = w + n
  <2>1. L + M \in 1..(L + M) /\ ~ (L + M <= L) /\ L + M - L = M
    BY <1>1
  <2>2. both[L + M] = new[M]
    <3>1. PICK i \in 1..(L + M) : i = L + M /\ i \notin 1..L /\ i - L = M
      BY <1>1
    <3>. QED BY <1>5, <3>1, Zenon
  <2>3. Len(both) # 0
    BY <1>1, <1>4
  <2>. QED BY <1>3, <1>4, <2>2, <2>3, EmptySeq
<1>11. Cut(both, w + n)
  BY <1>4, <1>6, <1>7, <1>10 DEF Cut
<1>12. Ascending(both, w + n)
  BY <1>4, <1>8, <1>9 DEF Ascending
<1>. QED BY <1>1, <1>4, <1>11, <1>12 DEF Pieces, both, new

LEMMA PiecesExtended ==
  ASSUME NEW all, NEW w, Pieces(all, w), all # <<>>, NEW e \in Nat \ {0},
         Bytes(all[Len(all)]) + e <= Mss
  PROVE  Pieces(Extended(all, e), w + e)
<1>. DEFINE L == Len(all)
            last == [all[L] EXCEPT !.hi = @ + e]
            longer == [all EXCEPT ![L] = last]
<1>1. /\ all \in Seq(Interval) /\ w \in Nat /\ L \in Nat /\ L > 0 /\ L \in 1..L
  BY LenProperties, EmptySeq DEF Pieces
<1>2. /\ \A i \in 1..L : /\ all[i] \in Interval
                         /\ Bytes(all[i]) \in 1..Mss
                         /\ all[i].lo = (IF i = 1 THEN 0 ELSE all[i - 1].hi)
                         /\ all[i].hi <= w
                         /\ \A j \in 1..L : i < j => all[i].hi <= all[j].lo
      /\ w = all[L].hi
  BY <1>1 DEF Pieces, Cut, Ascending
<1>3. last \in Interval /\ last.lo = all[L].lo /\ last.hi = w + e /\ Bytes(last) \in 1..Mss
  <2>1. all[L] \in Interval /\ Bytes(all[L]) \in 1..Mss /\ all[L].hi = w
    BY <1>1, <1>2
  <2>2. last \in Interval /\ last.lo = all[L].lo /\ last.hi = all[L].hi + e
    BY <2>1, LongerPayload
  <2>3. all[L].lo \in Nat /\ all[L].hi \in Nat
    BY <2>1 DEF Interval
  <2>. HIDE DEF last
  <2>4. Mss \in Nat /\ all[L].hi - all[L].lo \in 1..Mss /\ all[L].hi - all[L].lo + e <= Mss
    BY <2>1, KcpAssumption DEF Bytes
  <2>. QED BY <1>1, <2>1, <2>2, <2>3, <2>4 DEF Bytes
<1>. HIDE DEF last
<1>4. /\ longer \in Seq(Interval) /\ Len(longer) = L
      /\ \A i \in 1..L : longer[i] = IF i = L THEN last ELSE all[i]
  BY <1>1, <1>3, ExceptSeq
<1>. HIDE DEF longer
<1>5. ASSUME NEW i \in 1..L
      PROVE  /\ Bytes(longer[i]) \in 1..Mss
             /\ longer[i].lo = all[i].lo
             /\ longer[i].hi <= w + e
  <2>1. CASE i = L
    BY <1>1, <1>3, <1>4, <2>1
  <2>2. CASE i # L
    <3>1. longer[i] = all[i] /\ all[i] \in Interval /\ all[i].hi <= w
      BY <1>2, <1>4, <2>2
    <3>. QED BY <1>1, <1>2, <3>1 DEF Interval
  <2>. QED BY <2>1, <2>2
<1>6. ASSUME NEW i \in 1..L
      PROVE  longer[i].lo = (IF i = 1 THEN 0 ELSE longer[i - 1].hi)
  <2>1. i # 1 => i - 1 \in 1..L /\ i - 1 # L
    BY <1>1
  <2>. QED BY <1>2, <1>4, <1>5, <2>1
<1>7. ASSUME NEW i \in 1..L, NEW j \in 1..L, i < j
      PROVE  longer[i].hi <= longer[j].lo
  <2>1. longer[i] = all[i]
    BY <1>1, <1>4, <1>7
  <2>. QED BY <1>2, <1>5, <1>7, <2>1
<1>8. longer # <<>> /\ longer[Len(longer)].hi = w + e
  BY <1>1, <1>3, <1>4, EmptySeq
<1>9. Cut(longer, w + e) /\ Ascending(longer, w + e)
  BY <1>4, <1>5, <1>6, <1>7, <1>8 DEF Cut, Ascending
<1>10. longer = Extended(all, e)
  BY DEF longer, last, Extended
<1>. QED BY <1>1, <1>4, <1>9, <1>10 DEF Pieces

(* Extending the tail of snd_queue extends the tail of all. *)
LEMMA TailOfAll ==
  ASSUME NEW l \in Seq(Interval), NEW q \in Seq(Interval), q # <<>>, NEW e \in Nat \ {0}
  PROVE  LET all == l \o q IN
         /\ all \in Seq(Interval) /\ all # <<>>
         /\ all[Len(all)] = q[Len(q)]
         /\ l \o Extended(q, e) = Extended(all, e)
<1>. DEFINE all == l \o q
            last == [q[Len(q)] EXCEPT !.hi = @ + e]
            r == [q EXCEPT ![Len(q)] = last]
            left == l \o r
            right == [all EXCEPT ![Len(all)] = last]
            L == Len(l)
            M == Len(q)
<1>1. L \in Nat /\ M \in Nat /\ M > 0 /\ M \in 1..M
  BY LenProperties, EmptySeq
<1>2. last \in Interval
  <2>1. q[M] \in Interval
    BY <1>1
  <2>. QED BY <2>1, LongerPayload
<1>. HIDE DEF last
<1>3. r \in Seq(Interval) /\ Len(r) = M /\ \A i \in 1..M : r[i] = IF i = M THEN last ELSE q[i]
  BY <1>1, <1>2, ExceptSeq
<1>. HIDE DEF r
<1>4. /\ all \in Seq(Interval) /\ Len(all) = L + M
      /\ \A i \in 1..(L + M) : all[i] = IF i <= L THEN l[i] ELSE q[i - L]
  BY ConcatProperties
<1>5. /\ left \in Seq(Interval) /\ Len(left) = L + M
      /\ \A i \in 1..(L + M) : left[i] = IF i <= L THEN l[i] ELSE r[i - L]
  <2>1. /\ left \in Seq(Interval) /\ Len(left) = Len(l) + Len(r)
        /\ \A i \in 1..(Len(l) + Len(r)) : left[i] = IF i <= Len(l) THEN l[i] ELSE r[i - Len(l)]
    BY <1>3, ConcatProperties
  <2>. HIDE DEF left
  <2>. QED BY <1>3, <2>1
<1>. HIDE DEF all, left
<1>6. L + M \in 1..Len(all)
  BY <1>1, <1>4
<1>7. /\ right \in Seq(Interval) /\ Len(right) = L + M
      /\ \A i \in 1..(L + M) : right[i] = IF i = L + M THEN last ELSE all[i]
  BY <1>2, <1>4, <1>6, ExceptSeq
<1>. HIDE DEF right, L, M
<1>8. ASSUME NEW i \in 1..(L + M) PROVE left[i] = right[i]
  <2>1. CASE i <= L
    <3>1. i # L + M
      BY <1>1, <2>1
    <3>. QED BY <1>4, <1>5, <1>7, <2>1, <3>1
  <2>2. CASE ~ (i <= L)
    <3>1. i - L \in 1..M /\ (i - L = M <=> i = L + M)
      BY <1>1, <2>2
    <3>. QED BY <1>3, <1>4, <1>5, <1>7, <2>2, <3>1
  <2>. QED BY <2>1, <2>2
<1>9. left = right
  BY <1>5, <1>7, <1>8, SeqEqual
<1>10. all # <<>> /\ all[Len(all)] = q[M]
  <2>1. PICK i \in 1..(L + M) : i = L + M /\ ~ (i <= L) /\ i - L = M
    BY <1>1
  <2>2. all[i] = q[M]
    BY <1>4, <2>1
  <2>. QED BY <1>1, <1>4, <2>1, <2>2, EmptySeq
<1>11. right = Extended(all, e)
  BY <1>10 DEF right, last, M, Extended
<1>12. r = Extended(q, e)
  BY DEF r, last, Extended
<1>. QED BY <1>4, <1>9, <1>10, <1>11, <1>12 DEF all, left, M

(* Numbering the head of snd_queue leaves all as it is. *)
LEMMA NumberingKeeps ==
  ASSUME NEW l \in Seq(Interval), NEW q \in Seq(Interval), NEW n \in 0..Len(q)
  PROVE  (l \o SubSeq(q, 1, n)) \o SubSeq(q, n + 1, Len(q)) = l \o q
<1>. DEFINE a == SubSeq(q, 1, n)
            b == SubSeq(q, n + 1, Len(q))
<1>1. Len(q) \in Nat
  BY LenProperties
<1>2. a \in Seq(Interval) /\ b \in Seq(Interval)
  BY <1>1, SubSeqFacts
<1>3. a \o b = q
  <2>1. 1 \in 1..Len(q) + 1 /\ n \in 0..Len(q) /\ Len(q) \in n..Len(q) /\ n \in 1 - 1..Len(q)
    BY <1>1
  <2>2. SubSeq(q, 1, n) \o SubSeq(q, n + 1, Len(q)) = SubSeq(q, 1, Len(q))
    BY <2>1, ConcatAdjacentSubSeq
  <2>. QED BY <2>2, SubSeqFull
<1>. HIDE DEF a, b
<1>4. (l \o a) \o b = l \o (a \o b)
  BY <1>2, ConcatAssociative
<1>. QED BY <1>3, <1>4 DEF a, b

-----------------------------------------------------------------------------
(* The steps that change what was written or what was read. *)

All(p) == log[p] \o snd_queue[p]

LEMMA StreamInvIs ==
  ASSUME TypeOK
  PROVE  StreamInv <=> \A p \in Peers : Pieces(All(p), written[p])
<1>1. \A p \in Peers : All(p) \in Seq(Interval) /\ written[p] \in Nat
  BY ConcatProperties DEF All, TypeOK
<1>. QED BY <1>1 DEF StreamInv, Pieces, All

LEMMA SendPieces ==
  ASSUME TypeOK, NEW p \in Peers, NEW n \in Nat \ {0}, Send(p, n), Pieces(All(p), written[p])
  PROVE  /\ Pieces(All(p)', written'[p])
         /\ \E x \in written[p]..MaxBytes : written' = [written EXCEPT ![p] = x]
         /\ \A q \in Peers : q # p => All(q)' = All(q) /\ written'[q] = written[q]
<1>. DEFINE q == snd_queue[p]
            e == Extend(p, n)
            base == Extended(q, e)
            w == written[p]
            l == log[p]
<1>1. /\ q \in Seq(Interval) /\ w \in Nat /\ l \in Seq(Interval)
      /\ snd_queue \in [Peers -> Seq(Interval)] /\ written \in [Peers -> Nat]
      /\ Mss \in Nat /\ MaxBytes \in Nat /\ w + n <= MaxBytes /\ log' = log
  BY KcpAssumption DEF TypeOK, Send
<1>2. /\ e \in 0..n
      /\ e # 0 => q # <<>> /\ Bytes(q[Len(q)]) + e <= Mss
  <2>1. q # <<>> => Bytes(q[Len(q)]) \in Int
    <3>. SUFFICES ASSUME q # <<>> PROVE Bytes(q[Len(q)]) \in Int
      OBVIOUS
    <3>1. Len(q) \in 1..Len(q)
      BY <1>1, EmptySeq, LenProperties
    <3>2. q[Len(q)] \in Interval
      BY <1>1, <3>1
    <3>. QED BY <3>2 DEF Bytes, Interval
  <2>. HIDE DEF q
  <2>2. e = IF Stream /\ q # <<>> /\ Bytes(q[Len(q)]) < Mss THEN Least(n, Mss - Bytes(q[Len(q)])) ELSE 0
    BY DEF Extend, q
  <2>. HIDE DEF e
  <2>. QED BY <1>1, <2>1, <2>2 DEF Least
<1>3. base \in Seq(Interval) /\ Pieces(l \o base, w + e)
  <2>1. CASE e = 0
    BY <1>1, <2>1 DEF Extended, All
  <2>2. CASE e # 0
    <3>. DEFINE all == l \o q
    <3>1. base = Extended(q, e)
      OBVIOUS
    <3>. HIDE DEF e, q, base, l
    <3>2. e \in Nat \ {0} /\ q # <<>> /\ Bytes(q[Len(q)]) + e <= Mss
      BY <1>2, <2>2
    <3>3. /\ all # <<>> /\ all[Len(all)] = q[Len(q)]
          /\ l \o base = Extended(all, e)
      <4>1. l \in Seq(Interval) /\ q \in Seq(Interval)
        BY <1>1
      <4>. QED BY <3>1, <3>2, <4>1, TailOfAll
    <3>4. Pieces(all, w)
      BY DEF All, q, l
    <3>. HIDE DEF all
    <3>5. Pieces(Extended(all, e), w + e)
      BY <3>2, <3>3, <3>4, PiecesExtended
    <3>6. base \in Seq(Interval)
      <4>1. Len(q) \in 1..Len(q)
        BY <1>1, <3>2, EmptySeq, LenProperties DEF q
      <4>2. q[Len(q)] \in Interval
        BY <1>1, <4>1
      <4>3. [q[Len(q)] EXCEPT !.hi = @ + e] \in Interval
        BY <3>2, <4>2, LongerPayload
      <4>4. [q EXCEPT ![Len(q)] = [q[Len(q)] EXCEPT !.hi = @ + e]] \in Seq(Interval)
        BY <1>1, <4>1, <4>3, ExceptSeq
      <4>. QED BY <2>2, <3>1, <4>4 DEF Extended
    <3>. QED BY <3>3, <3>5, <3>6
  <2>. QED BY <2>1, <2>2
<1>. HIDE DEF e, base, q, l
<1>4. CASE /\ snd_queue' = [snd_queue EXCEPT ![p] = base]
           /\ written' = [written EXCEPT ![p] = @ + e]
  <2>1. All(p)' = l \o base /\ written'[p] = w + e
    BY <1>1, <1>4 DEF All, l
  <2>2. \A r \in Peers : r # p => All(r)' = All(r) /\ written'[r] = written[r]
    BY <1>1, <1>4 DEF All
  <2>3. w + e \in written[p]..MaxBytes
    BY <1>1, <1>2
  <2>. QED BY <1>3, <1>4, <2>1, <2>2, <2>3
<1>5. CASE /\ ~ (Stream /\ n - e <= 0)
           /\ snd_queue' = [snd_queue EXCEPT ![p] = base \o Fragmented(written[p] + e, n - e)]
           /\ written' = [written EXCEPT ![p] = @ + n]
  <2>. DEFINE new == Fragmented(w + e, n - e)
  <2>1. w + e \in Nat /\ n - e \in Nat \ {0} /\ w + e + (n - e) = w + n
    <3>1. n - e # 0
      <4>1. CASE Stream
        BY <1>2, <1>5, <4>1
      <4>2. CASE ~ Stream
        BY <1>2, <4>2 DEF e, Extend
      <4>. QED BY <4>1, <4>2
    <3>. QED BY <1>1, <1>2, <3>1
  <2>2. new \in Seq(Interval)
    BY <2>1, FragmentedType
  <2>3. Pieces((l \o base) \o new, w + n)
    BY <1>3, <2>1, PiecesAppended
  <2>. HIDE DEF new
  <2>4. (l \o base) \o new = l \o (base \o new)
    <3>1. l \in Seq(Interval) /\ base \in Seq(Interval) /\ new \in Seq(Interval)
      BY <1>1, <1>3, <2>2
    <3>. QED BY <3>1, ConcatAssociative
  <2>5. snd_queue' = [snd_queue EXCEPT ![p] = base \o new]
    BY <1>5 DEF new
  <2>6. All(p)' = l \o (base \o new) /\ written'[p] = w + n
    BY <1>1, <1>5, <2>5 DEF All, l
  <2>7. \A r \in Peers : r # p => All(r)' = All(r) /\ written'[r] = written[r]
    BY <1>1, <1>5, <2>5 DEF All
  <2>8. w + n \in written[p]..MaxBytes
    BY <1>1
  <2>. QED BY <1>5, <2>3, <2>4, <2>6, <2>7, <2>8
<1>. QED BY <1>4, <1>5 DEF Send, e, base, q

LEMMA FlushPieces ==
  ASSUME TypeOK, NEW p \in Peers, SenderInv(p), Flush(p)
  PROVE  UNCHANGED <<written, delivered>> /\ \A q \in Peers : All(q)' = All(q)
<1>1. CASE FlushStopsAtAck(p) \/ \E fired \in BOOLEAN : FlushStopsAtProbe(p, fired)
  BY <1>1 DEF FlushStopsAtAck, FlushStopsAtProbe, sndvars, All
<1>2. ASSUME NEW fired, NEW expired, NEW stop, FlushData(p, fired, expired, stop)
      PROVE  UNCHANGED <<written, delivered>> /\ \A q \in Peers : All(q)' = All(q)
  <2>. DEFINE n == Admitted(p)
              s == snd_queue[p]
              head == log[p] \o SubSeq(s, 1, n)
              rest == SubSeq(s, n + 1, Len(s))
  <2>1. /\ snd_queue' = [snd_queue EXCEPT ![p] = rest]
        /\ log' = [log EXCEPT ![p] = head]
        /\ UNCHANGED <<written, delivered>>
    BY <1>2 DEF FlushData
  <2>2. /\ s \in Seq(Interval) /\ log[p] \in Seq(Interval) /\ n \in 0..Len(s)
        /\ DOMAIN snd_queue = Peers /\ DOMAIN log = Peers
    BY AdmittedFacts DEF TypeOK
  <2>3. head \o rest = log[p] \o s
    BY <2>2, NumberingKeeps
  <2>. HIDE DEF n, s, head, rest
  <2>4. All(p)' = All(p)
    BY <2>1, <2>2, <2>3 DEF All, s
  <2>5. \A q \in Peers : q # p => All(q)' = All(q)
    BY <2>1, <2>2 DEF All
  <2>. QED BY <2>1, <2>4, <2>5
<1>. QED BY <1>1, <1>2 DEF Flush

(* The position an application has read up to. *)
Position(d) == IF d = <<>> THEN 0 ELSE d[Len(d)].hi

(* d was handed out, q waits, and both are the first pieces of all: a read that hands out n  *)
(* of q moves the position on, and not past what was written.                               *)
LEMMA ReadAdvances ==
  ASSUME NEW d \in Seq(Interval), NEW q \in Seq(Interval), NEW all, NEW w, Pieces(all, w),
         Len(d) + Len(q) <= Len(all),
         \A i \in 1..(Len(d) + Len(q)) : (d \o q)[i] = all[i],
         NEW n \in 1..Len(q)
  PROVE  Position(d \o SubSeq(q, 1, n)) \in (Position(d) + 1)..w
<1>. DEFINE r == d \o SubSeq(q, 1, n)
            L == Len(d)
<1>1. L \in Nat /\ Len(q) \in Nat /\ n \in Nat /\ n > 0 /\ n <= Len(q)
  BY LenProperties
<1>2. \A i \in 1..(L + Len(q)) : (d \o q)[i] = IF i <= L THEN d[i] ELSE q[i - L]
  BY ConcatProperties
<1>3. SubSeq(q, 1, n) \in Seq(Interval) /\ Len(SubSeq(q, 1, n)) = n /\ \A i \in 1..n : SubSeq(q, 1, n)[i] = q[i]
  BY <1>1, SubSeqFacts
<1>4. /\ r \in Seq(Interval) /\ Len(r) = L + n
      /\ \A i \in 1..(L + n) : r[i] = IF i <= L THEN d[i] ELSE SubSeq(q, 1, n)[i - L]
  <2>. DEFINE h == SubSeq(q, 1, n)
  <2>1. h \in Seq(Interval) /\ Len(h) = n
    BY <1>3
  <2>. HIDE DEF h
  <2>2. /\ d \o h \in Seq(Interval) /\ Len(d \o h) = Len(d) + Len(h)
        /\ \A i \in 1..(Len(d) + Len(h)) : (d \o h)[i] = IF i <= Len(d) THEN d[i] ELSE h[i - Len(d)]
    BY <2>1, ConcatProperties
  <2>. QED BY <2>1, <2>2 DEF h
<1>. HIDE DEF r, L
<1>5. L + n \in 1..Len(all) /\ L + n \in 1..(L + Len(q)) /\ ~ (L + n <= L) /\ L + n - L = n
  BY <1>1, LenProperties DEF L, Pieces
<1>6. Position(r) = all[L + n].hi
  <2>1. PICK i \in 1..(L + Len(q)) : i = L + n /\ i \in 1..(L + n) /\ ~ (i <= L) /\ i - L = n
    BY <1>1, <1>5
  <2>2. r[i] = q[n] /\ (d \o q)[i] = q[n]
    <3>1. r[i] = SubSeq(q, 1, n)[n]
      BY <1>4, <2>1
    <3>2. (d \o q)[i] = q[n]
      BY <1>2, <2>1
    <3>3. n \in 1..n
      BY <1>1
    <3>. QED BY <1>3, <3>1, <3>2, <3>3
  <2>3. r # <<>>
    BY <1>1, <1>4, EmptySeq
  <2>. QED BY <1>4, <2>1, <2>2, <2>3 DEF Position, L
<1>7. /\ all[L + n].hi <= w
      /\ all[L + n].hi \in Nat /\ all[L + n].lo \in Nat /\ w \in Nat
      /\ all[L + n].lo < all[L + n].hi
  <2>1. all[L + n] \in Interval /\ Bytes(all[L + n]) \in 1..Mss /\ all[L + n].hi <= w /\ w \in Nat
    BY <1>5 DEF Pieces, Cut, Ascending
  <2>2. all[L + n].hi \in Nat /\ all[L + n].lo \in Nat
    BY <2>1 DEF Interval
  <2>. QED BY <2>1, <2>2, KcpAssumption DEF Bytes
<1>8. CASE d = <<>>
  <2>1. Position(d) = 0
    BY <1>8 DEF Position
  <2>. QED BY <1>6, <1>7, <2>1 DEF r
<1>9. CASE d # <<>>
  <2>1. L \in 1..Len(all) /\ L < L + n /\ L \in 1..(L + Len(q)) /\ L <= L
    BY <1>1, <1>5, <1>9, EmptySeq DEF L
  <2>2. d[L] = all[L]
    BY <1>2, <2>1 DEF L
  <2>3. Position(d) = all[L].hi
    BY <1>9, <2>2 DEF Position, L
  <2>4. all[L].hi <= all[L + n].lo
    BY <1>5, <2>1 DEF Pieces, Ascending
  <2>5. all[L].hi \in Nat
    <3>1. all[L] \in Interval
      BY <2>1 DEF Pieces
    <3>. QED BY <3>1 DEF Interval
  <2>6. Position(d) + 1 \in Nat /\ Position(d) + 1 <= Position(r) /\ Position(r) <= w /\ Position(r) \in Nat
    <3>. DEFINE a == all[L + n].hi
                b == all[L + n].lo
                c == all[L].hi
    <3>1. Position(r) = a /\ Position(d) = c /\ c <= b /\ b < a /\ a <= w
          /\ a \in Nat /\ b \in Nat /\ c \in Nat /\ w \in Nat
      BY <1>6, <1>7, <2>3, <2>4, <2>5, Zenon
    <3>. HIDE DEF a, b, c
    <3>. QED BY <3>1
  <2>7. Position(r) \in (Position(d) + 1)..w
    BY <1>7, <2>6
  <2>. QED BY <2>7 DEF r
<1>. QED BY <1>8, <1>9

LEMMA RecvReads ==
  ASSUME IInv, StreamInv, NEW p \in Peers, NEW len, Recv(p, len)
  PROVE  /\ UNCHANGED <<log, snd_queue, written>>
         /\ \A q \in Peers : q # p => delivered'[q] = delivered[q]
         /\ \/ delivered' = delivered
            \/ Position(delivered'[p]) \in (Position(delivered[p]) + 1)..written[Peer(p)]
<1>1. PICK n \in 0..Len(rcv_queue[p]) :
        delivered' = [delivered EXCEPT ![p] = @ \o SubSeq(rcv_queue[p], 1, n)]
  BY Zenon DEF Recv
<1>2. UNCHANGED <<log, snd_queue, written>>
  BY DEF Recv, sndvars
<1>. DEFINE q == rcv_queue[p]
            d == delivered[p]
            l == log[Peer(p)]
            all == All(Peer(p))
            w == written[Peer(p)]
<1>3. /\ TypeOK /\ Peer(p) \in Peers /\ ReceiverInv(p) /\ SenderInv(Peer(p))
  BY PeerFacts DEF IInv
<1>4. /\ d \in Seq(Interval) /\ q \in Seq(Interval) /\ delivered \in [Peers -> Seq(Interval)]
      /\ l \in Seq(Interval) /\ snd_queue[Peer(p)] \in Seq(Interval)
      /\ rcv_nxt[p] \in Nat
  BY <1>3 DEF TypeOK
<1>5. CASE n = 0
  <2>1. SubSeq(q, 1, 0) = <<>>
    BY SubSeqEmpty
  <2>2. d \o <<>> = d
    BY <1>4, ConcatEmptySeq
  <2>3. delivered' = delivered
    BY <1>1, <1>4, <1>5, <2>1, <2>2
  <2>. QED BY <1>2, <2>3
<1>6. CASE n # 0
  <2>1. n \in 1..Len(q)
    BY <1>4, <1>6, LenProperties
  <2>2. /\ Len(d) + Len(q) = rcv_nxt[p]
        /\ \A i \in 1..rcv_nxt[p] : (d \o q)[i] = l[i]
        /\ rcv_nxt[p] <= Len(l)
    BY <1>3 DEF ReceiverInv, SenderInv
  <2>3. Pieces(all, w)
    BY <1>3, StreamInvIs
  <2>4. /\ Len(l) <= Len(all)
        /\ \A i \in 1..Len(l) : all[i] = l[i]
    <3>. DEFINE s == snd_queue[Peer(p)]
    <3>1. Len(l) \in Nat /\ Len(s) \in Nat
      BY <1>4, LenProperties
    <3>. HIDE DEF l, s
    <3>2. /\ Len(l \o s) = Len(l) + Len(s)
          /\ \A i \in 1..(Len(l) + Len(s)) : (l \o s)[i] = IF i <= Len(l) THEN l[i] ELSE s[i - Len(l)]
      BY <1>4, ConcatProperties DEF s
    <3>3. all = l \o s
      BY DEF All, l, s
    <3>. HIDE DEF all
    <3>. QED BY <3>1, <3>2, <3>3
  <2>. HIDE DEF q, d, l, all, w
  <2>5. Len(l) \in Nat /\ Len(all) \in Nat /\ Len(d) \in Nat /\ Len(q) \in Nat
    BY <1>4, <2>3, LenProperties DEF Pieces
  <2>6. Len(d) + Len(q) <= Len(all) /\ \A i \in 1..(Len(d) + Len(q)) : (d \o q)[i] = all[i]
    BY <1>4, <2>2, <2>4, <2>5
  <2>7. Position(d \o SubSeq(q, 1, n)) \in (Position(d) + 1)..w
    BY <1>4, <2>1, <2>3, <2>6, ReadAdvances
  <2>8. /\ delivered'[p] = d \o SubSeq(q, 1, n)
        /\ \A r \in Peers : r # p => delivered'[r] = delivered[r]
    BY <1>1, <1>4 DEF d, q
  <2>. QED BY <1>2, <2>7, <2>8 DEF d, w
<1>. QED BY <1>5, <1>6

LEMMA StreamInit == Init => StreamInv /\ Promise!Init
<1>. SUFFICES ASSUME Init PROVE StreamInv /\ Promise!Init
  OBVIOUS
<1>1. ASSUME NEW p \in Peers PROVE Pieces(All(p), written[p])
  <2>1. All(p) = <<>>
    BY DEF Init, All
  <2>2. written[p] = 0 /\ <<>> \in Seq(Interval) /\ Len(<<>>) = 0
    BY EmptySeq DEF Init
  <2>. QED BY <2>1, <2>2 DEF Pieces, Cut, Ascending
<1>2. StreamInv
  BY <1>1, InitInv, StreamInvIs DEF IInv
<1>3. [p \in Peers |-> ReadBytes(p)] = [p \in Peers |-> 0]
  BY DEF ReadBytes, Init
<1>. QED BY <1>2, <1>3 DEF Init, Promise!Init, Promise!Peers, Peers

(* What the application has been handed out, p by p. *)
LEMMA ReadIs == [p \in Peers |-> ReadBytes(p)] = [p \in Peers |-> Position(delivered[p])]
BY DEF ReadBytes, Position

LEMMA StreamStep ==
  ASSUME IInv, IInv', StreamInv, [Next]_vars
  PROVE  StreamInv' /\ [Promise!Next]_(Promise!vars)
<1>. DEFINE reads == [p \in Peers |-> ReadBytes(p)]
<1>0. TypeOK /\ TypeOK' /\ \A p \in Peers : Pieces(All(p), written[p]) /\ SenderInv(p)
  BY StreamInvIs DEF IInv
<1>1. (\A p \in Peers : Pieces(All(p), written[p]))' => StreamInv'
  <2>1. ASSUME TypeOK', (\A p \in Peers : Pieces(All(p), written[p]))' PROVE StreamInv'
    BY <2>1 DEF StreamInv, Pieces, All
  <2>. QED BY <1>0, <2>1
<1>2. ASSUME UNCHANGED <<written, delivered>>, \A p \in Peers : All(p)' = All(p)
      PROVE  StreamInv' /\ [Promise!Next]_(Promise!vars)
  <2>1. (\A p \in Peers : Pieces(All(p), written[p]))'
    BY <1>0, <1>2
  <2>2. reads' = reads
    BY <1>2 DEF ReadBytes
  <2>. QED BY <1>1, <1>2, <2>1, <2>2 DEF Promise!vars
<1>3. ASSUME UNCHANGED <<log, snd_queue, written, delivered>>
      PROVE  StreamInv' /\ [Promise!Next]_(Promise!vars)
  BY <1>2, <1>3 DEF All
<1>4. CASE UNCHANGED vars
  BY <1>3, <1>4 DEF vars, sndvars, rcvvars
<1>5. ASSUME NEW p \in Peers, NEW n \in SendLens, Send(p, n)
      PROVE  StreamInv' /\ [Promise!Next]_(Promise!vars)
  <2>0. n \in Nat \ {0}
    BY KcpAssumption
  <2>1. Pieces(All(p)', written'[p])
    BY <1>0, <1>5, <2>0, SendPieces
  <2>2. PICK x \in written[p]..MaxBytes : written' = [written EXCEPT ![p] = x]
    BY <1>0, <1>5, <2>0, SendPieces
  <2>3. \A q \in Peers : q # p => All(q)' = All(q) /\ written'[q] = written[q]
    BY <1>0, <1>5, <2>0, SendPieces
  <2>4. StreamInv'
    <3>1. ASSUME NEW q \in Peers PROVE Pieces(All(q)', written'[q])
      BY <1>0, <2>1, <2>3
    <3>. QED BY <1>1, <3>1
  <2>5. delivered' = delivered /\ written \in [Peers -> Nat]
    BY <1>0, <1>5 DEF Send, rcvvars, TypeOK
  <2>6. reads' = reads
    BY <2>5 DEF ReadBytes
  <2>7. CASE x = written[p]
    <3>1. written' = written
      BY <2>2, <2>5, <2>7
    <3>. QED BY <2>4, <2>6, <3>1 DEF Promise!vars
  <2>8. CASE x # written[p]
    <3>1. x \in (written[p] + 1)..MaxBytes
      BY <2>2, <2>5, <2>8
    <3>2. Promise!Write(p)
      BY <2>2, <2>6, <3>1 DEF Promise!Write
    <3>. QED BY <2>4, <3>2 DEF Promise!Next, Promise!Peers, Peers
  <2>. QED BY <2>7, <2>8
<1>6. ASSUME NEW p \in Peers, NEW len \in ReadLens, Recv(p, len)
      PROVE  StreamInv' /\ [Promise!Next]_(Promise!vars)
  <2>1. /\ UNCHANGED <<log, snd_queue, written>>
        /\ \A q \in Peers : q # p => delivered'[q] = delivered[q]
        /\ \/ delivered' = delivered
           \/ Position(delivered'[p]) \in (Position(delivered[p]) + 1)..written[Peer(p)]
    BY <1>6, RecvReads
  <2>2. StreamInv'
    <3>1. (\A q \in Peers : Pieces(All(q), written[q]))'
      BY <1>0, <2>1 DEF All
    <3>. QED BY <1>1, <3>1
  <2>3. CASE delivered' = delivered
    BY <1>3, <2>1, <2>3
  <2>4. CASE Position(delivered'[p]) \in (Position(delivered[p]) + 1)..written[Peer(p)]
    <3>. DEFINE r == Position(delivered'[p])
    <3>1. reads[p] = Position(delivered[p])
      BY ReadIs
    <3>2. reads' = [q \in Peers |-> Position(delivered'[q])]
      BY DEF ReadBytes, Position
    <3>3. reads = [q \in Peers |-> Position(delivered[q])]
      BY ReadIs
    <3>4. reads' = [reads EXCEPT ![p] = r]
      BY <2>1, <3>2, <3>3
    <3>. HIDE DEF reads
    <3>5. r \in (reads[p] + 1)..written[Promise!Peer(p)]
      BY <2>4, <3>1 DEF Promise!Peer, Peer
    <3>. HIDE DEF r
    <3>6. Promise!Read(p)
      BY <2>1, <3>4, <3>5 DEF Promise!Read, reads
    <3>. QED BY <2>2, <3>6 DEF Promise!Next, Promise!Peers, Peers
  <2>. QED BY <2>1, <2>3, <2>4
<1>7. ASSUME NEW p \in Peers, Flush(p) PROVE StreamInv' /\ [Promise!Next]_(Promise!vars)
  BY <1>0, <1>2, <1>7, FlushPieces
<1>8. ASSUME NEW p \in Peers, NEW m \in net[p], Receive(p, m) \/ ReceiveTwice(p, m) \/ Lose(p, m)
      PROVE  StreamInv' /\ [Promise!Next]_(Promise!vars)
  BY <1>3, <1>8 DEF Receive, ReceiveTwice, Lose, Input, AckInput, sndvars, rcvvars
<1>. QED BY <1>4, <1>5, <1>6, <1>7, <1>8 DEF Next

(***************************************************************************)
(* Whatever ikcp_send is given, the payloads cut exactly the bytes it took *)
(* into pieces of 1 to mss bytes, in every state.                          *)
(***************************************************************************)
THEOREM CutsTheStream == Spec => []Partition
<1>1. StreamInv => Partition
  BY DEF StreamInv, Partition
<1>2. IInv /\ StreamInv /\ [Next]_vars => StreamInv'
  BY StepInv, StreamStep
<1>3. Init => StreamInv
  BY StreamInit
<1>. QED BY <1>1, <1>2, <1>3, Invariance, PTL DEF Spec

(***************************************************************************)
(* Two control blocks and a network that loses, repeats and reorders are   *)
(* a stream of bytes in each direction: every step is a write, a read of   *)
(* bytes that were written, or nothing.                                    *)
(***************************************************************************)
THEOREM IsAStream == Spec => ImplementsStream
<1>1. Init => StreamInv /\ Promise!Init
  BY StreamInit
<1>2. IInv /\ StreamInv /\ [Next]_vars => StreamInv' /\ [Promise!Next]_(Promise!vars)
  BY StepInv, StreamStep
<1>. QED BY <1>1, <1>2, Invariance, PTL DEF Spec, ImplementsStream, Promise!Spec
=============================================================================
