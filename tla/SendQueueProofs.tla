--------------------------- MODULE SendQueueProofs ---------------------------
(***************************************************************************)
(* Proofs about m_un_send_queue and its filling.  RingBuffer: for every    *)
(* size, header length and code, the positions of the queue stay in its    *)
(* array and it implements the queue of ByteQueue.  FlushOutput: for every *)
(* mtu, every capacity and any number of segments, what a flush outputs    *)
(* fits the queue.                                                         *)
(***************************************************************************)
EXTENDS RingBuffer, FlushOutput, SequenceTheorems, TLAPS

-----------------------------------------------------------------------------
(* The queue: AurCodeRoundRobinQueue. *)

(* Arithmetic of the positions. *)

\* A position that ran over the end at most once is taken back by one turn.
LEMMA Wraps ==
  ASSUME NEW n \in Nat \ {0}, NEW x \in Nat, x < 2 * n
  PROVE  x % n = IF x < n THEN x ELSE x - n
<1>1. CASE x < n
  BY <1>1
<1>2. CASE x >= n
  BY <1>2
<1>. QED BY <1>1, <1>2

(***************************************************************************)
(* The bytes between two positions, as constants of the lemmas: the state  *)
(* before and after a step are two instances.                              *)
(***************************************************************************)
Array == [0..(m_iDataBufferLen - 1) -> Byte]
Place == 0..(m_iDataBufferLen - 1)
Distance(r, w) == (w - r + m_iDataBufferLen) % m_iDataBufferLen
Held(b, r, w) == [i \in 1..Distance(r, w) |-> b[(r + i - 1) % m_iDataBufferLen]]

LEMMA BufferLen == m_iDataBufferLen \in Nat \ {0} /\ m_iDataBufferLen = Total + 1 /\ Total \in Nat
BY RingAssumption DEF m_iDataBufferLen

LEMMA DistanceFacts ==
  ASSUME NEW r \in Place, NEW w \in Place
  PROVE  /\ Distance(r, w) = IF w >= r THEN w - r ELSE w - r + m_iDataBufferLen
         /\ Distance(r, w) \in 0..Total
<1>. DEFINE x == w - r + m_iDataBufferLen
<1>1. x \in Nat /\ x < 2 * m_iDataBufferLen /\ Distance(r, w) = x % m_iDataBufferLen
  BY BufferLen DEF Place, Distance
<1>2. x % m_iDataBufferLen = IF x < m_iDataBufferLen THEN x ELSE x - m_iDataBufferLen
  <2>. HIDE DEF x
  <2>. QED BY <1>1, BufferLen, Wraps
<1>. QED BY <1>1, <1>2, BufferLen DEF Place

\* What is free is what is not used.
LEMMA FreeSize ==
  ASSUME TypeOK
  PROVE  GetFreeBufferSize = Total - GetUsedBufferSize
<1>. DEFINE r == m_iReadPosFlag
            w == m_iWritePosFlag
            x == r - w + m_iDataBufferLen - 1
<1>1. r \in Place /\ w \in Place
  BY DEF TypeOK, Place
<1>2. x \in Nat /\ x < 2 * m_iDataBufferLen
  BY <1>1, BufferLen DEF Place
<1>3. x % m_iDataBufferLen = IF x < m_iDataBufferLen THEN x ELSE x - m_iDataBufferLen
  BY <1>2, BufferLen, Wraps
<1>4. GetFreeBufferSize = x % m_iDataBufferLen
  BY DEF GetFreeBufferSize
<1>5. GetUsedBufferSize = Distance(r, w)
  BY DEF GetUsedBufferSize, Distance
<1>. HIDE DEF r, w
<1>6. Distance(r, w) = IF w >= r THEN w - r ELSE w - r + m_iDataBufferLen
  BY <1>1, DistanceFacts
<1>. QED BY <1>1, <1>3, <1>4, <1>5, <1>6, BufferLen DEF Place

LEMMA StepFacts ==
  ASSUME NEW pos \in Place, NEW n \in 0..Total
  PROVE  /\ Step(pos, n) = IF pos + n < m_iDataBufferLen THEN pos + n ELSE pos + n - m_iDataBufferLen
         /\ Step(pos, n) \in Place
<1>. DEFINE x == pos + n
<1>1. x \in Nat /\ x < 2 * m_iDataBufferLen /\ Step(pos, n) = x % m_iDataBufferLen
  BY BufferLen DEF Place, Step
<1>2. x % m_iDataBufferLen = IF x < m_iDataBufferLen THEN x ELSE x - m_iDataBufferLen
  <2>. HIDE DEF x
  <2>. QED BY <1>1, BufferLen, Wraps
<1>. QED BY <1>1, <1>2, BufferLen DEF Place

LEMMA HeldFacts ==
  ASSUME NEW b \in Array, NEW r \in Place, NEW w \in Place
  PROVE  /\ Held(b, r, w) \in Seq(Byte)
         /\ Len(Held(b, r, w)) = Distance(r, w)
         /\ \A i \in 1..Distance(r, w) :
              Held(b, r, w)[i] = IF r + i - 1 < m_iDataBufferLen
                                 THEN b[r + i - 1] ELSE b[r + i - 1 - m_iDataBufferLen]
<1>. DEFINE d == Distance(r, w)
<1>1. d \in Nat /\ d <= Total
  BY DistanceFacts, BufferLen
<1>. HIDE DEF d
<1>2. ASSUME NEW i \in 1..d
      PROVE  /\ (r + i - 1) % m_iDataBufferLen =
                  IF r + i - 1 < m_iDataBufferLen THEN r + i - 1 ELSE r + i - 1 - m_iDataBufferLen
             /\ (r + i - 1) % m_iDataBufferLen \in Place
  <2>. DEFINE x == r + i - 1
  <2>1. x \in Nat /\ x < 2 * m_iDataBufferLen
    BY <1>1, BufferLen DEF Place
  <2>2. x % m_iDataBufferLen = IF x < m_iDataBufferLen THEN x ELSE x - m_iDataBufferLen
    <3>. HIDE DEF x
    <3>. QED BY <2>1, BufferLen, Wraps
  <2>. QED BY <2>1, <2>2, BufferLen DEF Place
<1>3. Held(b, r, w) = [i \in 1..d |-> b[(r + i - 1) % m_iDataBufferLen]]
  BY DEF Held, d
<1>4. Held(b, r, w) \in [1..d -> Byte]
  BY <1>2, <1>3 DEF Array, Place
<1>5. Held(b, r, w) \in Seq(Byte) /\ Len(Held(b, r, w)) = d
  BY <1>1, <1>4
<1>. QED BY <1>2, <1>3, <1>5 DEF d

(* What SubSeq does to a sequence of bytes. *)
LEMMA SubSeqFacts ==
  ASSUME NEW s \in Seq(Byte), NEW a \in Nat \ {0}, NEW c \in Nat, c <= Len(s), a <= c + 1
  PROVE  /\ SubSeq(s, a, c) \in Seq(Byte)
         /\ Len(SubSeq(s, a, c)) = c - a + 1
         /\ \A i \in 1..(c - a + 1) : SubSeq(s, a, c)[i] = s[a + i - 1]
<1>1. \A i \in a..c : s[i] \in Byte
  BY ElementOfSeq, LenProperties
<1>. QED BY <1>1, SubSeqProperties

-----------------------------------------------------------------------------
(* What the operations do to the bytes held. *)

\* A copy gives the oldest bytes.
LEMMA FirstBytesHeld ==
  ASSUME TypeOK, NEW n \in 0..GetUsedBufferSize
  PROVE  /\ FirstBytes(n) = SubSeq(Contents, 1, n)
         /\ FirstBytes(n) \in Seq(Byte)
         /\ FirstBytes(n) \in [1..n -> Byte]
<1>. DEFINE b == m_szDataBuffer
            r == m_iReadPosFlag
            w == m_iWritePosFlag
            d == Distance(r, w)
            h == Held(b, r, w)
<1>0. /\ b \in Array /\ r \in Place /\ w \in Place
      /\ GetUsedBufferSize = d /\ Contents = h
  BY DEF TypeOK, Array, Place, GetUsedBufferSize, Distance, Contents, Held
<1>1. /\ h \in Seq(Byte)
      /\ Len(h) = d
      /\ \A i \in 1..d : h[i] = IF r + i - 1 < m_iDataBufferLen
                                THEN b[r + i - 1] ELSE b[r + i - 1 - m_iDataBufferLen]
  BY <1>0, HeldFacts
<1>2. d \in Nat /\ n \in Nat /\ n <= d
  BY <1>0, DistanceFacts, BufferLen
<1>. HIDE DEF d, h
<1>3. \A i \in 1..n : FirstBytes(n)[i] = h[i]
  BY <1>0, <1>1, <1>2, BufferLen DEF FirstBytes, Place
<1>4. \A i \in 1..n : h[i] \in Byte
  BY <1>1, <1>2, ElementOfSeq
<1>5. FirstBytes(n) = [i \in 1..n |-> FirstBytes(n)[i]]
  BY DEF FirstBytes
<1>6. FirstBytes(n) \in [1..n -> Byte]
  BY <1>3, <1>4, <1>5
<1>7. FirstBytes(n) \in Seq(Byte) /\ Len(FirstBytes(n)) = n
  BY <1>2, <1>6
<1>8. /\ SubSeq(h, 1, n) \in Seq(Byte)
      /\ Len(SubSeq(h, 1, n)) = n
      /\ \A i \in 1..n : SubSeq(h, 1, n)[i] = h[i]
  BY <1>1, <1>2, SubSeqFacts
<1>9. FirstBytes(n) = SubSeq(h, 1, n)
  BY <1>3, <1>7, <1>8, SeqEqual
<1>. QED BY <1>0, <1>6, <1>7, <1>9

\* Moving the read position drops the oldest bytes.
LEMMA StepDrops ==
  ASSUME NEW b \in Array, NEW r \in Place, NEW w \in Place, NEW n \in 0..Distance(r, w)
  PROVE  /\ Step(r, n) \in Place
         /\ Held(b, Step(r, n), w) = SubSeq(Held(b, r, w), n + 1, Len(Held(b, r, w)))
<1>. DEFINE d == Distance(r, w)
            v == Step(r, n)
            h == Held(b, r, w)
            g == Held(b, v, w)
<1>1. /\ d = IF w >= r THEN w - r ELSE w - r + m_iDataBufferLen
      /\ d \in 0..Total /\ n \in 0..Total /\ n <= d
  BY DistanceFacts, BufferLen
<1>2. /\ v = IF r + n < m_iDataBufferLen THEN r + n ELSE r + n - m_iDataBufferLen
      /\ v \in Place
  BY <1>1, StepFacts
<1>. HIDE DEF v
<1>3. Distance(v, w) = IF w >= v THEN w - v ELSE w - v + m_iDataBufferLen
  BY <1>2, DistanceFacts
<1>4. Distance(v, w) = d - n
  <2>. HIDE DEF d
  <2>. QED BY <1>1, <1>2, <1>3, BufferLen DEF Place
<1>5. /\ h \in Seq(Byte) /\ Len(h) = d
      /\ \A i \in 1..d : h[i] = IF r + i - 1 < m_iDataBufferLen
                                THEN b[r + i - 1] ELSE b[r + i - 1 - m_iDataBufferLen]
  BY HeldFacts
<1>6. /\ g \in Seq(Byte) /\ Len(g) = d - n
      /\ \A i \in 1..(d - n) : g[i] = IF v + i - 1 < m_iDataBufferLen
                                      THEN b[v + i - 1] ELSE b[v + i - 1 - m_iDataBufferLen]
  <2>. DEFINE e == Distance(v, w)
  <2>1. /\ g \in Seq(Byte) /\ Len(g) = e
        /\ \A i \in 1..e : g[i] = IF v + i - 1 < m_iDataBufferLen
                                  THEN b[v + i - 1] ELSE b[v + i - 1 - m_iDataBufferLen]
    BY <1>2, HeldFacts
  <2>2. e = d - n
    BY <1>4
  <2>. HIDE DEF d, e, g
  <2>. QED BY <2>1, <2>2
<1>. HIDE DEF d, h, g
<1>7. /\ SubSeq(h, n + 1, d) \in Seq(Byte)
      /\ Len(SubSeq(h, n + 1, d)) = d - n
      /\ \A i \in 1..(d - n) : SubSeq(h, n + 1, d)[i] = h[n + i]
  <2>1. n + 1 \in Nat \ {0} /\ d \in Nat /\ n + 1 <= d + 1 /\ d - (n + 1) + 1 = d - n
    BY <1>1, BufferLen
  <2>2. \A i \in 1..(d - n) : n + 1 + i - 1 = n + i
    BY <2>1, <1>1
  <2>. QED BY <1>5, <2>1, <2>2, SubSeqFacts
<1>8. ASSUME NEW i \in 1..(d - n)
      PROVE  g[i] = h[n + i]
  <2>1. n + i \in 1..d
    BY <1>1, BufferLen
  <2>2. h[n + i] = IF r + (n + i) - 1 < m_iDataBufferLen
                   THEN b[r + (n + i) - 1] ELSE b[r + (n + i) - 1 - m_iDataBufferLen]
    BY <1>5, <2>1
  <2>3. g[i] = IF v + i - 1 < m_iDataBufferLen
               THEN b[v + i - 1] ELSE b[v + i - 1 - m_iDataBufferLen]
    BY <1>6
  <2>4. CASE r + n < m_iDataBufferLen
    BY <1>1, <1>2, <2>2, <2>3, <2>4, BufferLen DEF Place
  <2>5. CASE r + n >= m_iDataBufferLen
    <3>1. /\ v + i - 1 = r + (n + i) - 1 - m_iDataBufferLen
          /\ v + i - 1 < m_iDataBufferLen
          /\ ~ (r + (n + i) - 1 < m_iDataBufferLen)
      BY <1>1, <1>2, <2>5, BufferLen DEF Place
    <3>. QED BY <2>2, <2>3, <3>1
  <2>. QED BY <1>1, <2>4, <2>5, BufferLen DEF Place
<1>9. g = SubSeq(h, n + 1, d)
  BY <1>6, <1>7, <1>8, SeqEqual
<1>. QED BY <1>2, <1>5, <1>9 DEF g, h, v

\* A write that fits is appended, and changes nothing that is held.
LEMMA WriteAppends ==
  ASSUME TypeOK, NEW s \in Seq(Byte), Len(s) <= GetFreeBufferSize
  PROVE  /\ Written(s) \in Array
         /\ Step(m_iWritePosFlag, Len(s)) \in Place
         /\ Held(Written(s), m_iReadPosFlag, Step(m_iWritePosFlag, Len(s))) = Contents \o s
         /\ Len(Contents) + Len(s) <= Total
<1>. DEFINE b == m_szDataBuffer
            r == m_iReadPosFlag
            w == m_iWritePosFlag
            n == Len(s)
            d == Distance(r, w)
            v == Step(w, n)
            e == Distance(r, v)
            c == Written(s)
            h == Held(b, r, w)
            g == Held(c, r, v)
<1>0. /\ b \in Array /\ r \in Place /\ w \in Place
      /\ GetUsedBufferSize = d /\ Contents = h
  BY DEF TypeOK, Array, Place, GetUsedBufferSize, Distance, Contents, Held
<1>1. /\ d = IF w >= r THEN w - r ELSE w - r + m_iDataBufferLen
      /\ d \in 0..Total
  BY <1>0, DistanceFacts
<1>2. n \in Nat /\ d + n <= Total
  BY <1>0, <1>1, FreeSize, LenProperties, BufferLen
<1>. HIDE DEF b, r, w, n
<1>3. /\ v = IF w + n < m_iDataBufferLen THEN w + n ELSE w + n - m_iDataBufferLen
      /\ v \in Place
  <2>1. n \in 0..Total
    BY <1>1, <1>2, BufferLen
  <2>. QED BY <1>0, <2>1, StepFacts
<1>. HIDE DEF v
<1>4. e = d + n
  <2>1. e = IF v >= r THEN v - r ELSE v - r + m_iDataBufferLen
    BY <1>0, <1>3, DistanceFacts
  <2>. HIDE DEF d, e
  <2>. QED BY <1>0, <1>1, <1>2, <1>3, <2>1, BufferLen DEF Place
<1>5. c \in Array /\ \A i \in Place : c[i] =
         IF i >= w /\ i - w < n THEN s[i - w + 1]
         ELSE IF i < n - (m_iDataBufferLen - w) THEN s[m_iDataBufferLen - w + i + 1] ELSE b[i]
  <2>1. c = [i \in Place |->
         IF i >= w /\ i - w < n THEN s[i - w + 1]
         ELSE IF i < n - (m_iDataBufferLen - w) THEN s[m_iDataBufferLen - w + i + 1] ELSE b[i]]
    BY DEF Written, Place, w, n, b
  <2>2. \A j \in 1..n : s[j] \in Byte
    BY ElementOfSeq DEF n
  <2>3. ASSUME NEW i \in Place
        PROVE  c[i] \in Byte
    <3>1. CASE i >= w /\ i - w < n
      <4>1. i - w + 1 \in 1..n
        BY <1>0, <1>2, <3>1, BufferLen DEF Place
      <4>. QED BY <2>1, <2>2, <3>1, <4>1
    <3>2. CASE ~ (i >= w /\ i - w < n) /\ i < n - (m_iDataBufferLen - w)
      <4>1. m_iDataBufferLen - w + i + 1 \in 1..n
        BY <1>0, <1>2, <3>2, BufferLen DEF Place
      <4>. QED BY <2>1, <2>2, <3>2, <4>1
    <3>3. CASE ~ (i >= w /\ i - w < n) /\ ~ (i < n - (m_iDataBufferLen - w))
      <4>1. b[i] \in Byte
        BY <1>0 DEF Array, Place
      <4>. QED BY <2>1, <3>3, <4>1
    <3>. QED BY <3>1, <3>2, <3>3
  <2>. HIDE DEF c
  <2>. QED BY <2>1, <2>3 DEF Array, Place
<1>. HIDE DEF c
<1>6. /\ h \in Seq(Byte) /\ Len(h) = d
      /\ \A i \in 1..d : h[i] = IF r + i - 1 < m_iDataBufferLen
                                THEN b[r + i - 1] ELSE b[r + i - 1 - m_iDataBufferLen]
  BY <1>0, HeldFacts
<1>7. /\ g \in Seq(Byte) /\ Len(g) = d + n
      /\ \A i \in 1..(d + n) : g[i] = IF r + i - 1 < m_iDataBufferLen
                                      THEN c[r + i - 1] ELSE c[r + i - 1 - m_iDataBufferLen]
  <2>1. /\ g \in Seq(Byte) /\ Len(g) = e
        /\ \A i \in 1..e : g[i] = IF r + i - 1 < m_iDataBufferLen
                                  THEN c[r + i - 1] ELSE c[r + i - 1 - m_iDataBufferLen]
    BY <1>0, <1>3, <1>5, HeldFacts
  <2>. HIDE DEF d, e, g
  <2>. QED BY <1>4, <2>1
<1>8. /\ h \o s \in Seq(Byte) /\ Len(h \o s) = d + n
      /\ \A i \in 1..(d + n) : (h \o s)[i] = IF i <= d THEN h[i] ELSE s[i - d]
  <2>. HIDE DEF d, h
  <2>. QED BY <1>6, ConcatProperties DEF n
<1>. HIDE DEF d, e, h, g
<1>9. ASSUME NEW i \in 1..(d + n)
      PROVE  g[i] = (h \o s)[i]
  <2>. DEFINE x == r + i - 1
              y == IF x < m_iDataBufferLen THEN x ELSE x - m_iDataBufferLen
  <2>0. i \in Nat /\ 1 <= i /\ i <= d + n
    BY <1>1, <1>2, BufferLen
  <2>1. y \in Place
    BY <1>0, <1>1, <1>2, <2>0, BufferLen DEF Place
  <2>2. g[i] = c[y]
    <3>1. g[i] = IF x < m_iDataBufferLen THEN c[x] ELSE c[x - m_iDataBufferLen]
      BY <1>0, <1>7, <2>0, BufferLen DEF Place
    <3>. HIDE DEF x
    <3>. QED BY <3>1
  <2>3. CASE i <= d
    <3>1. h[i] = b[y]
      <4>1. i \in 1..d
        BY <1>1, <2>0, <2>3
      <4>2. h[i] = IF x < m_iDataBufferLen THEN b[x] ELSE b[x - m_iDataBufferLen]
        BY <1>0, <1>6, <2>0, <4>1, BufferLen DEF Place
      <4>. HIDE DEF x
      <4>. QED BY <4>2
    <3>2. ~ (y >= w /\ y - w < n) /\ ~ (y < n - (m_iDataBufferLen - w))
      BY <1>0, <1>1, <1>2, <2>0, <2>3, BufferLen DEF Place
    <3>. HIDE DEF y
    <3>. QED BY <1>5, <1>8, <2>1, <2>2, <2>3, <3>1, <3>2
  <2>4. CASE i > d
    <3>1. CASE y >= w /\ y - w < n
      <4>1. y - w + 1 = i - d
        BY <1>0, <1>1, <1>2, <2>0, <2>4, <3>1, BufferLen DEF Place
      <4>2. c[y] = s[y - w + 1]
        <5>. HIDE DEF y
        <5>. QED BY <1>5, <2>1, <3>1
      <4>3. (h \o s)[i] = s[i - d]
        BY <1>1, <1>8, <2>0, <2>4
      <4>. HIDE DEF y
      <4>. QED BY <2>2, <4>1, <4>2, <4>3
    <3>2. CASE ~ (y >= w /\ y - w < n)
      <4>1. y < n - (m_iDataBufferLen - w) /\ m_iDataBufferLen - w + y + 1 = i - d
        BY <1>0, <1>1, <1>2, <2>0, <2>4, <3>2, BufferLen DEF Place
      <4>2. c[y] = s[m_iDataBufferLen - w + y + 1]
        <5>. HIDE DEF y
        <5>. QED BY <1>5, <2>1, <3>2, <4>1
      <4>3. (h \o s)[i] = s[i - d]
        BY <1>1, <1>8, <2>0, <2>4
      <4>. HIDE DEF y
      <4>. QED BY <2>2, <4>1, <4>2, <4>3
    <3>. QED BY <3>1, <3>2
  <2>5. i <= d \/ i > d
    BY <1>1, <2>0, BufferLen
  <2>. QED BY <2>3, <2>4, <2>5
<1>10. g = h \o s
  BY <1>7, <1>8, <1>9, SeqEqual
<1>. QED BY <1>0, <1>2, <1>3, <1>5, <1>6, <1>10 DEF g, h, c, v, w, r, n, d

-----------------------------------------------------------------------------
(* Each step keeps the types, and is one of the steps of ByteQueue. *)

LEMMA ContentsHeld ==
  /\ Contents = Held(m_szDataBuffer, m_iReadPosFlag, m_iWritePosFlag)
  /\ Contents' = Held(m_szDataBuffer', m_iReadPosFlag', m_iWritePosFlag')
  /\ GetUsedBufferSize = Distance(m_iReadPosFlag, m_iWritePosFlag)
BY DEF Contents, Held, GetUsedBufferSize, Distance

LEMMA ContentsFacts ==
  ASSUME TypeOK
  PROVE  /\ Contents \in Seq(Byte)
         /\ Len(Contents) = GetUsedBufferSize
         /\ GetUsedBufferSize \in 0..Total
  BY ContentsHeld, HeldFacts, DistanceFacts DEF TypeOK, Array, Place

LEMMA WriteStep ==
  ASSUME TypeOK, NEW s \in Seq(Byte), Len(s) <= GetFreeBufferSize, Write(s)
  PROVE  TypeOK' /\ Queue!Put
<1>1. /\ m_szDataBuffer' \in Array
      /\ m_iWritePosFlag' \in Place
      /\ Contents' = Contents \o s
      /\ Len(Contents) + Len(s) <= Total
  BY WriteAppends, ContentsHeld DEF Write
<1>2. m_iReadPosFlag' = m_iReadPosFlag /\ moved' = s
  BY DEF Write
<1>3. TypeOK'
  BY <1>1, <1>2 DEF TypeOK, Array, Place
<1>4. Queue!Put
  BY <1>1, <1>2 DEF Queue!Put
<1>. QED BY <1>3, <1>4

LEMMA CopyStep ==
  ASSUME TypeOK, NEW n \in Nat, CopyDataFromBuffer(n)
  PROVE  TypeOK' /\ \E k \in 0..Len(Contents) : Queue!Look(k)
<1>. DEFINE k == IF n < GetUsedBufferSize THEN n ELSE GetUsedBufferSize
<1>1. k \in 0..GetUsedBufferSize /\ moved' = FirstBytes(k)
  BY ContentsFacts, BufferLen DEF CopyDataFromBuffer
<1>. HIDE DEF k
<1>2. moved' = SubSeq(Contents, 1, k) /\ moved' \in Seq(Byte)
  BY <1>1, FirstBytesHeld
<1>3. UNCHANGED <<m_szDataBuffer, m_iReadPosFlag, m_iWritePosFlag>>
  BY DEF CopyDataFromBuffer
<1>4. Contents' = Contents
  BY <1>3, ContentsHeld
<1>5. TypeOK'
  BY <1>2, <1>3 DEF TypeOK
<1>6. k \in 0..Len(Contents) /\ Queue!Look(k)
  BY <1>1, <1>2, <1>4, ContentsFacts DEF Queue!Look
<1>. QED BY <1>5, <1>6

\* Moving the read position, whatever the caller is given.
LEMMA ReadPosMoves ==
  ASSUME TypeOK, NEW n \in 0..GetUsedBufferSize,
         m_iReadPosFlag' = Step(m_iReadPosFlag, n),
         UNCHANGED <<m_szDataBuffer, m_iWritePosFlag>>,
         moved' \in Seq(Byte)
  PROVE  TypeOK' /\ Contents' = SubSeq(Contents, n + 1, Len(Contents))
<1>1. /\ m_szDataBuffer \in Array
      /\ m_iReadPosFlag \in Place
      /\ m_iWritePosFlag \in Place
      /\ n \in 0..Distance(m_iReadPosFlag, m_iWritePosFlag)
  BY ContentsHeld DEF TypeOK, Array, Place
<1>2. /\ m_iReadPosFlag' \in Place
      /\ Contents' = SubSeq(Contents, n + 1, Len(Contents))
  BY <1>1, StepDrops, ContentsHeld
<1>. QED BY <1>2 DEF TypeOK, Place

LEMMA RemoveStep ==
  ASSUME TypeOK, NEW n \in Nat, RemoveDataFromBuffer(n)
  PROVE  TypeOK' /\ \E k \in 0..Len(Contents) : Queue!Drop(k)
<1>1. n \in 0..GetUsedBufferSize /\ n \in 0..Len(Contents)
  BY ContentsFacts, BufferLen DEF RemoveDataFromBuffer
<1>2. moved' = moved /\ moved' \in Seq(Byte)
  BY DEF RemoveDataFromBuffer, TypeOK
<1>3. TypeOK' /\ Contents' = SubSeq(Contents, n + 1, Len(Contents))
  BY <1>1, <1>2, ReadPosMoves DEF RemoveDataFromBuffer
<1>4. Queue!Drop(n)
  BY <1>2, <1>3 DEF Queue!Drop
<1>. QED BY <1>1, <1>3, <1>4

LEMMA CodeStep ==
  ASSUME TypeOK, GetOneCode
  PROVE  TypeOK' /\ Queue!TakeCode
<1>. DEFINE n == CodeLength[FirstBytes(HeaderLen)]
<1>1. HeaderLen \in 0..GetUsedBufferSize
  BY ContentsFacts, BufferLen, RingAssumption DEF GetOneCode
<1>2. /\ FirstBytes(HeaderLen) = SubSeq(Contents, 1, HeaderLen)
      /\ FirstBytes(HeaderLen) \in [1..HeaderLen -> Byte]
  BY <1>1, FirstBytesHeld
<1>3. n \in Nat
  BY <1>2, RingAssumption
<1>4. /\ 0 < n /\ n <= GetUsedBufferSize
      /\ moved' = FirstBytes(n)
      /\ m_iReadPosFlag' = Step(m_iReadPosFlag, n)
      /\ UNCHANGED <<m_szDataBuffer, m_iWritePosFlag>>
  BY DEF GetOneCode
<1>5. n = CodeLength[SubSeq(Contents, 1, HeaderLen)]
  BY <1>2
<1>. HIDE DEF n
<1>6. n \in 0..GetUsedBufferSize
  BY <1>3, <1>4, ContentsFacts, BufferLen
<1>7. moved' = SubSeq(Contents, 1, n) /\ moved' \in Seq(Byte)
  BY <1>4, <1>6, FirstBytesHeld
<1>8. TypeOK' /\ Contents' = SubSeq(Contents, n + 1, Len(Contents))
  BY <1>4, <1>6, <1>7, ReadPosMoves
<1>9. Queue!TakeCode
  BY <1>1, <1>4, <1>5, <1>6, <1>7, <1>8, ContentsFacts DEF Queue!TakeCode
<1>. QED BY <1>8, <1>9

LEMMA StepOfQueue ==
  ASSUME TypeOK, [Next]_vars
  PROVE  TypeOK' /\ [Queue!Next]_Queue!vars
<1>1. ASSUME NEW s \in Inputs, WriteDataToBuffer(s) \/ WriteOneCode(s)
      PROVE  TypeOK' /\ Queue!Next
  <2>1. s \in Seq(Byte) /\ Len(s) <= GetFreeBufferSize /\ Write(s)
    BY <1>1, RingAssumption DEF WriteDataToBuffer, WriteOneCode
  <2>. QED BY <2>1, WriteStep DEF Queue!Next
<1>2. ASSUME NEW n \in 0..Total, CopyDataFromBuffer(n)
      PROVE  TypeOK' /\ Queue!Next
  BY <1>2, CopyStep DEF Queue!Next
<1>3. ASSUME NEW n \in 0..Total, RemoveDataFromBuffer(n)
      PROVE  TypeOK' /\ Queue!Next
  BY <1>3, RemoveStep DEF Queue!Next
<1>4. CASE GetOneCode
  BY <1>4, CodeStep DEF Queue!Next
<1>5. CASE UNCHANGED vars
  <2>1. Contents' = Contents /\ moved' = moved
    BY <1>5, ContentsHeld DEF vars
  <2>. QED BY <1>5, <2>1 DEF vars, TypeOK, Queue!vars
<1>. QED BY <1>1, <1>2, <1>3, <1>4, <1>5 DEF Next

LEMMA StartOfQueue ==
  ASSUME Init
  PROVE  TypeOK /\ Queue!Init
<1>1. TypeOK
  BY BufferLen DEF Init, TypeOK
<1>2. GetUsedBufferSize = 0
  <2>1. m_iReadPosFlag \in Place /\ m_iWritePosFlag \in Place
        /\ m_iWritePosFlag >= m_iReadPosFlag /\ m_iWritePosFlag - m_iReadPosFlag = 0
    BY BufferLen DEF Init, Place
  <2>. QED BY <2>1, DistanceFacts, ContentsHeld
<1>3. Contents = <<>>
  BY <1>1, <1>2, ContentsFacts, EmptySeq
<1>. QED BY <1>1, <1>3 DEF Queue!Init, Init

(***************************************************************************)
(* Whatever is written, read and removed, in any order, both positions     *)
(* stay inside the array.                                                  *)
(***************************************************************************)
THEOREM RingTypes == Spec => []TypeOK
<1>1. Init => TypeOK
  BY StartOfQueue
<1>2. TypeOK /\ [Next]_vars => TypeOK'
  BY StepOfQueue
<1>. QED BY <1>1, <1>2, PTL DEF Spec

(***************************************************************************)
(* AurCodeRoundRobinQueue is a first-in-first-out queue of at most         *)
(* iTotalBufferSize bytes: each of its calls is a step of ByteQueue, or    *)
(* changes nothing.                                                        *)
(***************************************************************************)
THEOREM RingIsAQueue == Spec => ImplementsQueue
<1>1. Init => Queue!Init
  BY StartOfQueue
<1>2. TypeOK /\ [Next]_vars => [Queue!Next]_Queue!vars
  BY StepOfQueue
<1>. QED BY <1>1, <1>2, RingTypes, PTL DEF Spec, ImplementsQueue, Queue!Spec

(***************************************************************************)
(* The flush that fills it: FlushOutput.                                   *)
(*                                                                         *)
(* A flush asks for room with what is already in kcp->buffer counted in;   *)
(* once granted, only its own output takes room away, and that is the      *)
(* buffer itself.  So the buffer always fits the queue (Promised), which   *)
(* is inductive together with the types and the bound on the buffer.       *)
(***************************************************************************)

LEMMA Numbers ==
  /\ Mtu \in Nat
  /\ Overhead \in Nat /\ Overhead <= Mtu
  /\ Capacity \in Nat
  /\ KeyLength \in Nat /\ KeyLength <= Capacity
  /\ AskLength \in Nat
BY OutputAssumption

\* A segment fits the mtu with its header.
LEMMA Needs ==
  ASSUME NEW n \in Lens
  PROVE  Overhead + n \in Nat /\ Overhead + n <= Mtu
<1>1. n \in Nat /\ Overhead + n <= Mtu
  BY OutputAssumption
<1> QED BY <1>1, Numbers

\* Room for s and n behind u queued bytes is room for n behind s and u.
LEMMA OutputMakesRoom ==
  ASSUME NEW c \in Nat, NEW n \in Nat, NEW s \in Nat, NEW u \in Nat,
         NEW v \in Nat, s + n < c - u, v <= u + s
  PROVE  v <= c /\ n <= c - v
OBVIOUS

\* What is left of a queue has at least the room it had.
LEMMA RoomGrows ==
  ASSUME NEW c \in Nat, NEW u \in Nat, NEW v \in Nat, u <= c, v <= u
  PROVE  v <= c /\ 0 <= c - v
OBVIOUS

\* What SendData() and CanSendData leave in the queue is no more than it was.
LEMMA Draining ==
  ASSUME RoomInv
  PROVE  /\ \A len \in Nat : \A v \in AfterAsking(len) : v \in Nat /\ v <= used
         /\ \A u \in Nat : \A v \in Drained(u) : v \in Nat /\ v <= u
BY Numbers DEF RoomInv, FlushTypeOK, AfterAsking, Drained, Free

(***************************************************************************)
(* A segment that was granted room goes to the buffer, and the buffer to   *)
(* the queue if it must, without anything being dropped.                   *)
(***************************************************************************)
LEMMA GrantedEncodes ==
  ASSUME RoomInv, NEW need \in Nat, need <= Mtu,
         NEW u \in Nat, u <= used, Granted(need, u), Encode(need, u)
  PROVE  /\ size' \in Nat /\ size' <= Mtu
         /\ used' \in Nat /\ used' <= Capacity
         /\ size' <= Free(used')
         /\ exited' = exited
<1> USE Numbers
<1>1. /\ size \in Nat /\ size <= Mtu /\ used \in Nat /\ used <= Capacity
      /\ u \in Nat /\ u <= Capacity
      /\ Mtu \in Nat /\ Capacity \in Nat
  BY DEF RoomInv, FlushTypeOK, BufferBounded
<1>2. size + need < Capacity - u
  BY DEF Granted, Free
<1>3. CASE size + need > Mtu
  <2>1. KcpOutput(size, u) /\ size' = need
    BY <1>1, <1>3 DEF Encode
  <2>2. ~ (size > Free(u))
    BY <1>1, <1>2 DEF Free
  <2>3. used' \in 0..(u + size) /\ exited' = exited
    BY <2>1, <2>2 DEF KcpOutput, Drained
  <2>4. used' \in Nat /\ used' <= u + size
    BY <1>1, <2>3
  <2>5. used' <= Capacity /\ need <= Capacity - used'
    BY <1>1, <1>2, <2>4, OutputMakesRoom
  <2> QED BY <2>1, <2>3, <2>4, <2>5 DEF Free
<1>4. CASE size + need <= Mtu
  <2>1. size' = size + need /\ used' = u /\ exited' = exited
    BY <1>1, <1>4 DEF Encode
  <2> QED BY <1>1, <1>2, <1>4, <2>1 DEF Free
<1> QED BY <1>1, <1>3, <1>4

LEMMA StartsEmpty == FlushInit => RoomInv
<1> SUFFICES ASSUME FlushInit PROVE RoomInv
  OBVIOUS
<1> USE Numbers DEF FlushInit
<1>1. used \in Nat /\ used <= Capacity
  OBVIOUS
<1>2. control \in Nat /\ data \in Seq(Lens) /\ size \in Nat
  OBVIOUS
<1>3. FlushTypeOK
  BY <1>1, <1>2 DEF FlushTypeOK
<1>4. BufferBounded /\ Promised
  BY <1>1 DEF BufferBounded, Promised, Free
<1> QED BY <1>3, <1>4 DEF RoomInv

(***************************************************************************)
(* No step leaves the invariant, and no step of a flush makes it exit.     *)
(***************************************************************************)
LEMMA StepKeepsRoom ==
  ASSUME RoomInv, [FlushNext]_flushVars
  PROVE  RoomInv' /\ (flushing => exited' = exited)
<1> USE Numbers DEF RoomInv, FlushTypeOK, BufferBounded, Promised
<1>1. CASE NewKcp
  <2>1. used' \in Nat /\ used' <= Capacity
    BY <1>1 DEF NewKcp, work, Free
  <2>2. FlushTypeOK'
    BY <1>1, <2>1 DEF NewKcp, work
  <2>3. BufferBounded' /\ Promised'
    BY <1>1, <2>1 DEF NewKcp, work, Free
  <2>4. flushing => exited' = exited
    BY <1>1 DEF NewKcp, work, Free
  <2> QED BY <2>2, <2>3, <2>4
<1>2. CASE Connect
  BY <1>2 DEF Connect, work, Free
<1>3. CASE CloseLogicConnect
  <2>1. used' \in Nat /\ used' <= Capacity
    BY <1>3 DEF CloseLogicConnect, work, Free
  <2>2. FlushTypeOK'
    BY <1>3, <2>1 DEF CloseLogicConnect, work
  <2>3. BufferBounded' /\ Promised'
    BY <1>3, <2>1 DEF CloseLogicConnect, work, Free
  <2>4. flushing => exited' = exited
    BY <1>3 DEF CloseLogicConnect, work, Free
  <2> QED BY <2>2, <2>3, <2>4
<1>4. CASE GetConvFromServer
  BY <1>4 DEF GetConvFromServer, work, Free
<1>5. CASE UpdateOnly
  <2>1. /\ size' = size /\ ~ flushing
        /\ used' \in Nat /\ used' <= used
    BY <1>5 DEF UpdateOnly, ReceiveData, work, Drained
  <2>2. used' <= Capacity /\ 0 <= Capacity - used'
    BY <2>1, RoomGrows
  <2>3. FlushTypeOK'
    BY <1>5, <2>1, <2>2 DEF UpdateOnly, ReceiveData, work
  <2>4. size' = 0
    BY <2>1
  <2>5. BufferBounded' /\ Promised'
    BY <2>2, <2>4 DEF Free
  <2> QED BY <2>1, <2>3, <2>5
<1>6. CASE StartFlush
  <2>1. data' \in Seq(Lens) /\ control' \in Nat
    BY <1>6 DEF StartFlush
  <2> QED BY <1>6, <2>1 DEF StartFlush, ReceiveData, Free
<1>7. CASE FlushControl
  <2>1. PICK u \in AfterAsking(size + Overhead) :
          \/ /\ Granted(Overhead, u)
             /\ Encode(Overhead, u)
             /\ control' = control - 1
             /\ UNCHANGED <<data, flushing>>
          \/ /\ ~ Granted(Overhead, u)
             /\ Return(u)
             /\ UNCHANGED exited
    BY <1>7 DEF FlushControl
  <2>2. /\ flushing /\ control > 0 /\ u \in Nat /\ u <= used
        /\ UNCHANGED <<tcp, conv>>
    BY <1>7, Draining DEF FlushControl
  <2>3. CASE /\ Granted(Overhead, u)
             /\ Encode(Overhead, u)
             /\ control' = control - 1
             /\ UNCHANGED <<data, flushing>>
    <3>1. /\ size' \in Nat /\ size' <= Mtu /\ used' \in Nat /\ used' <= Capacity
          /\ size' <= Free(used') /\ exited' = exited
      BY <2>2, <2>3, GrantedEncodes
    <3> QED BY <2>2, <2>3, <3>1
  <2>4. CASE Return(u) /\ UNCHANGED exited
    <3>1. used' \in Nat /\ used' <= used
      BY <2>2, <2>4 DEF Return, Drained
    <3>2. used' <= Capacity /\ 0 <= Capacity - used'
      BY <3>1, RoomGrows
    <3>3. control' \in Nat /\ data' \in Seq(Lens) /\ size' = 0
      BY <2>4 DEF Return
    <3>4. flushing' = FALSE /\ UNCHANGED <<tcp, conv, exited>>
      BY <2>2, <2>4 DEF Return
    <3>5. FlushTypeOK'
      BY <3>1, <3>2, <3>3, <3>4
    <3>6. BufferBounded' /\ Promised'
      BY <3>2, <3>3 DEF Free
    <3> QED BY <3>4, <3>5, <3>6
  <2> QED BY <2>1, <2>3, <2>4
<1>8. CASE FlushSegment
  <2> DEFINE need == Overhead + Head(data)
  <2>1. /\ flushing /\ data # <<>>
        /\ UNCHANGED <<tcp, conv, control, flushing>>
        /\ Head(data) \in Lens /\ Tail(data) \in Seq(Lens)
    BY <1>8 DEF FlushSegment
  <2>2. need \in Nat /\ need <= Mtu
    BY <2>1, Needs
  <2> HIDE DEF need
  <2>3. PICK u \in AfterAsking(size + need) :
          \/ /\ Granted(need, u)
             /\ Encode(need, u)
             /\ data' = Tail(data)
          \/ /\ ~ Granted(need, u)
             /\ used' = u
             /\ data' = <<>>
             /\ UNCHANGED <<size, exited>>
    BY <1>8 DEF FlushSegment, need
  <2>4. u \in Nat /\ u <= used
    BY <2>2, <2>3, Draining
  <2>5. CASE Granted(need, u) /\ Encode(need, u) /\ data' = Tail(data)
    <3>1. /\ size' \in Nat /\ size' <= Mtu /\ used' \in Nat /\ used' <= Capacity
          /\ size' <= Free(used') /\ exited' = exited
      BY <2>2, <2>4, <2>5, GrantedEncodes
    <3> QED BY <2>1, <2>5, <3>1
  <2>6. CASE used' = u /\ data' = <<>> /\ UNCHANGED <<size, exited>>
    BY <2>1, <2>4, <2>6 DEF Free
  <2> QED BY <2>3, <2>5, <2>6
<1>9. CASE FlushRemain
  <2>1. used' \in Nat /\ used' <= Capacity
    BY <1>9 DEF FlushRemain, Return, Drained, Free
  <2>2. FlushTypeOK'
    BY <1>9, <2>1 DEF FlushRemain, Return, Drained
  <2>3. BufferBounded' /\ Promised'
    BY <1>9, <2>1 DEF FlushRemain, Return, Drained, Free
  <2>4. flushing => exited' = exited
    BY <1>9 DEF FlushRemain, Return, Drained, Free
  <2> QED BY <2>2, <2>3, <2>4
<1>10. CASE UNCHANGED flushVars
  BY <1>10 DEF flushVars, Free
<1> QED
  BY <1>1, <1>2, <1>3, <1>4, <1>5, <1>6, <1>7, <1>8, <1>9, <1>10 DEF FlushNext

(***************************************************************************)
(* What is in kcp->buffer always fits m_un_send_queue.                     *)
(***************************************************************************)
THEOREM RoomKept == FlushSpec => []RoomInv
<1>1. RoomInv /\ [FlushNext]_flushVars => RoomInv'
  BY StepKeepsRoom
<1> QED BY <1>1, StartsEmpty, PTL DEF FlushSpec

(***************************************************************************)
(* Types, the bound on kcp->buffer and the room promised, each by name.    *)
(***************************************************************************)
THEOREM RoomTypes == FlushSpec => []FlushTypeOK
<1>1. RoomInv => FlushTypeOK
  BY DEF RoomInv
<1> QED BY <1>1, RoomKept, PTL

THEOREM BufferStaysBounded == FlushSpec => []BufferBounded
<1>1. RoomInv => BufferBounded
  BY DEF RoomInv
<1> QED BY <1>1, RoomKept, PTL

(***************************************************************************)
(* KcpOutput never drops a packet: no step of a flush makes it exit.       *)
(***************************************************************************)
THEOREM NothingDropped == FlushSpec => NeverDropped
<1>1. RoomInv /\ [FlushNext]_flushVars => [flushing => exited' = exited]_flushVars
  BY StepKeepsRoom
<1> QED BY <1>1, RoomKept, PTL DEF FlushSpec, NeverDropped
=============================================================================
