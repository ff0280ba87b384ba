----------------------------- MODULE RingBuffer -----------------------------
(***************************************************************************)
(* AurCodeRoundRobinQueue of src/client_network_kcp/common_algorithm.h:    *)
(* the four queues of ConnectionManager.  An array of one byte more than   *)
(* it may hold and two positions that wrap at its end; every copy is one   *)
(* memcpy, or two when it runs over the end.                               *)
(*                                                                         *)
(* A call that returns -1 or 0 changes nothing and is left out.  The       *)
(* length of a code is what CCodeEngine::decode_int32 makes of its first   *)
(* HeaderLen bytes, here any function of them.                             *)
(*                                                                         *)
(* A definition marked Slip is a plausible mistake in the one after it,    *)
(* kept to show which of the properties would notice.                      *)
(***************************************************************************)
EXTENDS Integers, Sequences

CONSTANTS
  Byte,        \* the values of a char
  Total,       \* iTotalBufferSize
  HeaderLen,   \* the bytes of a code that hold its length (4)
  CodeLength,  \* decode_int32
  Inputs       \* the byte strings the callers write

ASSUME RingAssumption ==
  /\ Total \in Nat \ {0}
  /\ HeaderLen \in Nat \ {0}
  /\ CodeLength \in [[1..HeaderLen -> Byte] -> Nat]
  /\ Inputs \subseteq Seq(Byte)

VARIABLES
  m_szDataBuffer,
  m_iReadPosFlag,
  m_iWritePosFlag,
  moved            \* history: the bytes the last call took from its caller, or gave it

vars == <<m_szDataBuffer, m_iReadPosFlag, m_iWritePosFlag, moved>>

m_iDataBufferLen == Total + 1

\* new char[] leaves the bytes as they are.
Init ==
  /\ m_szDataBuffer \in [0..(m_iDataBufferLen - 1) -> Byte]
  /\ m_iReadPosFlag = 0
  /\ m_iWritePosFlag = 0
  /\ moved = <<>>

GetUsedBufferSize ==
  (m_iWritePosFlag - m_iReadPosFlag + m_iDataBufferLen) % m_iDataBufferLen

\* Slip: no byte is kept free to tell full from empty.
FreeSizeUnreserved == m_iDataBufferLen - GetUsedBufferSize

GetFreeBufferSize ==
  (m_iReadPosFlag - m_iWritePosFlag + m_iDataBufferLen - 1) % m_iDataBufferLen

\* The position n bytes after pos.
Step(pos, n) == (pos + n) % m_iDataBufferLen

\* The first n bytes from the read position on.
FirstBytes(n) ==
  LET toEnd == m_iDataBufferLen - m_iReadPosFlag IN
  [i \in 1..n |-> IF i <= toEnd THEN m_szDataBuffer[m_iReadPosFlag + i - 1]
                                ELSE m_szDataBuffer[i - toEnd - 1]]

\* The array after s was written from the write position on.
Written(s) ==
  LET toEnd == m_iDataBufferLen - m_iWritePosFlag IN
  [i \in 0..(m_iDataBufferLen - 1) |->
     IF i >= m_iWritePosFlag /\ i - m_iWritePosFlag < Len(s)
     THEN s[i - m_iWritePosFlag + 1]
     ELSE IF i < Len(s) - toEnd THEN s[toEnd + i + 1] ELSE m_szDataBuffer[i]]

Write(s) ==
  /\ m_szDataBuffer' = Written(s)
  /\ m_iWritePosFlag' = Step(m_iWritePosFlag, Len(s))
  /\ moved' = s
  /\ UNCHANGED m_iReadPosFlag

WriteDataToBuffer(s) ==
  /\ 0 < Len(s) /\ Len(s) <= GetFreeBufferSize
  /\ Write(s)

WriteOneCode(s) ==
  /\ HeaderLen < Len(s) /\ Len(s) <= GetFreeBufferSize
  /\ CodeLength[SubSeq(s, 1, HeaderLen)] = Len(s)
  /\ Write(s)

CopyDataFromBuffer(len) ==
  /\ moved' = FirstBytes(IF len < GetUsedBufferSize THEN len ELSE GetUsedBufferSize)
  /\ UNCHANGED <<m_szDataBuffer, m_iReadPosFlag, m_iWritePosFlag>>

RemoveDataFromBuffer(n) ==
  /\ n <= GetUsedBufferSize
  /\ m_iReadPosFlag' = Step(m_iReadPosFlag, n)
  /\ UNCHANGED <<m_szDataBuffer, m_iWritePosFlag, moved>>

GetOneCode ==
  /\ HeaderLen <= GetUsedBufferSize
  /\ LET n == CodeLength[FirstBytes(HeaderLen)] IN
       /\ 0 < n /\ n <= GetUsedBufferSize
       /\ moved' = FirstBytes(n)
       /\ m_iReadPosFlag' = Step(m_iReadPosFlag, n)
  /\ UNCHANGED <<m_szDataBuffer, m_iWritePosFlag>>

Next ==
  \/ \E s \in Inputs : WriteDataToBuffer(s) \/ WriteOneCode(s)
  \/ \E n \in 0..Total : CopyDataFromBuffer(n) \/ RemoveDataFromBuffer(n)
  \/ GetOneCode

Spec == Init /\ [][Next]_vars

-----------------------------------------------------------------------------
(* Properties *)

\* Both positions stay inside the array, which holds bytes only.
TypeOK ==
  /\ m_szDataBuffer \in [0..(m_iDataBufferLen - 1) -> Byte]
  /\ m_iReadPosFlag \in 0..(m_iDataBufferLen - 1)
  /\ m_iWritePosFlag \in 0..(m_iDataBufferLen - 1)
  /\ moved \in Seq(Byte)

(***************************************************************************)
(* The two positions and the array are a first-in-first-out queue of at    *)
(* most iTotalBufferSize bytes: no write that was accepted overwrites a    *)
(* byte not yet removed, every read gives the oldest bytes in their order, *)
(* and a code comes out whole, wherever the end of the array falls in it.  *)
(***************************************************************************)
Contents ==
  [i \in 1..GetUsedBufferSize |->
     m_szDataBuffer[(m_iReadPosFlag + i - 1) % m_iDataBufferLen]]

Queue == INSTANCE ByteQueue WITH Capacity <- Total, q <- Contents
ImplementsQueue == Queue!Spec
=============================================================================
