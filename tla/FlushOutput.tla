----------------------------- MODULE FlushOutput -----------------------------
(***************************************************************************)
(* How a flush of src/client_network_kcp/ikcp.c gets its segments out when *)
(* ConnectionManager sends over TCP.  Before it encodes a segment, the     *)
(* flush asks canoutput for room; it outputs kcp->buffer only when the mtu *)
(* is reached or all is encoded.  Between asking and sending stands        *)
(* m_un_send_queue, which the socket empties as it likes.  KcpOutput has   *)
(* no way to refuse: a packet that does not fit is dropped, and the status *)
(* becomes KCP_CONNECT_EXIT_STATUS.                                        *)
(*                                                                         *)
(* Segments and queues are counted in bytes; Kcp says which segments a     *)
(* flush wants to send, and what a flush cut short does to them.           *)
(*                                                                         *)
(* A definition marked Slip is a plausible mistake in the one after it,    *)
(* kept to show which of the properties would notice.                      *)
(***************************************************************************)
EXTENDS Integers, Sequences

CONSTANTS
  Mtu,        \* kcp->mtu
  Overhead,   \* IKCP_OVERHEAD, what a segment without payload takes
  Lens,       \* the lengths of payloads
  Capacity,   \* max_client_pkg_size, what m_un_send_queue holds
  KeyLength,  \* KCP_KEY_LENGTH, queued when a connection is made
  AskLength,  \* the bytes that ask the server for a conv
  MaxControl, \* bound: acknowledgements and probes of one flush
  MaxData     \* bound: segments with a payload of one flush

ASSUME OutputAssumption ==
  /\ Mtu \in Nat
  /\ Overhead \in Nat
  /\ Lens \subseteq Nat
  /\ Overhead <= Mtu
  /\ \A n \in Lens : Overhead + n <= Mtu
  /\ Capacity \in Nat
  /\ KeyLength \in 0..Capacity
  /\ AskLength \in Nat
  /\ MaxControl \in Nat
  /\ MaxData \in Nat

VARIABLES
  tcp,      \* GetTransportUseProtocol() = TRANSPORT_USE_TCP_PROTOCOL
  conv,     \* the server has given a conv
  exited,   \* m_kcp_status = KCP_CONNECT_EXIT_STATUS
  flushing, \* ikcp_flush is running
  control,  \* acknowledgements and probes the flush has yet to encode
  data,     \* payload lengths the flush has yet to encode
  size,     \* the bytes in kcp->buffer
  used      \* the bytes in m_un_send_queue

flushVars == <<tcp, conv, exited, flushing, control, data, size, used>>

\* What a flush works on.
work == <<control, data, size>>

\* A control block and a manager that are not connected.
FlushInit ==
  /\ tcp = FALSE
  /\ conv = FALSE
  /\ exited = FALSE
  /\ flushing = FALSE
  /\ control = 0
  /\ data = <<>>
  /\ size = 0
  /\ used = 0

Free(u) == Capacity - u

\* SendData(): the socket takes what it will, what is left stays queued.
Drained(u) == 0..u

\* What m_un_send_queue may hold after CanSendData(len).
AfterAsking(len) == IF len > Free(used) THEN Drained(used) ELSE {used}

\* Slip: what is in kcp->buffer already is forgotten.
GrantedAlone(need, u) == need < Free(u)

\* The answer of KcpCanOutput, u bytes being queued then.
Granted(need, u) == size + need < Free(u)

\* KcpOutput(kcp->buffer, n), u bytes being queued.
KcpOutput(n, u) ==
  \/ /\ n > Free(u)
     /\ exited' = TRUE
     /\ used' = u
  \/ /\ n <= Free(u)
     /\ used' \in Drained(u + n)
     /\ UNCHANGED exited

\* Slip: the buffer is output when it has run over.
EncodeLate(need, u) ==
  \/ /\ size > Mtu
     /\ KcpOutput(size, u)
     /\ size' = need
  \/ /\ size <= Mtu
     /\ size' = size + need
     /\ used' = u
     /\ UNCHANGED exited

\* A segment of need bytes enters kcp->buffer, which is output first if full.
Encode(need, u) ==
  \/ /\ size + need > Mtu
     /\ KcpOutput(size, u)
     /\ size' = need
  \/ /\ size + need <= Mtu
     /\ size' = size + need
     /\ used' = u
     /\ UNCHANGED exited

\* ikcp_flush returns; the SendData() that ends Update finds u bytes queued.
Return(u) ==
  /\ used' \in Drained(u)
  /\ flushing' = FALSE
  /\ control' = 0
  /\ data' = <<>>
  /\ size' = 0

-----------------------------------------------------------------------------
(* Connecting.  Everything runs on one thread: no call interrupts a flush. *)

\* ChangeAddress makes a new control block.
NewKcp ==
  /\ ~ flushing
  /\ tcp' = FALSE
  /\ conv' = FALSE
  /\ exited' = FALSE
  /\ used' = 0
  /\ UNCHANGED <<flushing, work>>

\* Slip: what the last connection left is not cleared.
ConnectUncleared ==
  /\ ~ flushing
  /\ tcp' = TRUE
  /\ used' = used + KeyLength
  /\ UNCHANGED <<conv, exited, flushing, work>>

\* ConnectLogicServer and ReconnectTcpLogicServer: the key opens the stream.
Connect ==
  /\ ~ flushing
  /\ tcp' = TRUE
  /\ used' = KeyLength
  /\ UNCHANGED <<conv, exited, flushing, work>>

CloseLogicConnect ==
  /\ ~ flushing /\ tcp
  /\ tcp' = FALSE
  /\ exited' = FALSE
  /\ used' = 0
  /\ UNCHANGED <<conv, flushing, work>>

\* WriteDataToBuffer refuses what does not fit, and nobody looks.
GetConvFromServer ==
  /\ ~ flushing /\ ~ conv
  /\ used \in {0, KeyLength}
  /\ AskLength <= Free(used)
  /\ used' = used + AskLength
  /\ UNCHANGED <<tcp, conv, exited, flushing, work>>

(***************************************************************************)
(* Update.  ReceiveData may find the conv, or be told to exit, and only    *)
(* the next call looks at the status.                                      *)
(***************************************************************************)
ReceiveData ==
  /\ tcp /\ ~ exited /\ ~ flushing
  /\ exited' \in BOOLEAN

\* No conv yet, or no flush due.
UpdateOnly ==
  /\ ReceiveData
  /\ conv' \in {conv, TRUE}
  /\ used' \in Drained(used)
  /\ UNCHANGED <<tcp, flushing, work>>

\* ikcp_update calls ikcp_flush with so much to encode.
StartFlush ==
  /\ ReceiveData
  /\ conv
  /\ flushing' = TRUE
  /\ control' \in 0..MaxControl
  /\ data' \in UNION {[1..n -> Lens] : n \in 0..MaxData}
  /\ UNCHANGED <<tcp, conv, size, used>>

\* One acknowledgement or probe; refused, the flush returns at once.
FlushControl ==
  /\ flushing /\ control > 0
  /\ \E u \in AfterAsking(size + Overhead) :
       \/ /\ Granted(Overhead, u)
          /\ Encode(Overhead, u)
          /\ control' = control - 1
          /\ UNCHANGED <<data, flushing>>
       \/ /\ ~ Granted(Overhead, u)
          /\ Return(u)
          /\ UNCHANGED exited
  /\ UNCHANGED <<tcp, conv>>

\* One segment of snd_buf; refused, the loop ends and the rest is output.
FlushSegment ==
  /\ flushing /\ control = 0 /\ data # <<>>
  /\ LET need == Overhead + Head(data) IN
     \E u \in AfterAsking(size + need) :
       \/ /\ Granted(need, u)
          /\ Encode(need, u)
          /\ data' = Tail(data)
       \/ /\ ~ Granted(need, u)
          /\ used' = u
          /\ data' = <<>>
          /\ UNCHANGED <<size, exited>>
  /\ UNCHANGED <<tcp, conv, control, flushing>>

FlushRemain ==
  /\ flushing /\ control = 0 /\ data = <<>>
  /\ IF size > Free(used)
       THEN exited' = TRUE /\ Return(used)
       ELSE Return(used + size) /\ UNCHANGED exited
  /\ UNCHANGED <<tcp, conv>>

FlushNext ==
  \/ NewKcp
  \/ Connect
  \/ CloseLogicConnect
  \/ GetConvFromServer
  \/ UpdateOnly
  \/ StartFlush
  \/ FlushControl
  \/ FlushSegment
  \/ FlushRemain

FlushSpec == FlushInit /\ [][FlushNext]_flushVars

-----------------------------------------------------------------------------
(* Properties *)

FlushTypeOK ==
  /\ tcp \in BOOLEAN /\ conv \in BOOLEAN
  /\ exited \in BOOLEAN /\ flushing \in BOOLEAN
  /\ control \in Nat
  /\ data \in Seq(Lens)
  /\ size \in Nat
  /\ used \in Nat /\ used <= Capacity

(***************************************************************************)
(* The room canoutput grants before a segment is encoded is still there    *)
(* when the buffer is output, although segments are granted one by one,    *)
(* output together, and queued behind one another: KcpOutput never meets a *)
(* queue too small, so no flush ever makes the status EXIT.                *)
(***************************************************************************)
NeverDropped == [][flushing => exited' = exited]_flushVars

(***************************************************************************)
(* kcp->buffer, (mtu + IKCP_OVERHEAD) * 3 bytes long, never holds more     *)
(* than one mtu, so what a datagram or the receiver's KCP_MTU_LEN allows   *)
(* is never exceeded.                                                      *)
(***************************************************************************)
BufferBounded == size <= Mtu

(***************************************************************************)
(* The room promised: what is in kcp->buffer fits the queue that           *)
(* waits for it, and the buffer is empty between flushes.                  *)
(***************************************************************************)
Promised ==
  /\ size <= Free(used)
  /\ ~ flushing => size = 0

(***************************************************************************)
(* Well typed, bounded and with the room promised: this is inductive.      *)
(***************************************************************************)
RoomInv == FlushTypeOK /\ BufferBounded /\ Promised
=============================================================================
