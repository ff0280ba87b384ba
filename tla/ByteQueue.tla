----------------------------- MODULE ByteQueue -----------------------------
(***************************************************************************)
(* What AurCodeRoundRobinQueue promises: a first-in-first-out queue of at    *)
(* most Capacity bytes, read as bytes or as whole codes.  A code is a run  *)
(* of bytes whose first HeaderLen bytes tell the length of the run.        *)
(***************************************************************************)
EXTENDS Naturals, Sequences

CONSTANTS Byte, Capacity, HeaderLen, CodeLength

VARIABLES
  q,     \* the bytes queued
  moved  \* the bytes the last call took from its caller, or gave it
vars == <<q, moved>>

Init == q = <<>> /\ moved = <<>>

\* Bytes are added at the end, while they fit.
Put ==
  /\ moved' \in Seq(Byte)
  /\ Len(q) + Len(moved') <= Capacity
  /\ q' = q \o moved'

\* Reading does not remove.
Look(n) ==
  /\ moved' = SubSeq(q, 1, n)
  /\ UNCHANGED q

Drop(n) ==
  /\ q' = SubSeq(q, n + 1, Len(q))
  /\ UNCHANGED moved

\* One code, as soon as all of it is there.
TakeCode ==
  /\ HeaderLen <= Len(q)
  /\ LET n == CodeLength[SubSeq(q, 1, HeaderLen)] IN
       /\ 0 < n /\ n <= Len(q)
       /\ moved' = SubSeq(q, 1, n)
       /\ q' = SubSeq(q, n + 1, Len(q))

Next ==
  \/ Put
  \/ \E n \in 0..Len(q) : Look(n) \/ Drop(n)
  \/ TakeCode

Spec == Init /\ [][Next]_vars
=============================================================================
