----------------------------- MODULE ByteStream -----------------------------
(***************************************************************************)
(* What a pair of kcp control blocks promises to the two applications: one *)
(* stream of bytes in each direction.  The byte at position i is the i-th  *)
(* that was written, so a read that moves a reader from position r to      *)
(* position r + n hands out exactly the bytes r .. r + n - 1.              *)
(***************************************************************************)
EXTENDS Naturals

CONSTANTS Client, Server, MaxBytes

VARIABLES written, read  \* bytes written by p, bytes read by p
vars == <<written, read>>

Peers == {Client, Server}
Peer(p) == IF p = Client THEN Server ELSE Client

Init ==
  /\ written = [p \in Peers |-> 0]
  /\ read = [p \in Peers |-> 0]

Write(p) ==
  /\ \E w \in (written[p] + 1)..MaxBytes : written' = [written EXCEPT ![p] = w]
  /\ UNCHANGED read

Read(p) ==
  /\ \E r \in (read[p] + 1)..written[Peer(p)] : read' = [read EXCEPT ![p] = r]
  /\ UNCHANGED written

Next == \E p \in Peers : Write(p) \/ Read(p)

\* What was written is read, in some number of steps.
Spec == Init /\ [][Next]_vars
FairSpec == Spec /\ \A p \in Peers : WF_vars(Read(p))
=============================================================================
