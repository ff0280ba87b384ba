------------------------------- MODULE MCKcp -------------------------------
(* The control blocks of Kcp, instantiated for TLC. *)
EXTENDS Kcp

\* Who writes.
OneWay == {Client}

\* How many segments may be in flight to an endpoint when another is sent.
OneEach == [p \in Peers |-> 1]
TwoEach == [p \in Peers |-> 2]
=============================================================================
