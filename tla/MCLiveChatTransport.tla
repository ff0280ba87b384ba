------------------------- MODULE MCLiveChatTransport -------------------------
(* Small instances of LiveChatTransport for TLC. *)
EXTENDS LiveChatTransport

\* Heartbeats and two addresses; and none, to be followed to the end.
Beating == [ips |-> 2, conns |-> 2, sends |-> 1, beats |-> 1]
Quiet == [ips |-> 1, conns |-> 2, sends |-> 1, beats |-> 0]
MCSetups == {Beating, Quiet}
==============================================================================
