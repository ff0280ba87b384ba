---------------------------- MODULE MCConnection ----------------------------
(* Connection for TLC. *)
EXTENDS Connection

CONSTANTS a, b

TwoAddr == {a, b}
TwoNum == {1, 2}

Both == [udp |-> TRUE, tcp |-> TRUE]

\* Everything may happen; the application never closes; and only one transport gets through.
Anything == [addr |-> {a, b}, num |-> {1, 2}, uses |-> [udp : BOOLEAN, tcp : BOOLEAN],
             reach |-> {"tcp", "udp"}, closing |-> TRUE, patient |-> FALSE]
Hasty == [Anything EXCEPT !.addr = {a}, !.num = {1}, !.closing = FALSE,
                          !.uses = {[udp |-> FALSE, tcp |-> TRUE]}]
Through(link) == [addr |-> {a}, num |-> {1}, uses |-> {Both},
                  reach |-> {link}, closing |-> TRUE, patient |-> TRUE]
MCSetups == {Anything, Hasty, Through("tcp"), Through("udp")}
=============================================================================
