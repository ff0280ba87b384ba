--------------------------- MODULE MCManagerLogin ---------------------------
(* ManagerLogin with two request threads. *)
EXTENDS ManagerLogin

CONSTANTS r1, r2

TwoThreads == {r1, r2}

\* Everything may happen; lost connections only; and two logins that may cross.
Any == [early |-> TRUE, silent |-> TRUE, resets |-> BOOLEAN,
        login |-> 2, logout |-> 1, relogin |-> 1, loss |-> 1]
Losses == [early |-> FALSE, silent |-> FALSE, resets |-> {},
           login |-> 1, logout |-> 0, relogin |-> 1, loss |-> 2]
Twice == [Losses EXCEPT !.login = 2, !.relogin = 0, !.loss = 1]
MCScenarios == {Any, Losses, Twice}
=============================================================================
