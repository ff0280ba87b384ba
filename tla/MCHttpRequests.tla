--------------------------- MODULE MCHttpRequests ---------------------------
(* HttpRequests with two callers and two requests. *)
EXTENDS HttpRequests

CONSTANTS c1, c2, r1, r2

MCCallers == {c1, c2}
MCRequests == {r1, r2}

\* Callers that may wait for the requests they stop, and callers that never do.
Waiting == [waits |-> BOOLEAN, cleans |-> BOOLEAN, stops |-> 2]
NeverWaiting == [waits |-> {FALSE}, cleans |-> BOOLEAN, stops |-> 1]
MCSetups == {Waiting, NeverWaiting}
=============================================================================
