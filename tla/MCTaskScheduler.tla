--------------------------- MODULE MCTaskScheduler ---------------------------
(* Small instances of TaskScheduler for TLC. *)
EXTENDS TaskScheduler

CONSTANTS k1, k2, t1, t2, c1

TwoTimers == {1, 2}

\* One task that is started; two that are started and killed; one that is started later; and
\* one for two threads.
One == [threads |-> {t1}, tasks |-> {k1}, kinds |-> {Start}, delays |-> {FALSE}, pushes |-> 3]
Two == [One EXCEPT !.tasks = {k1, k2}, !.kinds = {Start, Kill}]
Later == [One EXCEPT !.delays = BOOLEAN]
Both == [One EXCEPT !.threads = {t1, t2}, !.pushes = 2]
MCSetups == {One, Two, Later, Both}
==============================================================================
