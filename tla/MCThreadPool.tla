---------------------------- MODULE MCThreadPool ----------------------------
(* ThreadPool for TLC: who posts what. *)
EXTENDS ThreadPool

CONSTANTS t1, t2, t3

\* The owner posts two tasks, and one of them posts the third.
Posters == [t \in {t1, t2, t3} |-> IF t = t3 THEN t1 ELSE Owner]
=============================================================================
