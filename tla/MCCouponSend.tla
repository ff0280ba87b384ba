---------------------------- MODULE MCCouponSend ----------------------------
(* CouponSend with one user and two messages. *)
EXTENDS CouponSend

CONSTANTS u1, m1, m2

OneUser == {u1}
TwoMessages == {m1, m2}
ToOne == [m \in Messages |-> u1]

\* Two texts and a lost connection; a check of the application's; a text and a photo; a
\* photo and a lost connection; a text, a logout or failed login; two texts that are followed
\* to the end; one with a lost connection; and early answers.
Texts == [early |-> FALSE, failures |-> TRUE, written |-> {m1, m2}, photos |-> {},
          drops |-> 1, externs |-> 0, outs |-> 0]
Asked == [Texts EXCEPT !.written = {m1}, !.externs = 1]
Photo == [Texts EXCEPT !.photos = {m2}, !.drops = 0]
Lost == [Texts EXCEPT !.written = {m2}, !.photos = {m2}]
Out == [Texts EXCEPT !.written = {m1}, !.outs = 1]
Quiet == [Texts EXCEPT !.failures = FALSE, !.drops = 0]
Shaky == [Quiet EXCEPT !.written = {m1}, !.drops = 1]
Early == [early |-> TRUE, failures |-> FALSE, written |-> {m1}, photos |-> {m1},
          drops |-> 0, externs |-> 1, outs |-> 0]
MCSetups == {Texts, Asked, Photo, Lost, Out, Quiet, Shaky, Early}
=============================================================================
