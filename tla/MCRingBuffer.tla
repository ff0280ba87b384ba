---------------------------- MODULE MCRingBuffer ----------------------------
(* The ring buffer of RingBuffer, instantiated for TLC. *)
EXTENDS RingBuffer

Bytes == {0, 1}

\* The lengths 0, 1, 3 and 4: none, shorter than the head, and two codes.
Decoded == [h \in [1..2 -> Bytes] |-> 3 * h[1] + h[2]]

Strings == UNION {[1..n -> Bytes] : n \in 0..5}
=============================================================================
