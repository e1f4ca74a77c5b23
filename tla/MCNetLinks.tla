----------------------------- MODULE MCNetLinks -----------------------------
(* Instance of NetLinks for TLC. *)
EXTENDS NetLinks

CONSTANTS s1, s2, s3, w1

MCSockets == {s1, s2, s3}

Timed == [timeout |-> TRUE, again |-> FALSE, passive |-> FALSE]
MCOptions == {[Timed EXCEPT !.passive = TRUE], [Timed EXCEPT !.again = TRUE]}
=============================================================================
