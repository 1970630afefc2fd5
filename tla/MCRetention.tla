----------------------------- MODULE MCRetention -----------------------------
(* Instances of Retention for TLC.                                         *)
EXTENDS Retention

CONSTANTS w1, w2, q1, q2, c1, p1
=============================================================================
