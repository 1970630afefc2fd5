----------------------------- MODULE MCAdmission -----------------------------
(* Instances of Admission for TLC.                                         *)
EXTENDS Admission

CONSTANTS w1, w2, r1, r2

\* r2 belongs to the second worker, when there is one.
OwnerOf == [r \in Requests |-> IF r = r2 /\ w2 \in Workers THEN w2 ELSE w1]
=============================================================================
