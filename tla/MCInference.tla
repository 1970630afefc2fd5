----------------------------- MODULE MCInference -----------------------------
(* Instances of Inference for TLC.                                         *)
EXTENDS Inference, TLC

CONSTANTS j1, j2, j3, b1, b2

\* Every job can run on every backend.
SuitsAll == [j \in Jobs |-> Backends]

\* j1 can fail over, the others have one backend.
SuitsMixed == [j \in Jobs |-> IF j = j1 THEN Backends ELSE {b1}]

\* j2 and j3 differ in nothing.
LikeJobs == Permutations({j2, j3})
=============================================================================
