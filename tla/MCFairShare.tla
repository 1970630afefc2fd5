---------------------------- MODULE MCFairShare ----------------------------
(* Small instance of FairShare: two users with two jobs each, one of      *)
(* them of double weight.                                                  *)
EXTENDS FairShare, TLC

CONSTANTS u1, u2, j1, j2, j3, j4

Owners == j1 :> u1 @@ j2 :> u1 @@ j3 :> u2 @@ j4 :> u2

Weights == u1 :> 1 @@ u2 :> 2
=============================================================================
