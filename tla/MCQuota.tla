------------------------------ MODULE MCQuota ------------------------------
(* Instances of Quota for TLC.                                             *)
EXTENDS Quota

CONSTANTS c1, v1, v2, w1
=============================================================================
