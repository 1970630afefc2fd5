-------------------------- MODULE MCBackendRegistry --------------------------
(* Instances of BackendRegistry for TLC: one worker that may restart.      *)
EXTENDS BackendRegistry

CONSTANT w1
=============================================================================
