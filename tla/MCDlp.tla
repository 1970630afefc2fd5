------------------------------- MODULE MCDlp -------------------------------
(* Small instance of Dlp: two requests with the same value, one process    *)
(* serves both, and a second process competes for the digest.              *)
EXTENDS Dlp, TLC

CONSTANT Busy

OneServer == [r \in Requests |-> Busy]

SameValue == [r \in Requests |-> "ssn"]
=============================================================================
