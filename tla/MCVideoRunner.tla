--------------------------- MODULE MCVideoRunner ---------------------------
(* Instances of VideoRunner for TLC.                                       *)
EXTENDS VideoRunner

CONSTANTS g1, g2
=============================================================================
