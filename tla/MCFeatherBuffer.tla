--------------------------- MODULE MCFeatherBuffer --------------------------
(* Instances of FeatherBuffer for TLC.                                     *)
EXTENDS FeatherBuffer

CONSTANTS w1, w2
=============================================================================
