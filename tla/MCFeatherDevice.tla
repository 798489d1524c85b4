--------------------------- MODULE MCFeatherDevice --------------------------
(* Instances of FeatherDevice for TLC.                                     *)
EXTENDS FeatherDevice

CONSTANTS p1, p2, m1, m2, e1, e2

\* All processes open the same minor device, or one each.
SharedMinor == [p \in Proc |-> m1]
OwnMinor == [p \in Proc |-> IF p = p1 THEN m1 ELSE m2]
=============================================================================
