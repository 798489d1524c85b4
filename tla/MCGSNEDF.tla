------------------------------ MODULE MCGSNEDF ------------------------------
(* Instances of GSNEDF for TLC.                                            *)
EXTENDS GSNEDF, TLC

CONSTANTS c1, c2

\* The processors are interchangeable.
Symmetry == Permutations(CPU)

\* Task 1 has a shorter period than the others, so that its jobs preempt
\* theirs whenever they are released.
ShortAndLong == [t \in Task |-> IF t = 1 THEN 1 ELSE 3]
=============================================================================
