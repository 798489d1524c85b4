----------------------------- MODULE MCRtDomain -----------------------------
(* Instances of RtDomain for TLC.                                          *)
EXTENDS RtDomain, TLC

CONSTANTS t1, t2, c1, c2, d1, d2

\* Partitions: one domain per processor.
Partitioned == [d \in Domain |-> IF d = d1 THEN c1 ELSE c2]

\* The tasks are interchangeable, and so are the two partitions.
Symmetry ==
  Permutations(Task) \cup {(c1 :> c2 @@ c2 :> c1 @@ d1 :> d2 @@ d2 :> d1)}
=============================================================================
