----------------------------- MODULE MCSemiPart -----------------------------
(* Instances of SemiPart for TLC.                                          *)
EXTENDS SemiPart

CONSTANTS c1, c2

\* Two slices of one time unit each, on c and then on d.
Split(c, d) ==
  << [cpu |-> c, budget |-> 1, offset |-> 0, deadline |-> 1],
     [cpu |-> d, budget |-> 1, offset |-> 1, deadline |-> 2] >>

\* Tasks 1 and 2 are split between the processors, in opposite directions.
Exchange ==
  [t \in Task |-> CASE t = 1 -> Split(c1, c2) [] t = 2 -> Split(c2, c1)
                    [] OTHER -> <<>>]

Costs == [t \in Task |-> IF t \in {1, 2} THEN 2 ELSE 1]
\* The regular task has one job before the horizon.
Periods == [t \in Task |-> IF t = 3 THEN 3 ELSE 2]
Homes == [t \in Task |-> IF t = 2 THEN c2 ELSE c1]
=============================================================================
