------------------------------- MODULE MCNPSF -------------------------------
(* Instances of NPSF for TLC.                                              *)
EXTENDS NPSF

CONSTANTS c1, c2

R(c, b) == [cpu |-> c, budget |-> b]
Add(i, bs) == [id |-> i, budgets |-> bs]

MCPeriod == [t \in Task |-> IF t = 1 THEN 2 ELSE 3]
MCHome == [t \in Task |-> IF t = 2 THEN c2 ELSE c1]
MCServer == [t \in Task |-> IF t = 3 THEN 1 ELSE 2]

\* Server 2 is on c1 in the second half of a slot and on c2 in the first half
\* of the next one.
Wrap ==
  <<Add(1, <<R(c1, 1)>>), Add(2, <<R(c1, 1), R(c2, 1)>>), Add(3, <<R(c2, 1)>>)>>

\* It is handed over from c1 to c2 in the middle of a slot.
Middle ==
  <<Add(0, <<R(c2, 2)>>), Add(1, <<R(c1, 1)>>),
    Add(2, <<R(c1, 1), R(c2, 1)>>), Add(4, <<R(c1, 1)>>)>>

\* Two servers are shared, and both are served between 1 and 2; task 3 is in the
\* one and task 2 in the other, which migrate in opposite directions.
Two ==
  <<Add(0, <<R(c2, 1)>>), Add(1, <<R(c1, 1), R(c2, 1)>>),
    Add(2, <<R(c1, 1), R(c2, 1)>>), Add(4, <<R(c1, 1)>>)>>

System(servers, slot, flag, latency, tasks, end) ==
  [servers |-> servers, slot |-> slot, flag |-> flag, latency |-> latency,
   tasks |-> tasks, end |-> end]

\* With several tasks until the timers are kicked off, and with one or none for
\* several slots after that.
MCSetups ==
  {System(Wrap, 2, TRUE, FALSE, {1, 2}, 4), System(Wrap, 2, FALSE, FALSE, {1, 3}, 3),
   System(Wrap, 2, TRUE, TRUE, {1}, 4), System(Two, 3, TRUE, TRUE, {1}, 3),
   System(Two, 3, TRUE, FALSE, {2, 3}, 4),
   System(Wrap, 2, TRUE, FALSE, {1}, 8), System(Middle, 3, TRUE, FALSE, {1}, 12),
   System(Two, 3, TRUE, FALSE, {}, 15)}

\* Two tasks that migrate in opposite directions.
Crossing == {System(Two, 3, TRUE, FALSE, {2, 3}, 4)}

\* A hand-over in the middle of a slot, without latency.
MidSlot == {System(Middle, 3, TRUE, FALSE, {1}, 11)}
=============================================================================
