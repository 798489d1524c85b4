----------------------------- MODULE MCPartSync -----------------------------
(* Instances of PartSync for TLC.                                          *)
EXTENDS PartSync

CONSTANTS c1, c2, s1, s2

\* Task 1 has the shortest period; task 4 is alone on c2.
MCPeriod == [t \in Task |-> IF t = 1 THEN 1 ELSE IF t = 4 THEN 2 ELSE 3]
MCHome == [t \in Task |-> IF t = 4 THEN c2 ELSE c1]

\* One SRP semaphore in use, or two: then s2 has a lower ceiling than s1.
One == [s \in SrpSem |-> IF s = s1 THEN {1, 2} ELSE {}]
Two == [s \in SrpSem |-> IF s = s1 THEN {1, 2} ELSE {2, 3}]

\* Two users of the FMLP semaphore on c1, and budgets that run out in critical
\* sections.
Contended ==
  [preempt |-> FALSE, tasks |-> {1, 2, 4}, enforced |-> {1}, fmlp |-> {1, 2, 4},
   srp |-> One, suspending |-> {}, end |-> 1]

\* A preemptible kernel.
Preemptible ==
  [preempt |-> TRUE, tasks |-> {1, 2, 4}, enforced |-> {4}, fmlp |-> {2, 4},
   srp |-> One, suspending |-> {1}, end |-> 1]

\* Two SRP semaphores held at the same time.
Ceilings ==
  [preempt |-> TRUE, tasks |-> {1, 2, 3}, enforced |-> {}, fmlp |-> {},
   srp |-> Two, suspending |-> {1}, end |-> 2]

\* Claimants that no ceiling and no preemption disturbs, long enough for their
\* jobs to be tardy.
Apart ==
  [preempt |-> FALSE, tasks |-> {1, 2, 4}, enforced |-> {1},
   fmlp |-> {1, 2, 4}, srp |-> [s \in SrpSem |-> {}], suspending |-> {2},
   end |-> 3]

AllSetups == {Contended, Preemptible, Ceilings, Apart}

\* A preemptible kernel in which a budget runs out in an SRP critical section.
Overrun ==
  {[preempt |-> TRUE, tasks |-> {1, 2, 4}, enforced |-> {1}, fmlp |-> {2, 4},
    srp |-> One, suspending |-> {1}, end |-> 2]}
=============================================================================
