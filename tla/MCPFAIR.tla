------------------------------ MODULE MCPFAIR -------------------------------
(* Instances of PFAIR for TLC.                                             *)
EXTENDS PFAIR

\* Task t has the weight w[t][1] / w[t][2]; all are released together.
Static(m, w, end) ==
  [cpus |-> m, end |-> end, started |-> DOMAIN w,
   quanta |-> [t \in Task |-> IF t \in DOMAIN w THEN w[t][1] ELSE 1],
   period |-> [t \in Task |-> IF t \in DOMAIN w THEN w[t][2] ELSE 1],
   tasks |-> {}, queued |-> {}, synched |-> {}, completing |-> {},
   blocking |-> {}, leaving |-> {}, lag |-> FALSE, exact |-> FALSE, admit |-> 0]

\* Processors that are fully loaded through a hyperperiod: without the first
\* tie-break of PD^2 deadlines would be missed on three of them, without the
\* second one on four.
Heavy  == Static(3, <<<<1, 2>>, <<1, 2>>, <<1, 2>>, <<3, 4>>, <<3, 4>>>>, 5)
Heavy4 == Static(4, <<<<3, 4>>, <<3, 4>>, <<3, 4>>, <<7, 8>>, <<7, 8>>>>, 9)

\* Two processors, three quarters loaded.
Light(end) == Static(2, <<<<1, 2>>, <<2, 3>>, <<1, 3>>>>, end)

Suspending == [Light(6) EXCEPT !.blocking = {1, 2}, !.completing = {1}]
Completing == [Light(6) EXCEPT !.leaving = {1}, !.completing = {2}]
Waking     == [Light(3) EXCEPT !.lag = TRUE, !.blocking = {1}, !.completing = {2}]
Leaving    == [Light(3) EXCEPT !.lag = TRUE, !.leaving = {1}, !.completing = {2}]
Rejoining  == [Light(2) EXCEPT !.lag = TRUE, !.leaving = {1}, !.tasks = {1},
                               !.admit = 2]
Dying      == [Light(3) EXCEPT !.lag = TRUE, !.leaving = {1}, !.blocking = {1}]
Joining    == [Light(3) EXCEPT !.started = {3}, !.tasks = {1, 2},
                               !.synched = {1}, !.queued = {2}]

MCSetups ==
  {Heavy, Suspending, Completing, Waking, Leaving, Rejoining, Dying, Joining}

\* The four processors, for an instance of their own.
FourProcessors == {Heavy4}

\* A task is woken while the next quantum is being prepared.
LostQuantum == {[Light(7) EXCEPT !.blocking = {1, 2}]}

\* A task that has blocked is killed.
Killed == {Dying}
=============================================================================
