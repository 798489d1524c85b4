---------------------------- MODULE ReleaseQueue ----------------------------
(***************************************************************************)
(* What an rt_domain promises to the plugins: a job handed to              *)
(* add_release() waits in its domain until its release time has come and   *)
(* is then, once, moved to the ready queue of that domain.  Jobs of equal  *)
(* release time may be moved together.                                     *)
(***************************************************************************)
EXTENDS Naturals

CONSTANTS Task, Domain

VARIABLES now, release, waiting, ready, held

vars == <<now, release, waiting, ready, held>>

Init ==
  /\ now = 0
  /\ release = [t \in Task |-> 0]
  /\ waiting = [d \in Domain |-> {}]
  /\ ready = [d \in Domain |-> {}]
  /\ held = {}

\* The plugin gives up a task it holds until the future time r.
Wait(t, d, r) ==
  /\ t \in held /\ r > now
  /\ held' = held \ {t}
  /\ release' = [release EXCEPT ![t] = r]
  /\ waiting' = [waiting EXCEPT ![d] = @ \cup {t}]
  /\ UNCHANGED <<now, ready>>

Release(d, S) ==
  /\ S \subseteq waiting[d]
  /\ \A t \in S : release[t] <= now
  /\ waiting' = [waiting EXCEPT ![d] = @ \ S]
  /\ ready' = [ready EXCEPT ![d] = @ \cup S]
  /\ UNCHANGED <<now, release, held>>

Take(t, d) ==
  /\ t \in ready[d]
  /\ ready' = [ready EXCEPT ![d] = @ \ {t}]
  /\ held' = held \cup {t}
  /\ UNCHANGED <<now, release, waiting>>

Put(t, d) ==
  /\ t \in held
  /\ ready' = [ready EXCEPT ![d] = @ \cup {t}]
  /\ held' = held \ {t}
  /\ UNCHANGED <<now, release, waiting>>

\* Tasks come and go only through the hands of the plugin.
Admit(t) ==
  /\ t \notin held
  /\ \A d \in Domain : t \notin waiting[d] \cup ready[d]
  /\ held' = held \cup {t}
  /\ UNCHANGED <<now, release, waiting, ready>>

Exit(t) ==
  /\ t \in held
  /\ held' = held \ {t}
  /\ UNCHANGED <<now, release, waiting, ready>>

Tick == now' = now + 1 /\ UNCHANGED <<release, waiting, ready, held>>

Next ==
  \/ \E t \in Task : Admit(t) \/ Exit(t)
  \/ \E t \in Task, d \in Domain :
       Take(t, d) \/ Put(t, d) \/ Wait(t, d, release'[t])
  \/ \E d \in Domain : \E S \in SUBSET waiting[d] : Release(d, S)
  \/ Tick

Spec == Init /\ [][Next]_vars
=============================================================================
