--------------------------- MODULE PartSync_proofs ---------------------------
(***************************************************************************)
(* Proofs about PSN-EDF with FMLP and SRP semaphores, for any number of    *)
(* tasks, processors and SRP semaphores, any assignment of tasks to        *)
(* processors, and any set-ups that SeparateUse admits.                    *)
(***************************************************************************)
EXTENDS PartSync, FiniteSetTheorems, SequenceTheorems, WellFoundedInduction, TLAPS

USE DEF psnVars, jobVars, queueVars, posVars, prioVars, sigVars, fmlpVars, srpVars

-----------------------------------------------------------------------------
(* The operators that the actions share                                    *)

Job == [release : Nat, deadline : Nat]

\* A non-empty set of numbers has a least element.
LEMMA Least ==
  ASSUME NEW S \in SUBSET Nat, S # {}
  PROVE  \E x \in S : \A y \in S : x <= y
<1>1. PICK x \in S : \A y \in S : ~(<<y, x>> \in OpToRel(<, Nat))
  BY NatLessThanWellFounded, WFMin
<1>2. ASSUME NEW y \in S PROVE x <= y
  <2>1. ~(y < x)
    BY <1>1 DEF OpToRel
  <2> QED BY <2>1
<1> QED BY <1>2

\* __take_ready() takes a task from a queue that is not empty: there is one
\* that no other precedes, with inherited priorities, too.
LEMMA TakeReady ==
  ASSUME NEW js \in [Task -> Job], NEW inh \in [Task -> Task \cup {NULL}],
         NEW Q \in SUBSET Task, Q # {},
         \A t \in Q : t \in rt /\ (inh[t] # NULL => inh[t] \in rt)
  PROVE  /\ take_ready(js, inh, Q) \in Q
         /\ \A u \in Q : ~edf_higher_prio(js, inh, u, take_ready(js, inh, Q))
<1> DEFINE eff(t) == IF inh[t] # NULL THEN inh[t] ELSE t
<1>1. /\ \A t \in Task : eff(t) \in Task /\ t # NULL
      /\ \A t \in Task : js[t].deadline \in Nat
      /\ Task \subseteq Nat
  BY ConstantsAssumption DEF Job
<1> DEFINE D == {js[eff(t)].deadline : t \in Q}
<1>2. PICK d \in D : \A e \in D : d <= e
  <2>1. \A t \in Q : js[eff(t)].deadline \in Nat
    BY <1>1
  <2>2. D \in SUBSET Nat
    BY <2>1
  <2>3. D # {}
    OBVIOUS
  <2> HIDE DEF D
  <2> QED BY <2>2, <2>3, Least
<1> DEFINE P == {eff(t) : t \in {u \in Q : js[eff(u)].deadline = d}}
<1>3. PICK p \in P : \A q \in P : p <= q
  <2>1. P \in SUBSET Nat /\ P # {}
    BY <1>1, <1>2
  <2> QED BY <2>1, Least
<1>4. PICK x \in Q : /\ eff(x) = p /\ js[p].deadline = d
                     /\ inh[x] = NULL =>
                          \A u \in Q : eff(u) = p => inh[u] = NULL
  BY <1>3
<1>5. ASSUME NEW u \in Q PROVE ~edf_higher_prio(js, inh, u, x)
  <2>1. d \in Nat /\ p \in Task /\ p \in Nat /\ p \in rt
    BY <1>1, <1>2, <1>4
  <2>2. d <= js[eff(u)].deadline /\ js[eff(u)].deadline \in Nat
    BY <1>1, <1>2, ZenonT(30)
  <2>3. js[eff(u)].deadline = d => p <= eff(u)
    BY <1>3
  <2>4. eff(u) = p /\ inh[x] = NULL => u = x
    BY <1>4
  <2>5. /\ (IF u # NULL /\ inh[u] # NULL THEN inh[u] ELSE u) = eff(u)
        /\ (IF x # NULL /\ inh[x] # NULL THEN inh[x] ELSE x) = p
    BY <1>1, <1>4
  <2>6. eff(u) \in Nat
    BY <1>1
  <2> HIDE DEF eff
  <2> QED BY <1>4, <2>1, <2>2, <2>3, <2>4, <2>5, <2>6 DEF edf_higher_prio
<1> QED BY <1>4, <1>5 DEF take_ready

\* A list without one of its elements.
LEMMA ListDel ==
  ASSUME NEW S, NEW l \in Seq(S), NEW x \in Range(l)
  PROVE  \E k \in 1 .. Len(l) :
           /\ l[k] = x
           /\ list_del(l, x) \in Seq(S) /\ Len(list_del(l, x)) = Len(l) - 1
           /\ \A i \in 1 .. (Len(l) - 1) :
                list_del(l, x)[i] = IF i < k THEN l[i] ELSE l[i + 1]
<1> DEFINE n == Len(l)
           k == CHOOSE i \in 1 .. n : l[i] = x
           m == list_del(l, x)
<1>1. n \in Nat /\ DOMAIN l = 1 .. n
  OBVIOUS
<1>2. \E i \in 1 .. n : l[i] = x
  BY <1>1 DEF Range
<1>3. k \in 1 .. n /\ l[k] = x
  BY <1>2
<1>4. m = [i \in 1 .. (n - 1) |-> IF i < k THEN l[i] ELSE l[i + 1]]
  BY DEF list_del
<1>5. \A i \in 1 .. (n - 1) : i \in 1 .. n /\ i + 1 \in 1 .. n
  BY <1>1
<1> HIDE DEF k, m
<1>6. m \in [1 .. (n - 1) -> S]
  BY <1>3, <1>4, <1>5
<1>7. n - 1 \in Nat
  BY <1>1, <1>3
<1>8. m \in Seq(S) /\ Len(m) = n - 1
  BY <1>6, <1>7
<1> QED BY <1>3, <1>4, <1>8 DEF m

\* Levels are a strict order.
LEMMA Levels ==
  ASSUME NEW a \in Task, NEW b \in Task, NEW x \in Task \cup {NULL}
  PROVE  /\ srp_higher_prio(a, b) /\ srp_higher_prio(b, x) => srp_higher_prio(a, x)
         /\ srp_higher_prio(a, x) /\ ~srp_higher_prio(b, x) => srp_higher_prio(a, b)
         /\ srp_higher_prio(a, b) => ~srp_higher_prio(b, a)
         /\ ~srp_higher_prio(a, b) /\ srp_higher_prio(a, x) => srp_higher_prio(b, x)
         /\ ~srp_higher_prio(a, a)
<1>1. Task \subseteq Nat /\ Period \in [Task -> Nat \ {0}] /\ NULL \notin Task
  BY ConstantsAssumption
<1> QED BY <1>1 DEF srp_higher_prio

-----------------------------------------------------------------------------
(* schedule()                                                              *)

\* Who inherits a priority inherits that of a real-time task.
LEMMA HeirsOfRealTime ==
  ASSUME IInv, NEW t \in Task, inh_task[t] # NULL
  PROVE  inh_task[t] \in rt
<1>1. inh_task[t] \in Task
  BY DEF IInv, TypeOK
<1>2. sec[inh_task[t]] = "fmlp" \/ pos[inh_task[t]] \in {"down", "got"}
  BY <1>1 DEF IInv, Inherited, Semaphore
<1> QED BY <1>1, <1>2 DEF IInv, Outside

\* The types of what schedule() and wake-ups assign.
QueuesTyped ==
  /\ flags \in [Task -> {"RUNNING", "SLEEP", "EXIT_SEM"}]
  /\ job \in [Task -> Job] /\ spent \subseteq setup.enforced
  /\ ready \in [CPU -> SUBSET Task] /\ relq \in [CPU -> SUBSET Task]
  /\ curr \in [CPU -> Task \cup {NULL}]
  /\ tif \subseteq Task \cup CPU /\ ipi \subseteq CPU

\* The entries of the queues and the types after a schedule() on c.
LEMMA Switch ==
  ASSUME IInv, setup' = setup, NEW c \in CPU, NEW act \in BOOLEAN,
         NEW fl \in [Task -> {"RUNNING", "SLEEP", "EXIT_SEM"}],
         NEW st \in SUBSET state,
         switch(c, act, fl, st)
  PROVE  /\ Placed' /\ QueuesTyped' /\ panic' = FALSE
         /\ \A d \in CPU : d # c => curr'[d] = curr[d]
         /\ on_rq' = IF curr[c] # NULL /\ curr[c] \notin st /\ ~act
                     THEN on_rq \ {curr[c]} ELSE on_rq
         /\ UNCHANGED <<now, rt, kernel_np, inh_task, ipi>> /\ state' = st
<1> DEFINE t           == scheduled[c]
           exists      == t # NULL
           blocks      == exists /\ ~is_running(t, st, act)
           np          == exists /\ is_np(t)
           out_of_time == exists /\ t \in spent
           sleep       == exists /\ fl[t] = "SLEEP"
           preempts    == edf_preemption_needed(job, inh_task, ready[c], curr[c])
           completes   == ~np /\ (out_of_time \/ sleep) /\ ~blocks
           resched     == preempts \/ blocks \/ completes
           js          == IF completes
                          THEN [job EXCEPT ![t] = prepare_for_next_period(t, @)]
                          ELSE job
           choose      == (~np \/ blocks) /\ (resched \/ ~exists)
           again       == choose /\ exists /\ ~blocks
           queue       == IF again /\ is_released(js[t]) THEN ready[c] \cup {t}
                          ELSE ready[c]
           next        == IF choose THEN take_ready(js, inh_task, queue) ELSE t
<1>1. /\ TypeOK /\ Placed /\ panic = FALSE
      /\ t = curr[c] /\ t \in Task \cup {NULL} /\ NULL \notin Task
      /\ c \notin Task
  BY ConstantsAssumption DEF IInv, Placed, TypeOK
<1>2. exists => /\ t \in rt /\ t \in on_rq /\ Home[t] = c
                /\ t \notin ready[c] /\ t \notin relq[c] /\ ~is_queued(t)
  BY <1>1 DEF Placed, is_queued
<1>3. /\ blocks <=> t # NULL /\ t \notin st /\ ~act
      /\ blocks => choose
      /\ ~choose => exists
  BY DEF is_running
<1>4. js \in [Task -> Job]
  <2>1. job \in [Task -> Job]
    BY <1>1 DEF TypeOK, Job
  <2>2. ASSUME NEW u \in Task PROVE prepare_for_next_period(u, job[u]) \in Job
    <3>1. job[u].deadline \in Nat /\ Period[u] \in Nat
      BY <2>1, ConstantsAssumption DEF Job
    <3> QED BY <3>1 DEF prepare_for_next_period, release_at, Job
  <2> QED BY <1>1, <2>1, <2>2
<1>5. /\ queue = ready[c] \/ (again /\ queue = ready[c] \cup {t})
      /\ queue \in SUBSET Task
  BY <1>1 DEF TypeOK
<1>6. \/ choose /\ (next \in queue \/ next = NULL)
      \/ ~choose /\ next = t
  <2>1. ASSUME choose, queue # {} PROVE next \in queue
    <3>1. \A u \in queue : u \in rt
      BY <1>1, <1>2, <1>5 DEF Placed
    <3>2. \A u \in queue : inh_task[u] # NULL => inh_task[u] \in rt
      BY <1>5, HeirsOfRealTime
    <3>3. inh_task \in [Task -> Task \cup {NULL}]
      BY <1>1 DEF TypeOK
    <3> HIDE DEF js, queue, choose
    <3>4. take_ready(js, inh_task, queue) \in queue
      BY <1>4, <1>5, <2>1, <3>1, <3>2, <3>3, TakeReady
    <3> QED BY <2>1, <3>4
  <2>2. ASSUME choose, queue = {} PROVE next = NULL
    BY <2>2 DEF take_ready
  <2> QED BY <2>1, <2>2
<1>7. /\ state' = st
      /\ on_rq' = IF exists /\ t \notin st /\ ~act THEN on_rq \ {t} ELSE on_rq
      /\ job' = js
      /\ spent' \subseteq spent
      /\ ready' = [ready EXCEPT ![c] = queue \ (IF choose THEN {next} ELSE {})]
      /\ relq' = IF again /\ ~is_released(js[t])
                 THEN [relq EXCEPT ![c] = @ \cup {t}] ELSE relq
      /\ flags' = [u \in Task |-> IF u = next \/ (u = t /\ again) THEN "RUNNING"
                                  ELSE fl[u]]
      /\ scheduled' = [scheduled EXCEPT ![c] = next]
      /\ curr' = [curr EXCEPT ![c] = next]
      /\ tif' \subseteq tif \cup ({t} \ {NULL})
      /\ UNCHANGED <<now, rt, kernel_np, inh_task, ipi>>
  <2>1. queue # ready[c] => t # NULL
    BY <1>5
  <2>2. next = IF choose THEN take_ready(js, inh_task, queue) ELSE t
    OBVIOUS
  <2> QED BY <2>1 DEF switch
<1>8. panic' = FALSE
  <2>1. panic' = (panic \/ \/ exists /\ (t # curr[c] \/ t \notin rt)
                           \/ blocks /\ is_queued(t))
    BY DEF switch, BugOn
  <2> QED BY <1>1, <1>2, <2>1
<1>9. queue = ready[c] \cup {t} => is_released(js[t]) \/ t \in ready[c]
  OBVIOUS
<1>10. again => t \in queue \/ ~is_released(js[t])
  OBVIOUS
<1>11. again => choose /\ exists /\ ~blocks
  OBVIOUS
<1>12. ~(queue # ready[c] /\ ~is_released(js[t]))
  OBVIOUS
<1>13. choose /\ ~blocks /\ exists => again
  OBVIOUS
<1> HIDE DEF js, queue, choose, again, next, blocks
<1>14. /\ ready \in [CPU -> SUBSET Task] /\ relq \in [CPU -> SUBSET Task]
       /\ curr \in [CPU -> Task \cup {NULL}] /\ scheduled = curr
       /\ tif \subseteq Task \cup CPU /\ ipi \subseteq CPU
       /\ spent \subseteq setup.enforced
  BY <1>1 DEF TypeOK, Placed
<1>15. next \in Task \cup {NULL}
  BY <1>1, <1>5, <1>6
<1>16. QueuesTyped'
  <2>1. ready' \in [CPU -> SUBSET Task] /\ relq' \in [CPU -> SUBSET Task]
    BY <1>1, <1>5, <1>7, <1>11, <1>14
  <2>2. curr' \in [CPU -> Task \cup {NULL}]
    BY <1>7, <1>14, <1>15
  <2>3. flags' \in [Task -> {"RUNNING", "SLEEP", "EXIT_SEM"}]
    BY <1>7
  <2>4. tif' \subseteq Task \cup CPU /\ ipi' \subseteq CPU
    BY <1>1, <1>7, <1>14
  <2> QED BY <1>4, <1>7, <1>14, <2>1, <2>2, <2>3, <2>4 DEF QueuesTyped
<1>17. /\ ready'[c] = queue \ (IF choose THEN {next} ELSE {})
       /\ relq'[c] = IF again /\ ~is_released(js[t]) THEN relq[c] \cup {t} ELSE relq[c]
       /\ curr'[c] = next
       /\ \A d \in CPU : d # c => /\ ready'[d] = ready[d] /\ relq'[d] = relq[d]
                                  /\ curr'[d] = curr[d]
  BY <1>7, <1>14
<1>18. on_rq' = IF blocks THEN on_rq \ {t} ELSE on_rq
  BY <1>3, <1>7
<1>19. Placed'
  <2>1. setup' \in Setups /\ scheduled' = curr'
    BY <1>1, <1>7 DEF Placed
  <2>2. state' \subseteq on_rq'
    BY <1>1, <1>7 DEF Placed
  <2>3. ASSUME NEW u \in Task, NEW d \in CPU
        PROVE  /\ u \in ready'[d] \/ u \in relq'[d] \/ curr'[d] = u =>
                    Home[u] = d /\ u \in rt' /\ u \in on_rq'
               /\ ~(u \in ready'[d] /\ u \in relq'[d])
               /\ curr'[d] = u => u \notin ready'[d] /\ u \notin relq'[d]
    <3>1. /\ u \in ready[d] \/ u \in relq[d] \/ curr[d] = u =>
               Home[u] = d /\ u \in rt /\ u \in on_rq
          /\ ~(u \in ready[d] /\ u \in relq[d])
          /\ curr[d] = u => u \notin ready[d] /\ u \notin relq[d]
      BY <1>1 DEF Placed
    <3>2. CASE d # c
      BY <1>1, <1>2, <1>7, <1>17, <1>18, <3>1, <3>2
    <3>3. CASE d = c
      <4>1. u # t => (u \in ready'[c] => u \in ready[c]) /\ (u \in relq'[c] <=> u \in relq[c])
        BY <1>5, <1>17
      <4>2. u = t /\ u \in ready'[c] => is_released(js[t])
        BY <1>2, <1>5, <1>12, <1>17, <1>1
      <4>3. u = t /\ u \in relq'[c] => ~is_released(js[t]) /\ again
        BY <1>2, <1>17, <1>1
      <4>4. u = t /\ u \in ready'[c] => again
        BY <1>2, <1>5, <1>17, <1>1
      <4>5. next = u /\ u # t => u \in ready[c] /\ choose
        BY <1>1, <1>5, <1>6
      <4>6. next = u /\ u = t => ~choose \/ (again /\ is_released(js[t]))
        BY <1>1, <1>2, <1>5, <1>6, <1>12
      <4>7. u # t => (u \in on_rq' <=> u \in on_rq)
        BY <1>18
      <4>8. again \/ ~choose => on_rq' = on_rq
        BY <1>3, <1>11, <1>18
      <4>9. next = u /\ choose => u \notin ready'[c]
        BY <1>17
      <4>10. CASE u # t
        BY <1>7, <1>17, <3>1, <3>3, <4>1, <4>5, <4>7, <4>9, <4>10
      <4>11. CASE u = t
        <5>1. Home[u] = c /\ u \in rt' /\ u \in on_rq /\ u # NULL
          BY <1>1, <1>2, <1>7, <4>11
        <5> QED BY <1>7, <1>11, <1>17, <3>3, <4>2, <4>3, <4>4, <4>6, <4>8, <4>9, <4>11, <5>1
      <4> QED BY <4>10, <4>11
    <3> QED BY <3>2, <3>3
  <2>4. ASSUME NEW u \in rt' \cap on_rq'
        PROVE  u \in ready'[Home[u]] \/ u \in relq'[Home[u]] \/ curr'[Home[u]] = u
    <3>1. /\ u \in rt /\ u \in on_rq /\ u \in Task /\ Home[u] \in CPU
          /\ u \in ready[Home[u]] \/ u \in relq[Home[u]] \/ curr[Home[u]] = u
      BY <1>1, <1>7, <1>18, ConstantsAssumption DEF Placed, TypeOK
    <3>2. CASE Home[u] # c
      BY <1>17, <3>1, <3>2
    <3>3. CASE Home[u] = c
      <4>1. CASE u # t
        BY <1>1, <1>5, <1>17, <3>1, <3>3, <4>1
      <4>2. CASE u = t
        <5>1. ~blocks /\ exists
          BY <1>1, <1>18, <3>1, <4>2
        <5>2. CASE choose
          <6>1. again
            BY <1>13, <5>1, <5>2
          <6> QED BY <1>10, <1>17, <3>3, <4>2, <6>1
        <5>3. CASE ~choose
          BY <1>6, <1>17, <3>3, <4>2, <5>3
        <5> QED BY <5>2, <5>3
      <4> QED BY <4>1, <4>2
    <3> QED BY <3>2, <3>3
  <2> QED BY <2>1, <2>2, <2>3, <2>4 DEF Placed
<1> QED BY <1>1, <1>7, <1>8, <1>16, <1>17, <1>19

-----------------------------------------------------------------------------
(* Wake-ups                                                                *)

\* preempt() marks a task or a processor, or sends an interrupt.
LEMMA Preempt ==
  ASSUME TypeOK, NEW need, NEW np, NEW c \in CPU, NEW e \in CPU,
         preempt(need, c, e, np)
  PROVE  tif' \subseteq Task \cup CPU /\ ipi' \subseteq CPU
<1>1. scheduled[c] \in Task \cup {NULL} /\ curr[c] \in Task \cup {NULL}
  BY DEF TypeOK
<1>2. Current(c) \in Task \cup CPU
  BY <1>1 DEF Current
<1>3. (IF scheduled[c] # NULL THEN scheduled[c] ELSE Current(c)) \in Task \cup CPU
  BY <1>1, <1>2
<1>4. /\ tif' = tif \/ tif' = tif \cup {IF scheduled[c] # NULL THEN scheduled[c] ELSE Current(c)}
      /\ ipi' = ipi \/ ipi' = ipi \cup {c}
  BY DEF preempt
<1>5. tif \subseteq Task \cup CPU /\ ipi \subseteq CPU
  BY DEF TypeOK
<1> QED BY <1>3, <1>4, <1>5

\* Tasks that are nowhere go to one of the queues of their processor.
LEMMA Requeue ==
  ASSUME TypeOK, Placed, setup' = setup,
         NEW c \in CPU, NEW e \in CPU, NEW ts \in SUBSET Task, NEW js, NEW force,
         \A t \in ts : Home[t] = c /\ t \in rt' /\ t \in on_rq' /\ ~(t \in rt /\ t \in on_rq),
         requeue(ts, c, e, js, force),
         scheduled' = scheduled, curr' = curr, rt \subseteq rt', on_rq \subseteq on_rq',
         \A t \in rt' \cap on_rq' : (t \in rt /\ t \in on_rq) \/ t \in ts,
         state' \subseteq on_rq'
  PROVE  /\ Placed'
         /\ ready' \in [CPU -> SUBSET Task] /\ relq' \in [CPU -> SUBSET Task]
         /\ tif' \subseteq Task \cup CPU /\ ipi' \subseteq CPU
<1> DEFINE R == {t \in ts : is_released(js[t])}
<1>1. /\ ready \in [CPU -> SUBSET Task] /\ relq \in [CPU -> SUBSET Task]
      /\ setup \in Setups /\ scheduled = curr
  BY DEF TypeOK, Placed
<1>2. R \subseteq ts /\ \A t \in ts : ~is_released(js[t]) <=> t \notin R
  OBVIOUS
<1>3. /\ ready' = [ready EXCEPT ![c] = ready[c] \cup R]
      /\ relq' = [relq EXCEPT ![c] = relq[c] \cup (ts \ R)]
  BY <1>1 DEF requeue
<1> HIDE DEF R
<1>4. tif' \subseteq Task \cup CPU /\ ipi' \subseteq CPU
  BY Preempt DEF requeue
<1>5. /\ ready'[c] = ready[c] \cup R /\ relq'[c] = relq[c] \cup (ts \ R)
      /\ \A d \in CPU : d # c => ready'[d] = ready[d] /\ relq'[d] = relq[d]
      /\ ready' \in [CPU -> SUBSET Task] /\ relq' \in [CPU -> SUBSET Task]
  BY <1>1, <1>2, <1>3
<1>6. ASSUME NEW u \in Task, NEW d \in CPU
      PROVE  /\ u \in ready'[d] \/ u \in relq'[d] \/ curr'[d] = u =>
                  Home[u] = d /\ u \in rt' /\ u \in on_rq'
             /\ ~(u \in ready'[d] /\ u \in relq'[d])
             /\ curr'[d] = u => u \notin ready'[d] /\ u \notin relq'[d]
  <2>1. /\ u \in ready[d] \/ u \in relq[d] \/ curr[d] = u =>
             Home[u] = d /\ u \in rt /\ u \in on_rq
        /\ ~(u \in ready[d] /\ u \in relq[d])
        /\ curr[d] = u => u \notin ready[d] /\ u \notin relq[d]
    BY DEF Placed
  <2> QED BY <1>2, <1>5, <2>1
<1>7. ASSUME NEW u \in rt' \cap on_rq'
      PROVE  u \in ready'[Home[u]] \/ u \in relq'[Home[u]] \/ curr'[Home[u]] = u
  <2>1. CASE u \in ts
    BY <1>5, <2>1
  <2>2. CASE u \in rt /\ u \in on_rq
    <3>1. u \in Task /\ Home[u] \in CPU
      BY <2>2, ConstantsAssumption DEF TypeOK
    <3>2. u \in ready[Home[u]] \/ u \in relq[Home[u]] \/ curr[Home[u]] = u
      BY <2>2 DEF Placed
    <3> QED BY <1>5, <3>1, <3>2
  <2> QED BY <2>1, <2>2
<1> QED BY <1>1, <1>4, <1>5, <1>6, <1>7 DEF Placed

\* try_to_wake_up() queues those tasks, and only those, that have been
\* deactivated.
LEMMA WakeUp ==
  ASSUME IInv, NEW c \in CPU, NEW e \in CPU, NEW ts \in SUBSET Task,
         NEW warn \in BOOLEAN,
         \A t \in ts : Home[t] = c,
         try_to_wake_up(ts, c, e, warn),
         UNCHANGED <<setup, rt, scheduled, curr>>
  PROVE  /\ Placed' /\ QueuesTyped' /\ panic' = warn
         /\ state' = state \cup ts /\ on_rq' = on_rq \cup ts
<1>1. TypeOK /\ Placed /\ panic = FALSE /\ scheduled[c] = curr[c]
  BY DEF IInv, Placed
<1> DEFINE ws  == ts \ on_rq
           new == {t \in ws : is_tardy(job[t]) /\ flags[t] # "EXIT_SEM"}
           js  == [t \in Task |-> IF t \in new THEN release_at(t, now) ELSE job[t]]
<1>2. state' = state \cup ts /\ on_rq' = on_rq \cup ts
  BY DEF try_to_wake_up
<1>3. \A t \in ws : t \in rt /\ Home[t] = c /\ t # scheduled[c] /\ ~is_queued(t)
  <2>1. \A t \in ws : t \in rt
    BY DEF IInv, Placed, Outside
  <2>2. \A t \in ws : Home[t] = c /\ t # scheduled[c]
    BY <1>1 DEF Placed
  <2>3. \A t \in ws : \A d \in CPU : t \notin ready[d] \cup relq[d]
    BY <1>1 DEF Placed
  <2> QED BY <2>1, <2>2, <2>3 DEF is_queued
<1>4. ws \ {scheduled[c]} = ws
  BY <1>3
<1>5. /\ job' = js /\ spent' = spent \ new
      /\ requeue(ws \ {scheduled[c]}, c, e, js, FALSE)
      /\ flags' = [t \in Task |-> IF t \in ws \ {scheduled[c]} THEN "RUNNING"
                                  ELSE flags[t]]
      /\ panic' = (panic \/ (warn \/ \E t \in ws : is_queued(t)))
  BY DEF try_to_wake_up, task_wake_up, BugOn
<1>6. panic' = warn
  BY <1>1, <1>3, <1>5
<1>7. /\ job' \in [Task -> Job] /\ spent' \subseteq setup.enforced
      /\ flags' \in [Task -> {"RUNNING", "SLEEP", "EXIT_SEM"}]
  <2>1. /\ job \in [Task -> Job] /\ now \in Nat /\ spent \subseteq setup.enforced
        /\ flags \in [Task -> {"RUNNING", "SLEEP", "EXIT_SEM"}]
    BY <1>1 DEF TypeOK, Job
  <2>2. \A t \in Task : release_at(t, now) \in Job
    BY <2>1, ConstantsAssumption DEF release_at, Job
  <2>3. js \in [Task -> Job]
    BY <2>1, <2>2
  <2> QED BY <1>5, <2>1, <2>3
<1> HIDE DEF js
<1>8. requeue(ws, c, e, js, FALSE)
  BY <1>4, <1>5
<1>9. /\ Placed'
      /\ ready' \in [CPU -> SUBSET Task] /\ relq' \in [CPU -> SUBSET Task]
      /\ tif' \subseteq Task \cup CPU /\ ipi' \subseteq CPU
  <2>1. /\ \A t \in ws : Home[t] = c /\ t \in rt' /\ t \in on_rq' /\ ~(t \in rt /\ t \in on_rq)
        /\ \A t \in rt' \cap on_rq' : (t \in rt /\ t \in on_rq) \/ t \in ws
        /\ ws \in SUBSET Task
    BY <1>2, <1>3
  <2>2. state' \subseteq on_rq' /\ rt \subseteq rt' /\ on_rq \subseteq on_rq'
    BY <1>1, <1>2 DEF Placed
  <2> HIDE DEF ws
  <2> QED BY <1>1, <1>8, <2>1, <2>2, Requeue
<1>10. curr' \in [CPU -> Task \cup {NULL}]
  BY <1>1 DEF TypeOK
<1> QED BY <1>2, <1>6, <1>7, <1>9, <1>10 DEF QueuesTyped

-----------------------------------------------------------------------------
(* What keeps the parts of the invariant                                   *)

\* The semaphore does not notice that tasks other than waiters wake up, or
\* that tasks are deactivated.
LEMMA SemaphoreKept ==
  ASSUME IInv, UNCHANGED <<wait, pos, count, kernel_np, waking>>,
         \A t \in Task : sec'[t] = sec[t] \/ (pos[t] = "user" /\ sec'[t] # "fmlp" /\ sec[t] # "fmlp"),
         \A t \in Task : pos[t] = "down" /\ t \in state' => t \in state,
         \A t \in Task : pos[t] = "got" /\ (t \in on_rq' \/ ceil'[t] # "no") =>
                           t \in on_rq \/ ceil[t] # "no"
  PROVE  Semaphore'
<1>1. Semaphore
  BY DEF IInv
<1>2. NpIsOwner' /\ Inside' = Inside /\ Waking' = Waking /\ \A t \in Task : is_np(t)' <=> is_np(t)
  BY <1>1 DEF Semaphore, NpIsOwner, is_np, Inside, Waking
<1> QED BY <1>1, <1>2 DEF Semaphore

\* Priorities are inherited through the semaphore only.
LEMMA InheritedKept ==
  ASSUME IInv, UNCHANGED <<holder, hp, kernel_np, inh_task, wait>>,
         \A t \in Task : sec'[t] = sec[t] \/ (sec'[t] # "fmlp" /\ sec[t] # "fmlp")
  PROVE  Inherited'
<1>1. Inherited /\ \A t \in Task : inh_task[t] \in Task \cup {NULL}
  BY DEF IInv, TypeOK
<1>2. Inside' = Inside /\ \A c \in CPU : Claims(c)' = Claims(c)
  BY DEF Inside, Claims
<1> QED BY <1>1, <1>2 DEF Inherited, is_np

\* The ceilings change with SRP semaphores only.
LEMMA StackedKept ==
  ASSUME IInv, UNCHANGED <<setup, opened, ceiling, owner, sec, srp>>
  PROVE  Stacked'
<1>1. Stacked
  BY DEF IInv
<1> QED BY <1>1 DEF Stacked, srp_higher_prio

\* Nobody new sleeps below a ceiling, and nobody new is back in its own code.
LEMMA BlockingKept ==
  ASSUME IInv,
         UNCHANGED <<ceiling_blocked, srp, owner, ceiling, opened>>,
         \A t \in Task : ceil'[t] = "no" <=> ceil[t] = "no",
         \A t \in Task : ceil[t] # "no" /\ t \in state => t \in state',
         \A c \in CPU, t \in Task : curr'[c] = t /\ Tested(t)' =>
           (curr[c] = t /\ Tested(t)) \/ \A s \in SrpSem : t \notin opened[s]
  PROVE  Blocking'
<1>1. Blocking /\ TypeOK
  BY DEF IInv
<1>2. /\ \A c \in CPU, t \in Task :
           t \in ceiling_blocked[c] <=> Home[t] = c /\ ceil[t] # "no"
      /\ \A c \in CPU : \A t \in ceiling_blocked[c] \ state :
           ~srp_exceeds_ceiling(t, srp[c], owner)
      /\ \A c \in CPU, t \in Task : curr[c] = t /\ Tested(t) =>
           \/ srp_exceeds_ceiling(t, srp[c], owner)
           \/ \A s \in SrpSem : t \notin opened[s]
      /\ \A c \in CPU : ceiling_blocked[c] \subseteq Task
  BY <1>1 DEF Blocking, TypeOK
<1>3. \A c \in CPU, t \in Task :
        srp_exceeds_ceiling(t, srp[c], owner)' <=> srp_exceeds_ceiling(t, srp[c], owner)
  BY DEF srp_exceeds_ceiling, srp_higher_prio
<1>4. \A c \in CPU, t \in Task :
           t \in ceiling_blocked'[c] <=> Home[t] = c /\ ceil'[t] # "no"
  BY <1>2
<1>5. \A c \in CPU : \A t \in ceiling_blocked'[c] \ state' :
           ~srp_exceeds_ceiling(t, srp[c], owner)'
  BY <1>2, <1>3
<1>6. \A c \in CPU, t \in Task : curr'[c] = t /\ Tested(t)' =>
           \/ srp_exceeds_ceiling(t, srp[c], owner)'
           \/ \A s \in SrpSem : t \notin opened'[s]
  BY <1>2, <1>3
<1> QED BY <1>4, <1>5, <1>6 DEF Blocking

\* The first waiter stays awake, or about to be woken.
LEMMA HandedOverKept ==
  ASSUME IInv, wait' = wait,
         \A t \in Task : sec'[t] = sec[t] \/ (sec'[t] # "fmlp" /\ sec[t] # "fmlp"),
         \A t \in Task : ceil[t] # "no" => ceil'[t] # "no",
         \A t \in Range(wait) : t \in state => t \in state',
         wait # <<>> /\ Waking' = {} => Head(wait) \in state' \/ Waking = {}
  PROVE  HandedOver'
<1>1. HandedOver /\ Inside' = Inside
  BY DEF IInv, Inside
<1>2. wait # <<>> => Head(wait) \in Task /\ Head(wait) \in Range(wait)
  <2>1. wait \in Seq(Task)
    BY DEF IInv, TypeOK
  <2> QED BY <2>1 DEF Range
<1> QED BY <1>1, <1>2 DEF HandedOver

\* The types of what the tasks' paths through the kernel assign.
PathsTyped ==
  /\ pos \in [Task -> {"user", "down", "got", "gone"}]
  /\ tail \subseteq Task
  /\ active \in [Task -> {"no", "nest", "hold"}]
  /\ ceil \in [Task -> {"no", "prep", "ret"}]

\* The types of the variables that a step leaves alone, except for some.
LEMMA TypeKept ==
  ASSUME IInv, Placed', QueuesTyped', PathsTyped', panic' = FALSE,
         now' \in Nat, rt' \subseteq Task, state' \subseteq Task, on_rq' \subseteq Task,
         UNCHANGED <<setup, kernel_np, inh_task, sec, count, holder, wait, hp,
                     ceiling, opened, owner, srp, ceiling_blocked>>,
         waking' \in [CPU -> Task \cup {NULL}]
  PROVE  TypeOK'
<1>1. TypeOK
  BY DEF IInv
<1>2. scheduled' \in [CPU -> Task \cup {NULL}]
  BY DEF Placed, QueuesTyped
<1> QED BY <1>1, <1>2 DEF TypeOK, QueuesTyped, PathsTyped, Job

-----------------------------------------------------------------------------
(* The callers of schedule()                                               *)

\* What the callers have in common: the task that was current has the ceiling
\* test ahead, and no other task gets past its own.
SwitchedOut(c, act, st) ==
  /\ PathsTyped'
  /\ \A u \in Task : curr[c] = u => ~Tested(u)'
  /\ \A u \in Task : curr[c] # u /\ Tested(u)' => Tested(u)
  /\ \A u \in Task : ceil'[u] = "no" <=> ceil[u] = "no"
  /\ \A u \in Task : active'[u] = "hold" => ceil'[u] # "no"
  /\ \A u \in Task : active'[u] # "no" => setup.preempt
  /\ \A u \in Task : pos'[u] = "down" => pos[u] = "down" /\ u \notin tail'
  /\ \A u \in Task : \/ pos'[u] = pos[u]
                     \/ u = curr[c] /\ ~act /\ pos[u] = "down" /\ pos'[u] = "got"
  /\ \/ st = state
     \/ /\ ~act /\ st = state \ {curr[c]}
        /\ pos[curr[c]] = "user" /\ ceil[curr[c]] = "no"

\* A schedule() keeps the invariant.
LEMMA SwitchStep ==
  ASSUME IInv, NEW c \in CPU, NEW act \in BOOLEAN,
         NEW fl \in [Task -> {"RUNNING", "SLEEP", "EXIT_SEM"}],
         NEW st \in SUBSET state,
         switch(c, act, fl, st), SwitchedOut(c, act, st),
         UNCHANGED <<setup, sec, fmlpVars, srpVars>>
  PROVE  IInv'
<1>1. /\ Placed' /\ QueuesTyped' /\ panic' = FALSE
      /\ \A d \in CPU : d # c => curr'[d] = curr[d]
      /\ on_rq' = IF curr[c] # NULL /\ curr[c] \notin st /\ ~act
                  THEN on_rq \ {curr[c]} ELSE on_rq
      /\ UNCHANGED <<now, rt, kernel_np, inh_task, ipi>> /\ state' = st
  BY Switch
<1>2. TypeOK /\ Placed /\ NULL \notin Task /\ curr[c] \in Task \cup {NULL}
  BY ConstantsAssumption DEF IInv, TypeOK
<1>3. TypeOK'
  <2>1. /\ now' \in Nat /\ rt' \subseteq Task /\ state' \subseteq Task
        /\ on_rq' \subseteq Task /\ waking' \in [CPU -> Task \cup {NULL}]
    BY <1>1, <1>2 DEF TypeOK
  <2> QED BY <1>1, <2>1, TypeKept DEF SwitchedOut
<1>4. Outside'
  <2>1. curr[c] # NULL => curr[c] \in rt
    BY <1>2 DEF Placed
  <2>2. \A u \in Task \ rt : u \in state' /\ u # curr[c]
    BY <1>1, <1>2, <2>1 DEF IInv, Outside, SwitchedOut
  <2> QED BY <1>1, <2>2 DEF IInv, Outside, SwitchedOut
<1>5. Returning'
  <2>1. Returning
    BY DEF IInv
  <2>2. ASSUME NEW u \in rt', curr'[Home[u]] # u PROVE ~Tested(u)'
    <3>1. u \in rt /\ u \in Task /\ Home[u] \in CPU
      BY <1>1, <1>2, ConstantsAssumption DEF TypeOK
    <3>2. CASE curr[c] = u
      BY <3>1, <3>2 DEF SwitchedOut
    <3>3. CASE curr[c] # u
      <4>1. curr[Home[u]] # u
        BY <1>1, <2>2, <3>1, <3>3
      <4> QED BY <2>1, <3>1, <3>3, <4>1 DEF Returning, SwitchedOut
    <3> QED BY <3>2, <3>3
  <2>3. \A u \in Task : pos'[u] = "down" =>
          u \in setup.fmlp /\ u \notin tail' /\ ceil'[u] = "no"
    BY <2>1 DEF Returning, SwitchedOut
  <2>4. ASSUME NEW u \in on_rq' PROVE u \in state' \/ ceil'[u] # "no" \/ pos'[u] = "down"
    <3>1. u \in on_rq /\ u \in Task
      BY <1>1, <1>2 DEF TypeOK
    <3>2. u = curr[c] /\ ~act => u \in state'
      BY <1>1, <1>2, <3>1
    <3> QED BY <1>1, <2>1, <3>1, <3>2 DEF Returning, SwitchedOut
  <2> QED BY <2>2, <2>3, <2>4 DEF Returning, SwitchedOut
<1>6. Semaphore'
  <2>1. Semaphore /\ Returning
    BY DEF IInv
  <2>2. NpIsOwner' /\ Inside' = Inside /\ Waking' = Waking /\ \A u \in Task : is_np(u)' <=> is_np(u)
    BY <1>1, <2>1 DEF Semaphore, NpIsOwner, is_np, Inside, Waking
  <2>3. \A u \in Task : u \in Range(wait') <=> pos'[u] \in {"down", "got"}
    BY <2>1 DEF Semaphore, SwitchedOut
  <2>4. \A u \in Task : pos'[u] # "user" => sec'[u] = "no"
    BY <2>1 DEF Semaphore, SwitchedOut
  <2>5. \A u \in Task : pos'[u] = "down" /\ u \in state' => is_np(u)
    BY <1>1, <2>1 DEF Semaphore, SwitchedOut
  <2>6. ASSUME NEW u \in Task, pos'[u] = "got", u \in on_rq' \/ ceil'[u] # "no"
        PROVE  is_np(u)
    <3>1. ceil'[u] # "no" => ceil[u] # "no"
      BY DEF SwitchedOut
    <3>2. CASE pos[u] = "got"
      BY <1>1, <2>1, <2>6, <3>1, <3>2 DEF Semaphore
    <3>3. CASE pos[u] # "got"
      <4>1. u = curr[c] /\ ~act /\ pos[u] = "down"
        BY <2>6, <3>3 DEF SwitchedOut
      <4>2. ceil[u] = "no"
        BY <2>1, <4>1 DEF Returning
      <4>3. u \in state
        BY <1>1, <1>2, <2>6, <3>1, <4>1, <4>2
      <4> QED BY <2>1, <4>1, <4>3 DEF Semaphore
    <3> QED BY <3>2, <3>3
  <2> QED BY <2>1, <2>2, <2>3, <2>4, <2>5, <2>6 DEF Semaphore
<1>7. Inherited' /\ Stacked'
  BY <1>1, InheritedKept, StackedKept
<1>8. Blocking' /\ HandedOver'
  <2>1. ASSUME NEW d \in CPU, NEW u \in Task, curr'[d] = u, Tested(u)'
        PROVE  curr[d] = u /\ Tested(u)
    <3>1. curr[c] # u /\ Tested(u)
      BY <2>1 DEF SwitchedOut
    <3>2. Home[u] = d /\ u \in rt
      BY <1>1, <2>1 DEF Placed
    <3> QED BY <3>1, <3>2 DEF IInv, Returning
  <2>2. \A u \in Task : ceil[u] # "no" /\ u \in state => u \in state'
    BY <1>1 DEF SwitchedOut
  <2>3. \A u \in Range(wait) : u \in state => u \in state'
    <3>1. \A u \in Range(wait) : u \in Task /\ pos[u] \in {"down", "got"}
      <4>1. wait \in Seq(Task)
        BY <1>2 DEF TypeOK
      <4>2. \A u \in Range(wait) : u \in Task
        BY <4>1 DEF Range
      <4> QED BY <4>2 DEF IInv, Semaphore
    <3> QED BY <1>1, <3>1 DEF SwitchedOut
  <2>4. /\ Waking' = Waking
        /\ \A u \in Task : ceil'[u] = "no" <=> ceil[u] = "no"
    BY DEF Waking, SwitchedOut
  <2> QED BY <2>1, <2>2, <2>3, <2>4, BlockingKept, HandedOverKept
<1> QED BY <1>1, <1>3, <1>4, <1>5, <1>6, <1>7, <1>8 DEF IInv

\* A task that goes on has PREEMPT_ACTIVE cleared only if it was about to block.
LEMMA Resume ==
  ASSUME NEW c \in CPU, NEW act \in [Task -> {"no", "nest", "hold"}], resume(c, act)
  PROVE  /\ active' \in [Task -> {"no", "nest", "hold"}]
         /\ \A u \in Task : active'[u] = act[u] \/ (act[u] = "hold" /\ active'[u] = "no")
BY DEF resume

\* Facts about the current task that every caller uses.
LEMMA CurrentTask ==
  ASSUME IInv, NEW c \in CPU
  PROVE  /\ curr[c] \in Task \cup {NULL} /\ NULL \notin Task
         /\ curr[c] # NULL => curr[c] \in Task /\ curr[c] \in rt /\ Home[curr[c]] = c
         /\ PathsTyped /\ flags \in [Task -> {"RUNNING", "SLEEP", "EXIT_SEM"}]
         /\ \A u \in Task : /\ active[u] = "hold" => ceil[u] # "no"
                            /\ active[u] # "no" => setup.preempt
                            /\ pos[u] = "down" => u \notin tail /\ ceil[u] = "no"
<1>1. /\ curr[c] \in Task \cup {NULL} /\ NULL \notin Task
      /\ PathsTyped /\ flags \in [Task -> {"RUNNING", "SLEEP", "EXIT_SEM"}]
  BY ConstantsAssumption DEF IInv, TypeOK, PathsTyped
<1> QED BY <1>1 DEF IInv, Placed, Returning

\* schedule() of a task in user mode, of one that loops, or of the background.
LEMMA ScheduleStep ==
  ASSUME IInv, NEW c \in CPU, schedule(c), UNCHANGED <<setup, fmlpVars, srpVars>>
  PROVE  IInv'
<1>1. PICK t \in Task \cup {NULL} : t = curr[c]
  BY CurrentTask
<1>2. /\ NULL \notin Task
      /\ PathsTyped /\ flags \in [Task -> {"RUNNING", "SLEEP", "EXIT_SEM"}]
      /\ \A u \in Task : /\ active[u] = "hold" => ceil[u] # "no"
                         /\ active[u] # "no" => setup.preempt
                         /\ pos[u] = "down" => u \notin tail /\ ceil[u] = "no"
  BY <1>1, CurrentTask
<1> DEFINE looping == t # NULL /\ ceil[t] = "no" /\ (t \in tail \/ active[t] = "nest")
           act == looping /\ active[t] = "nest"
<1>3. /\ t = NULL \/ InUser(t) \/ looping
      /\ switch(c, act, flags, state)
      /\ tail' = IF t = NULL \/ looping THEN tail ELSE tail \cup {t}
      /\ resume(c, active)
      /\ UNCHANGED <<pos, ceil, sec>>
  BY <1>1 DEF schedule
<1>4. /\ active' \in [Task -> {"no", "nest", "hold"}]
      /\ \A u \in Task : active'[u] = active[u] \/ (active[u] = "hold" /\ active'[u] = "no")
  BY <1>2, <1>3, Resume DEF PathsTyped
<1>5. SwitchedOut(c, act, state)
  <2>1. PathsTyped'
    BY <1>2, <1>3, <1>4 DEF PathsTyped
  <2>2. \A u \in Task : t = u => ~Tested(u)'
    BY <1>2, <1>3, <1>4 DEF Tested
  <2>3. \A u \in Task : t # u /\ Tested(u)' => Tested(u)
    BY <1>2, <1>3, <1>4 DEF Tested
  <2>4. \A u \in Task : active'[u] = "hold" => ceil'[u] # "no"
    BY <1>2, <1>3, <1>4
  <2>5. \A u \in Task : active'[u] # "no" => setup.preempt
    BY <1>2, <1>3, <1>4
  <2>6. \A u \in Task : pos'[u] = "down" => pos[u] = "down" /\ u \notin tail'
    BY <1>2, <1>3 DEF InUser
  <2> QED BY <1>1, <1>3, <2>1, <2>2, <2>3, <2>4, <2>5, <2>6 DEF SwitchedOut
<1>6. act \in BOOLEAN
  OBVIOUS
<1> HIDE DEF act
<1> QED BY <1>2, <1>3, <1>5, <1>6, SwitchStep

\* preempt_schedule(), also of a task that has set its state already.
LEMMA PreemptScheduleStep ==
  ASSUME IInv, NEW c \in CPU, preempt_schedule(c), UNCHANGED <<setup, fmlpVars, srpVars>>
  PROVE  IInv'
<1>1. PICK t \in Task \cup {NULL} : t = curr[c]
  BY CurrentTask
<1>2. /\ PathsTyped /\ flags \in [Task -> {"RUNNING", "SLEEP", "EXIT_SEM"}]
      /\ \A u \in Task : /\ active[u] = "hold" => ceil[u] # "no"
                         /\ active[u] # "no" => setup.preempt
                         /\ pos[u] = "down" => u \notin tail /\ ceil[u] = "no"
  BY <1>1, CurrentTask
<1> DEFINE act == [active EXCEPT ![t] = IF ceil[t] = "no" THEN "nest" ELSE "hold"]
<1>3. /\ setup.preempt /\ t # NULL /\ t \in Task
      /\ switch(c, TRUE, flags, state)
      /\ resume(c, act)
      /\ UNCHANGED <<pos, tail, ceil, sec>>
  BY <1>1 DEF preempt_schedule
<1>4. /\ act \in [Task -> {"no", "nest", "hold"}]
      /\ \A u \in Task : act[u] = IF u = t THEN IF ceil[t] = "no" THEN "nest" ELSE "hold"
                                  ELSE active[u]
  BY <1>2, <1>3 DEF PathsTyped
<1> HIDE DEF act
<1>5. /\ active' \in [Task -> {"no", "nest", "hold"}]
      /\ \A u \in Task : active'[u] = act[u] \/ (act[u] = "hold" /\ active'[u] = "no")
  BY <1>3, <1>4, Resume
<1>6. SwitchedOut(c, TRUE, state)
  <2>1. PathsTyped'
    BY <1>2, <1>3, <1>5 DEF PathsTyped
  <2>2. \A u \in Task : t = u => ~Tested(u)'
    BY <1>3, <1>4, <1>5 DEF Tested
  <2>3. \A u \in Task : t # u /\ Tested(u)' => Tested(u)
    BY <1>2, <1>3, <1>4, <1>5 DEF Tested
  <2>4. \A u \in Task : active'[u] = "hold" => ceil'[u] # "no"
    BY <1>2, <1>3, <1>4, <1>5
  <2>5. \A u \in Task : active'[u] # "no" => setup.preempt
    BY <1>3
  <2> QED BY <1>1, <1>2, <1>3, <2>1, <2>2, <2>3, <2>4, <2>5 DEF SwitchedOut
<1> QED BY <1>2, <1>3, <1>6, SwitchStep

\* The task completes its job, or suspends itself.
LEMMA CompleteOrBlockStep ==
  ASSUME IInv, NEW c \in CPU, complete_job(c) \/ block(c),
         UNCHANGED <<setup, fmlpVars, srpVars>>
  PROVE  IInv'
<1>1. PICK t \in Task \cup {NULL} : t = curr[c]
  BY CurrentTask
<1>2. /\ PathsTyped /\ flags \in [Task -> {"RUNNING", "SLEEP", "EXIT_SEM"}]
      /\ \A u \in Task : /\ active[u] = "hold" => ceil[u] # "no"
                         /\ active[u] # "no" => setup.preempt
                         /\ pos[u] = "down" => u \notin tail /\ ceil[u] = "no"
  BY <1>1, CurrentTask
<1>3. PICK fl, st :
        /\ fl = [flags EXCEPT ![t] = "SLEEP"] \/ fl = flags
        /\ st = state \/ st = state \ {t}
        /\ InUser(t)
        /\ switch(c, FALSE, fl, st)
        /\ tail' = tail \cup {t}
        /\ resume(c, active)
        /\ UNCHANGED <<pos, ceil, sec>>
  BY <1>1 DEF complete_job, block
<1>4. /\ t \in Task /\ pos[t] = "user" /\ ceil[t] = "no"
      /\ fl \in [Task -> {"RUNNING", "SLEEP", "EXIT_SEM"}] /\ st \in SUBSET state
  BY <1>2, <1>3 DEF InUser
<1>5. /\ active' \in [Task -> {"no", "nest", "hold"}]
      /\ \A u \in Task : active'[u] = active[u] \/ (active[u] = "hold" /\ active'[u] = "no")
  BY <1>2, <1>3, Resume DEF PathsTyped
<1>6. SwitchedOut(c, FALSE, st)
  <2>1. PathsTyped'
    BY <1>2, <1>3, <1>4, <1>5 DEF PathsTyped
  <2>2. \A u \in Task : t = u => ~Tested(u)'
    BY <1>3 DEF Tested
  <2>3. \A u \in Task : t # u /\ Tested(u)' => Tested(u)
    BY <1>2, <1>3, <1>5 DEF Tested
  <2>4. \A u \in Task : active'[u] = "hold" => ceil'[u] # "no"
    BY <1>2, <1>3, <1>5
  <2>5. \A u \in Task : active'[u] # "no" => setup.preempt
    BY <1>2, <1>5
  <2>6. \A u \in Task : pos'[u] = "down" => pos[u] = "down" /\ u \notin tail'
    BY <1>2, <1>3, <1>4
  <2> QED BY <1>1, <1>3, <1>4, <2>1, <2>2, <2>3, <2>4, <2>5, <2>6 DEF SwitchedOut
<1> QED BY <1>3, <1>4, <1>6, SwitchStep

\* A waiter suspends: if it has been woken before, it owns the semaphore.
LEMMA FmlpSuspendStep ==
  ASSUME IInv, NEW c \in CPU, fmlp_suspend(c), UNCHANGED <<setup, srpVars>>
  PROVE  IInv'
<1>1. PICK t \in Task \cup {NULL} : t = curr[c]
  BY CurrentTask
<1>2. /\ PathsTyped /\ flags \in [Task -> {"RUNNING", "SLEEP", "EXIT_SEM"}]
      /\ \A u \in Task : /\ active[u] = "hold" => ceil[u] # "no"
                         /\ active[u] # "no" => setup.preempt
                         /\ pos[u] = "down" => u \notin tail /\ ceil[u] = "no"
  BY <1>1, CurrentTask
<1>3. /\ t \in Task /\ pos[t] = "down" /\ active[t] = "no"
      /\ switch(c, FALSE, flags, state)
      /\ pos' = [pos EXCEPT ![t] = "got"]
      /\ tail' = tail \cup {t}
      /\ resume(c, active)
      /\ UNCHANGED <<ceil, sec, fmlpVars>>
  BY <1>1 DEF fmlp_suspend
<1>4. /\ active' \in [Task -> {"no", "nest", "hold"}]
      /\ \A u \in Task : active'[u] = active[u] \/ (active[u] = "hold" /\ active'[u] = "no")
  BY <1>2, <1>3, Resume DEF PathsTyped
<1>5. /\ pos' \in [Task -> {"user", "down", "got", "gone"}]
      /\ \A u \in Task : pos'[u] = IF u = t THEN "got" ELSE pos[u]
  BY <1>2, <1>3 DEF PathsTyped
<1>6. SwitchedOut(c, FALSE, state)
  <2>1. PathsTyped'
    BY <1>2, <1>3, <1>4, <1>5 DEF PathsTyped
  <2>2. \A u \in Task : t = u => ~Tested(u)'
    BY <1>3 DEF Tested
  <2>3. \A u \in Task : t # u /\ Tested(u)' => Tested(u)
    BY <1>2, <1>3, <1>4 DEF Tested
  <2>4. \A u \in Task : active'[u] = "hold" => ceil'[u] # "no"
    BY <1>2, <1>3, <1>4
  <2>5. \A u \in Task : active'[u] # "no" => setup.preempt
    BY <1>2, <1>4
  <2>6. \A u \in Task : pos'[u] = "down" => pos[u] = "down" /\ u \notin tail'
    BY <1>2, <1>3, <1>5
  <2>7. \A u \in Task : \/ pos'[u] = pos[u]
                        \/ u = t /\ pos[u] = "down" /\ pos'[u] = "got"
    BY <1>3, <1>5
  <2> QED BY <1>1, <1>3, <2>1, <2>2, <2>3, <2>4, <2>5, <2>6, <2>7 DEF SwitchedOut
<1> QED BY <1>2, <1>3, <1>6, SwitchStep

\* A task blocks below the ceiling.
LEMMA CeilingSuspendStep ==
  ASSUME IInv, NEW c \in CPU, ceiling_suspend(c), UNCHANGED <<setup, fmlpVars>>
  PROVE  IInv'
<1>1. PICK t \in Task \cup {NULL} : t = curr[c]
  BY CurrentTask
<1>2. /\ PathsTyped /\ flags \in [Task -> {"RUNNING", "SLEEP", "EXIT_SEM"}]
      /\ \A u \in Task : /\ active[u] = "hold" => ceil[u] # "no"
                         /\ active[u] # "no" => setup.preempt
                         /\ pos[u] = "down" => u \notin tail /\ ceil[u] = "no"
  BY <1>1, CurrentTask
<1>3. /\ t \in Task /\ ceil[t] = "prep"
      /\ switch(c, active[t] # "no", flags, state)
      /\ ceil' = [ceil EXCEPT ![t] = "ret"]
      /\ resume(c, active)
      /\ UNCHANGED <<pos, tail, sec, srpVars>>
  BY <1>1 DEF ceiling_suspend
<1>4. /\ active' \in [Task -> {"no", "nest", "hold"}]
      /\ \A u \in Task : active'[u] = active[u] \/ (active[u] = "hold" /\ active'[u] = "no")
  BY <1>2, <1>3, Resume DEF PathsTyped
<1>5. /\ ceil' \in [Task -> {"no", "prep", "ret"}]
      /\ \A u \in Task : ceil'[u] = IF u = t THEN "ret" ELSE ceil[u]
  BY <1>2, <1>3 DEF PathsTyped
<1>6. SwitchedOut(c, active[t] # "no", state)
  <2>1. PathsTyped'
    BY <1>2, <1>3, <1>4, <1>5 DEF PathsTyped
  <2>2. \A u \in Task : t = u => ~Tested(u)'
    BY <1>5 DEF Tested
  <2>3. \A u \in Task : t # u /\ Tested(u)' => Tested(u)
    BY <1>2, <1>3, <1>4, <1>5 DEF Tested
  <2>4. \A u \in Task : active'[u] = "hold" => ceil'[u] # "no"
    BY <1>2, <1>3, <1>4, <1>5
  <2>5. \A u \in Task : active'[u] # "no" => setup.preempt
    BY <1>2, <1>4
  <2>6. \A u \in Task : ceil'[u] = "no" <=> ceil[u] = "no"
    BY <1>3, <1>5
  <2> QED BY <1>1, <1>2, <1>3, <2>1, <2>2, <2>3, <2>4, <2>5, <2>6 DEF SwitchedOut
<1>7. (active[t] # "no") \in BOOLEAN
  OBVIOUS
<1> QED BY <1>2, <1>3, <1>6, <1>7, SwitchStep

-----------------------------------------------------------------------------
(* Interrupts, time and wake-ups                                           *)

\* A step that moves no task and touches no semaphore.
LEMMA Quiet ==
  ASSUME IInv, Placed', QueuesTyped', panic' = FALSE, now' \in Nat,
         UNCHANGED <<setup, rt, state, on_rq, prioVars, curr, posVars, fmlpVars,
                     srpVars>>
  PROVE  IInv'
<1>1. TypeOK
  BY DEF IInv
<1>2. TypeOK'
  <2>1. /\ rt' \subseteq Task /\ state' \subseteq Task /\ on_rq' \subseteq Task
        /\ waking' \in [CPU -> Task \cup {NULL}] /\ PathsTyped'
    BY <1>1 DEF TypeOK, PathsTyped
  <2> QED BY <2>1, TypeKept
<1>3. Outside' /\ Returning'
  BY DEF IInv, Outside, Returning, Tested
<1>4. Semaphore'
  BY SemaphoreKept
<1>5. Inherited' /\ Stacked'
  BY InheritedKept, StackedKept
<1>6. Blocking' /\ HandedOver'
  <2>1. Waking' = Waking /\ \A t \in Task : Tested(t)' <=> Tested(t)
    BY DEF Waking, Tested
  <2> QED BY <2>1, BlockingKept, HandedOverKept
<1> QED BY <1>2, <1>3, <1>4, <1>5, <1>6 DEF IInv

\* The timer of a release moves jobs from one queue to the other.
LEMMA OnReleaseTimerStep ==
  ASSUME IInv, NEW c \in CPU, NEW e \in CPU, NEW r, on_release_timer(c, e, r),
         UNCHANGED <<setup, fmlpVars, srpVars>>
  PROVE  IInv'
<1>1. TypeOK /\ Placed /\ panic = FALSE
  BY DEF IInv
<1>2. PICK heap \in SUBSET Task :
        /\ heap \subseteq relq[c]
        /\ relq' = [relq EXCEPT ![c] = relq[c] \ heap]
        /\ ready' = [ready EXCEPT ![c] = ready[c] \cup heap]
  <2>1. {t \in relq[c] : job[t].release = r} \in SUBSET Task
    BY <1>1 DEF TypeOK
  <2> QED BY <1>1, <2>1 DEF on_release_timer, TypeOK
<1>3. UNCHANGED <<now, rt, state, on_rq, jobVars, prioVars, scheduled, curr, posVars, panic>>
  BY DEF on_release_timer
<1>4. tif' \subseteq Task \cup CPU /\ ipi' \subseteq CPU
  BY <1>1, Preempt DEF on_release_timer
<1>5. /\ relq'[c] = relq[c] \ heap /\ ready'[c] = ready[c] \cup heap
      /\ \A d \in CPU : d # c => ready'[d] = ready[d] /\ relq'[d] = relq[d]
      /\ ready' \in [CPU -> SUBSET Task] /\ relq' \in [CPU -> SUBSET Task]
  BY <1>1, <1>2 DEF TypeOK
<1>6. QueuesTyped' /\ panic' = FALSE /\ now' \in Nat
  BY <1>1, <1>3, <1>4, <1>5 DEF TypeOK, QueuesTyped, Job
<1>7. Placed'
  <2>1. setup' \in Setups /\ scheduled' = curr' /\ state' \subseteq on_rq'
    BY <1>1, <1>3 DEF Placed
  <2>2. ASSUME NEW u \in Task, NEW d \in CPU
        PROVE  /\ u \in ready'[d] \/ u \in relq'[d] \/ curr'[d] = u =>
                    Home[u] = d /\ u \in rt' /\ u \in on_rq'
               /\ ~(u \in ready'[d] /\ u \in relq'[d])
               /\ curr'[d] = u => u \notin ready'[d] /\ u \notin relq'[d]
    BY <1>1, <1>2, <1>3, <1>5 DEF Placed
  <2>3. ASSUME NEW u \in rt' \cap on_rq'
        PROVE  u \in ready'[Home[u]] \/ u \in relq'[Home[u]] \/ curr'[Home[u]] = u
    <3>1. u \in Task /\ Home[u] \in CPU
      BY <1>1, <1>3, ConstantsAssumption DEF TypeOK
    <3> QED BY <1>1, <1>3, <1>5, <3>1 DEF Placed
  <2> QED BY <2>1, <2>2, <2>3 DEF Placed
<1> QED BY <1>3, <1>6, <1>7, Quiet

\* Budgets, reschedule interrupts and time.
LEMMA SignalStep ==
  ASSUME IInv, UNCHANGED <<setup, fmlpVars, srpVars>>,
         clock \/ \E c \in CPU : tick(c) \/ reschedule_interrupt(c)
  PROVE  IInv'
<1>1. TypeOK /\ Placed /\ panic = FALSE
  BY DEF IInv
<1>2. UNCHANGED <<rt, state, on_rq, flags, job, prioVars, queueVars, scheduled, curr, posVars>>
  BY DEF clock, tick, reschedule_interrupt
<1>3. panic' = FALSE
  BY <1>1 DEF clock, tick, reschedule_interrupt, BugOn, Placed
<1>4. now' \in Nat
  BY <1>1 DEF clock, tick, reschedule_interrupt, TypeOK
<1>5. \A c \in CPU : /\ Current(c) \in Task \cup CPU
                     /\ curr[c] \in setup.enforced => curr[c] \in Task
  <2>1. setup.enforced \subseteq Task
    BY <1>1, ConstantsAssumption DEF Placed, Setup
  <2> QED BY <1>1, <2>1 DEF TypeOK, Current
<1>6. tif' \subseteq Task \cup CPU /\ ipi' \subseteq CPU /\ spent' \subseteq setup.enforced
  BY <1>1, <1>5 DEF clock, tick, reschedule_interrupt, TypeOK
<1>7. QueuesTyped'
  BY <1>1, <1>2, <1>6 DEF TypeOK, QueuesTyped, Job
<1>8. Placed'
  BY <1>1, <1>2 DEF Placed
<1> QED BY <1>2, <1>3, <1>4, <1>7, <1>8, Quiet

\* What a suspended task waits for.
LEMMA WakeStep ==
  ASSUME IInv, NEW t \in Task, NEW e \in CPU, wake(t, e),
         UNCHANGED <<setup, fmlpVars, srpVars>>
  PROVE  IInv'
<1>1. TypeOK /\ Home[t] \in CPU
  BY ConstantsAssumption DEF IInv
<1>2. /\ pos[t] = "user" /\ ceil[t] = "no"
      /\ try_to_wake_up({t}, Home[t], e, FALSE)
      /\ UNCHANGED <<now, rt, prioVars, scheduled, curr, posVars>>
  BY DEF wake
<1>3. /\ Placed' /\ QueuesTyped' /\ panic' = FALSE
      /\ state' = state \cup {t} /\ on_rq' = on_rq \cup {t}
  <2>1. {t} \in SUBSET Task /\ FALSE \in BOOLEAN /\ \A u \in {t} : Home[u] = Home[t]
    OBVIOUS
  <2> QED BY <1>1, <1>2, <2>1, WakeUp
<1>4. TypeOK'
  <2>1. /\ now' \in Nat /\ rt' \subseteq Task /\ state' \subseteq Task /\ on_rq' \subseteq Task
        /\ waking' \in [CPU -> Task \cup {NULL}] /\ PathsTyped'
    BY <1>1, <1>2, <1>3 DEF TypeOK, PathsTyped
  <2> QED BY <1>2, <1>3, <2>1, TypeKept
<1>5. Outside' /\ Returning'
  BY <1>2, <1>3 DEF IInv, Outside, Returning, Tested
<1>6. Semaphore'
  BY <1>2, <1>3, SemaphoreKept
<1>7. Inherited' /\ Stacked'
  BY <1>2, InheritedKept, StackedKept
<1>8. Blocking' /\ HandedOver'
  <2>1. Waking' = Waking /\ \A u \in Task : Tested(u)' <=> Tested(u)
    BY <1>2 DEF Waking, Tested
  <2> QED BY <1>2, <1>3, <2>1, BlockingKept, HandedOverKept
<1> QED BY <1>3, <1>4, <1>5, <1>6, <1>7, <1>8 DEF IInv

\* up() wakes the task it has chosen, which is non-preemptive by now.
LEMMA FmlpWakeStep ==
  ASSUME IInv, NEW c \in CPU, fmlp_wake(c), UNCHANGED <<setup, srpVars>>
  PROVE  IInv'
<1>1. TypeOK /\ Semaphore
  BY DEF IInv
<1>2. PICK w \in Task : w = waking[c]
  BY <1>1 DEF TypeOK, fmlp_wake
<1>3. /\ try_to_wake_up({w}, Home[w], c, FALSE)
      /\ waking' = [waking EXCEPT ![c] = NULL]
      /\ UNCHANGED <<now, rt, prioVars, scheduled, curr, posVars, count, holder, wait, hp>>
  BY <1>2 DEF fmlp_wake
<1>4. Home[w] \in CPU /\ NULL \notin Task
  BY ConstantsAssumption
<1>5. c \in Waking /\ Inside = {} /\ wait # <<>> /\ w = Head(wait) /\ is_np(w)
  <2>1. c \in Waking
    BY <1>2, <1>4 DEF Waking
  <2>2. Inside = {} /\ wait # <<>> /\ w = Head(wait)
    BY <1>1, <1>2, <2>1 DEF Semaphore
  <2> QED BY <1>1, <2>1, <2>2 DEF Semaphore, NpIsOwner, Inside
<1>6. /\ Placed' /\ QueuesTyped' /\ panic' = FALSE
      /\ state' = state \cup {w} /\ on_rq' = on_rq \cup {w}
  <2>1. {w} \in SUBSET Task /\ FALSE \in BOOLEAN /\ \A u \in {w} : Home[u] = Home[w]
    OBVIOUS
  <2> QED BY <1>3, <1>4, <2>1, WakeUp
<1>7. Waking' = {}
  <2>1. \A d \in CPU : d # c => waking'[d] = waking[d]
    BY <1>1, <1>3 DEF TypeOK
  <2>2. waking'[c] = NULL
    BY <1>1, <1>3 DEF TypeOK
  <2> QED BY <1>1, <1>5, <2>1, <2>2 DEF Waking, Semaphore
<1>8. TypeOK'
  <2>1. /\ now' \in Nat /\ rt' \subseteq Task /\ state' \subseteq Task /\ on_rq' \subseteq Task
        /\ waking' \in [CPU -> Task \cup {NULL}] /\ PathsTyped'
    BY <1>1, <1>3, <1>6 DEF TypeOK, PathsTyped
  <2> QED BY <1>3, <1>6, <2>1, TypeKept
<1>9. Outside' /\ Returning'
  BY <1>3, <1>6 DEF IInv, Outside, Returning, Tested
<1>10. Semaphore'
  <2>1. NpIsOwner' /\ Inside' = Inside /\ \A u \in Task : is_np(u)' <=> is_np(u)
    BY <1>1, <1>3 DEF Semaphore, NpIsOwner, is_np, Inside
  <2> QED BY <1>1, <1>3, <1>5, <1>6, <1>7, <2>1 DEF Semaphore
<1>11. Inherited' /\ Stacked'
  BY <1>3, InheritedKept, StackedKept
<1>12. Blocking' /\ HandedOver'
  <2>1. \A u \in Task : Tested(u)' <=> Tested(u)
    BY <1>3 DEF Tested
  <2> QED BY <1>3, <1>5, <1>6, <2>1, BlockingKept, HandedOverKept
<1> QED BY <1>6, <1>8, <1>9, <1>10, <1>11, <1>12 DEF IInv

-----------------------------------------------------------------------------
(* Tasks come and go                                                       *)

\* A task becomes a real-time task where it runs, or waits in a queue.
LEMMA TaskNewStep ==
  ASSUME IInv, NEW t \in Task, NEW e \in CPU, task_new(t, e),
         UNCHANGED <<setup, fmlpVars, srpVars>>
  PROVE  IInv'
<1>1. TypeOK /\ Placed /\ panic = FALSE /\ Outside /\ Returning
  BY DEF IInv
<1>2. PICK c \in CPU : c = Home[t]
  BY ConstantsAssumption
<1> DEFINE js == [job EXCEPT ![t] = release_at(t, now)]
<1>3. /\ t \notin rt /\ pos[t] = "user"
      /\ rt' = rt \cup {t} /\ job' = js
      /\ UNCHANGED <<now, state, on_rq, flags, spent, prioVars, pos, active, ceil, sec>>
  BY DEF task_new
<1>4. \/ /\ curr[c] = NULL
         /\ panic' = (panic \/ scheduled[c] # NULL)
         /\ scheduled' = [scheduled EXCEPT ![c] = t]
         /\ curr' = [curr EXCEPT ![c] = t]
         /\ tif' = IF c \in tif THEN (tif \ {c}) \cup {t} ELSE tif
         /\ UNCHANGED <<queueVars, ipi, tail>>
      \/ /\ requeue({t}, c, e, js, TRUE)
         /\ tail' = tail \cup {t}
         /\ UNCHANGED <<scheduled, curr, panic>>
  BY <1>2 DEF task_new, BugOn
<1>5. js \in [Task -> Job]
  <2>1. job \in [Task -> Job] /\ now \in Nat
    BY <1>1 DEF TypeOK, Job
  <2>2. release_at(t, now) \in Job
    BY <2>1, ConstantsAssumption DEF release_at, Job
  <2> QED BY <2>1, <2>2
<1> HIDE DEF js
<1>6. t \in state /\ t \in on_rq /\ ceil[t] = "no" /\ \A s \in SrpSem : t \notin opened[s]
  BY <1>1, <1>3 DEF Outside, Placed
<1>7. /\ Placed' /\ QueuesTyped' /\ panic' = FALSE
      /\ \A d \in CPU, u \in Task : curr'[d] = u => curr[d] = u \/ u = t
      /\ \A d \in CPU, u \in Task : curr[d] = u => curr'[d] = u
      /\ curr'[c] = t \/ t \in tail'
  <2>1. /\ spent' \subseteq setup.enforced
        /\ flags' \in [Task -> {"RUNNING", "SLEEP", "EXIT_SEM"}]
        /\ job' \in [Task -> Job]
    BY <1>1, <1>3, <1>5 DEF TypeOK
  <2>2. CASE /\ curr[c] = NULL
             /\ panic' = (panic \/ scheduled[c] # NULL)
             /\ scheduled' = [scheduled EXCEPT ![c] = t]
             /\ curr' = [curr EXCEPT ![c] = t]
             /\ tif' = IF c \in tif THEN (tif \ {c}) \cup {t} ELSE tif
             /\ UNCHANGED <<queueVars, ipi, tail>>
    <3>1. panic' = FALSE
      BY <1>1, <2>2 DEF Placed
    <3>2. curr'[c] = t /\ (\A d \in CPU : d # c => curr'[d] = curr[d])
          /\ curr' \in [CPU -> Task \cup {NULL}]
      BY <1>1, <2>2 DEF TypeOK
    <3>3. QueuesTyped'
      BY <1>1, <2>1, <2>2, <3>2 DEF TypeOK, QueuesTyped
    <3>4. Placed'
      <4>1. setup' \in Setups /\ scheduled' = curr' /\ state' \subseteq on_rq'
        BY <1>1, <1>3, <2>2 DEF Placed
      <4>2. ASSUME NEW u \in Task, NEW d \in CPU
            PROVE  /\ u \in ready'[d] \/ u \in relq'[d] \/ curr'[d] = u =>
                        Home[u] = d /\ u \in rt' /\ u \in on_rq'
                   /\ ~(u \in ready'[d] /\ u \in relq'[d])
                   /\ curr'[d] = u => u \notin ready'[d] /\ u \notin relq'[d]
        BY <1>1, <1>2, <1>3, <1>6, <2>2, <3>2 DEF Placed
      <4>3. ASSUME NEW u \in rt' \cap on_rq'
            PROVE  u \in ready'[Home[u]] \/ u \in relq'[Home[u]] \/ curr'[Home[u]] = u
        <5>1. Home[u] \in CPU /\ u \in Task
          BY <1>1, <1>3, ConstantsAssumption DEF TypeOK
        <5>2. CASE u = t
          BY <1>2, <3>2, <5>2
        <5>3. CASE u # t
          <6>1. u \in rt \cap on_rq
            BY <1>3, <5>3
          <6>2. u \in ready[Home[u]] \/ u \in relq[Home[u]] \/ curr[Home[u]] = u
            BY <1>1, <6>1 DEF Placed
          <6>3. curr[Home[u]] = u => Home[u] # c
            BY <2>2, <5>1, ConstantsAssumption
          <6> QED BY <2>2, <3>2, <5>1, <6>2, <6>3
        <5> QED BY <5>2, <5>3
      <4> QED BY <4>1, <4>2, <4>3 DEF Placed
    <3>5. \A d \in CPU, u \in Task : curr[d] = u => curr'[d] = u
      BY <2>2, <3>2, ConstantsAssumption
    <3> QED BY <3>1, <3>2, <3>3, <3>4, <3>5
  <2>3. CASE /\ requeue({t}, c, e, js, TRUE)
             /\ tail' = tail \cup {t}
             /\ UNCHANGED <<scheduled, curr, panic>>
    <3>1. /\ {t} \in SUBSET Task
          /\ \A u \in {t} : Home[u] = c /\ u \in rt' /\ u \in on_rq' /\ ~(u \in rt /\ u \in on_rq)
          /\ \A u \in rt' \cap on_rq' : (u \in rt /\ u \in on_rq) \/ u \in {t}
      BY <1>2, <1>3, <1>6
    <3>2. state' \subseteq on_rq' /\ rt \subseteq rt' /\ on_rq \subseteq on_rq'
      BY <1>1, <1>3 DEF Placed
    <3>3. /\ Placed'
          /\ ready' \in [CPU -> SUBSET Task] /\ relq' \in [CPU -> SUBSET Task]
          /\ tif' \subseteq Task \cup CPU /\ ipi' \subseteq CPU
      BY <1>1, <2>3, <3>1, <3>2, Requeue
    <3>4. curr' \in [CPU -> Task \cup {NULL}]
      BY <1>1, <2>3 DEF TypeOK
    <3> QED BY <1>1, <2>1, <2>3, <3>3, <3>4 DEF QueuesTyped
  <2> QED BY <1>4, <2>2, <2>3
<1>8. tail \subseteq tail' /\ tail' \subseteq tail \cup {t}
  BY <1>4
<1>9. TypeOK'
  <2>1. /\ now' \in Nat /\ rt' \subseteq Task /\ state' \subseteq Task /\ on_rq' \subseteq Task
        /\ waking' \in [CPU -> Task \cup {NULL}] /\ PathsTyped'
    BY <1>1, <1>3, <1>8 DEF TypeOK, PathsTyped
  <2> QED BY <1>3, <1>7, <2>1, TypeKept
<1>10. Outside'
  BY <1>1, <1>3 DEF Outside
<1>11. Returning'
  <2>1. ASSUME NEW u \in rt', curr'[Home[u]] # u PROVE ~Tested(u)'
    <3>1. CASE u = t
      BY <1>2, <1>7, <2>1, <3>1 DEF Tested
    <3>2. CASE u # t
      <4>1. u \in rt /\ u \in Task /\ Home[u] \in CPU
        BY <1>1, <1>3, <3>2, ConstantsAssumption DEF TypeOK
      <4>2. curr[Home[u]] # u
        BY <1>7, <2>1, <4>1
      <4> QED BY <1>1, <1>3, <1>8, <4>1, <4>2 DEF Returning, Tested
    <3> QED BY <3>1, <3>2
  <2>2. \A u \in Task : pos[u] = "down" => u \notin tail'
    BY <1>1, <1>3, <1>8 DEF Returning
  <2> QED BY <1>1, <1>3, <2>1, <2>2 DEF Returning
<1>12. Semaphore' /\ Inherited' /\ Stacked'
  BY <1>3, SemaphoreKept, InheritedKept, StackedKept
<1>13. Blocking' /\ HandedOver'
  <2>1. Waking' = Waking /\ \A u \in Task : Tested(u)' => Tested(u)
    BY <1>3, <1>8 DEF Waking, Tested
  <2>2. \A d \in CPU, u \in Task : curr'[d] = u /\ Tested(u)' =>
          (curr[d] = u /\ Tested(u)) \/ \A s \in SrpSem : u \notin opened[s]
    BY <1>6, <1>7, <2>1
  <2> QED BY <1>3, <2>1, <2>2, BlockingKept, HandedOverKept
<1> QED BY <1>7, <1>9, <1>10, <1>11, <1>12, <1>13 DEF IInv

\* A task leaves: it is in no queue, and it is awake.
LEMMA TaskExitStep ==
  ASSUME IInv, NEW c \in CPU, task_exit(c), UNCHANGED <<setup, fmlpVars, srpVars>>
  PROVE  IInv'
<1>1. TypeOK /\ Placed /\ panic = FALSE /\ Outside /\ Returning /\ Semaphore
  BY DEF IInv
<1>2. PICK t \in Task : t = curr[c]
  BY CurrentTask DEF task_exit, InUser
<1>3. /\ InUser(t) /\ sec[t] = "no"
      /\ rt' = rt \ {t}
      /\ panic' = (panic \/ is_queued(t))
      /\ scheduled' = [scheduled EXCEPT ![c] = NULL]
      /\ curr' = [curr EXCEPT ![c] = NULL]
      /\ tif' = (tif \ {t}) \cup {c}
      /\ job' = [job EXCEPT ![t] = [release |-> 0, deadline |-> 0]]
      /\ spent' = spent \ {t}
      /\ pos' = [pos EXCEPT ![t] = "gone"]
      /\ UNCHANGED <<now, state, on_rq, flags, prioVars, queueVars, tail, active,
                     ceil, sec, ipi>>
  BY <1>2 DEF task_exit, BugOn
<1>4. /\ t \in rt /\ t \in on_rq /\ Home[t] = c /\ ~is_queued(t)
      /\ pos[t] = "user" /\ ceil[t] = "no" /\ NULL \notin Task
      /\ \A d \in CPU : t \notin ready[d] /\ t \notin relq[d]
  BY <1>1, <1>2, <1>3, ConstantsAssumption DEF Placed, is_queued, InUser
<1>5. t \in state
  BY <1>1, <1>4 DEF Returning
<1>6. /\ curr'[c] = NULL /\ \A d \in CPU : d # c => curr'[d] = curr[d]
      /\ curr' \in [CPU -> Task \cup {NULL}]
      /\ \A u \in Task : pos'[u] = IF u = t THEN "gone" ELSE pos[u]
      /\ pos' \in [Task -> {"user", "down", "got", "gone"}]
  BY <1>1, <1>3 DEF TypeOK
<1>7. panic' = FALSE
  BY <1>1, <1>3, <1>4
<1>8. QueuesTyped'
  <2>1. job' \in [Task -> Job]
    BY <1>1, <1>3 DEF TypeOK, Job
  <2> QED BY <1>1, <1>3, <1>6, <2>1 DEF TypeOK, QueuesTyped
<1>9. Placed'
  <2>1. setup' \in Setups /\ scheduled' = curr' /\ state' \subseteq on_rq'
    BY <1>1, <1>3 DEF Placed
  <2>2. ASSUME NEW u \in Task, NEW d \in CPU
        PROVE  /\ u \in ready'[d] \/ u \in relq'[d] \/ curr'[d] = u =>
                    Home[u] = d /\ u \in rt' /\ u \in on_rq'
               /\ ~(u \in ready'[d] /\ u \in relq'[d])
               /\ curr'[d] = u => u \notin ready'[d] /\ u \notin relq'[d]
    BY <1>1, <1>3, <1>4, <1>6 DEF Placed
  <2>3. ASSUME NEW u \in rt' \cap on_rq'
        PROVE  u \in ready'[Home[u]] \/ u \in relq'[Home[u]] \/ curr'[Home[u]] = u
    <3>1. u \in rt \cap on_rq /\ u # t /\ u \in Task /\ Home[u] \in CPU
      BY <1>1, <1>3, ConstantsAssumption DEF TypeOK
    <3>2. u \in ready[Home[u]] \/ u \in relq[Home[u]] \/ curr[Home[u]] = u
      BY <1>1, <3>1 DEF Placed
    <3> QED BY <1>2, <1>3, <1>6, <3>1, <3>2
  <2> QED BY <2>1, <2>2, <2>3 DEF Placed
<1>10. TypeOK'
  <2>1. /\ now' \in Nat /\ rt' \subseteq Task /\ state' \subseteq Task /\ on_rq' \subseteq Task
        /\ waking' \in [CPU -> Task \cup {NULL}] /\ PathsTyped'
    BY <1>1, <1>3, <1>6 DEF TypeOK, PathsTyped
  <2> QED BY <1>3, <1>7, <1>8, <1>9, <2>1, TypeKept
<1>11. Outside'
  <2>1. ASSUME NEW u \in Task \ rt'
        PROVE  /\ u \in state' /\ pos'[u] \in {"user", "gone"} /\ sec'[u] = "no"
               /\ ceil'[u] = "no"
               /\ pos'[u] = "user" => \A s \in SrpSem : u \notin opened'[s]
    BY <1>1, <1>3, <1>4, <1>5, <1>6 DEF Outside
  <2> QED BY <2>1 DEF Outside
<1>12. Returning'
  <2>1. ASSUME NEW u \in rt', curr'[Home[u]] # u PROVE ~Tested(u)'
    <3>1. u \in rt /\ u # t /\ Home[u] \in CPU
      BY <1>1, <1>3, ConstantsAssumption DEF TypeOK
    <3>2. curr[Home[u]] # u
      BY <1>2, <1>6, <2>1, <3>1
    <3> QED BY <1>1, <1>3, <3>1, <3>2 DEF Returning, Tested
  <2>2. \A u \in Task : pos'[u] = "down" => pos[u] = "down" /\ u # t
    BY <1>6
  <2>3. \A u \in on_rq' : u \in state' \/ ceil'[u] # "no" \/ pos'[u] = "down"
    <3>1. on_rq \subseteq Task
      BY <1>1 DEF TypeOK
    <3> QED BY <1>1, <1>3, <1>5, <1>6, <3>1 DEF Returning
  <2> QED BY <1>1, <1>3, <2>1, <2>2, <2>3 DEF Returning
<1>13. Semaphore'
  <2>1. NpIsOwner' /\ Inside' = Inside /\ Waking' = Waking /\ \A u \in Task : is_np(u)' <=> is_np(u)
    BY <1>1, <1>3 DEF Semaphore, NpIsOwner, is_np, Inside, Waking
  <2>3. \A u \in Task : pos'[u] # "user" => sec'[u] = "no"
    BY <1>1, <1>3, <1>6 DEF Semaphore
  <2>4. \A u \in Task : pos'[u] \in {"down", "got"} => pos'[u] = pos[u]
    BY <1>6
  <2>5. \A u \in Task : pos[u] \in {"down", "got"} => pos'[u] = pos[u]
    BY <1>4, <1>6
  <2> QED BY <1>1, <1>3, <2>1, <2>3, <2>4, <2>5 DEF Semaphore
<1>14. Inherited' /\ Stacked'
  BY <1>3, InheritedKept, StackedKept
<1>15. Blocking' /\ HandedOver'
  <2>1. Waking' = Waking /\ \A u \in Task : Tested(u)' <=> Tested(u)
    BY <1>3 DEF Waking, Tested
  <2>2. \A d \in CPU, u \in Task : curr'[d] = u => curr[d] = u
    BY <1>4, <1>6
  <2> QED BY <1>3, <2>1, <2>2, BlockingKept, HandedOverKept
<1> QED BY <1>7, <1>9, <1>10, <1>11, <1>12, <1>13, <1>14, <1>15 DEF IInv

-----------------------------------------------------------------------------
(* The FMLP semaphore                                                      *)

\* Taking and releasing the FMLP semaphore does not concern SRP semaphores.
LEMMA StackedFmlp ==
  ASSUME IInv, UNCHANGED <<setup, opened, ceiling, owner, srp>>,
         \A u \in Task, s \in SrpSem : sec'[u] = s <=> sec[u] = s
  PROVE  Stacked'
<1>1. Stacked
  BY DEF IInv
<1> QED BY <1>1 DEF Stacked, srp_higher_prio

\* What the steps on the semaphore leave alone.
LEMMA PlacedKept ==
  ASSUME IInv, UNCHANGED <<setup, rt, on_rq, queueVars, scheduled, curr>>, state' \subseteq state
  PROVE  Placed'
BY DEF IInv, Placed

\* down() when the semaphore is taken: the task queues up.
LEMMA FmlpDownWaits ==
  ASSUME IInv, NEW c \in CPU, fmlp_down(c), UNCHANGED <<setup, srpVars>>,
         count' < 0 \/ wait # <<>>
  PROVE  IInv'
<1>1. TypeOK /\ Semaphore /\ Inherited /\ Outside /\ Returning /\ HandedOver /\ ~panic
  BY DEF IInv
<1>2. PICK t \in Task : t = curr[c]
  BY CurrentTask DEF fmlp_down, InUser
<1>3. /\ InUser(t) /\ t \in setup.fmlp /\ sec[t] = "no" /\ Waking = {}
      /\ count' = count - 1 /\ state' = state \ {t} /\ wait' = Append(wait, t)
      /\ pi_block(t) /\ pos' = [pos EXCEPT ![t] = "down"]
      /\ UNCHANGED <<holder, sec, kernel_np>>
      /\ UNCHANGED <<now, rt, on_rq, jobVars, queueVars, scheduled, curr, tail,
                     active, ceil, waking, panic>>
  BY <1>2 DEF fmlp_down, add_wait_queue_exclusive_locked
<1>4. /\ t \in rt /\ Home[t] = c /\ NULL \notin Task
      /\ pos[t] = "user" /\ t \notin tail /\ active[t] = "no" /\ ceil[t] = "no"
  BY <1>2, <1>3, CurrentTask DEF InUser
<1>5. /\ wait \in Seq(Task) /\ wait' \in Seq(Task) /\ Len(wait') = Len(wait) + 1
      /\ Len(wait) \in Nat /\ wait' # <<>>
      /\ \A i \in 1 .. Len(wait) : wait'[i] = wait[i]
      /\ wait'[Len(wait) + 1] = t
  <2>1. wait \in Seq(Task)
    BY <1>1 DEF TypeOK
  <2>2. Append(wait, t) \in Seq(Task) /\ Len(Append(wait, t)) = Len(wait) + 1
    BY <2>1
  <2>3. Append(wait, t) # <<>>
    BY <2>1, <2>2
  <2> QED BY <1>3, <2>1, <2>2, <2>3
<1>6. /\ \A u \in Task : u \in Range(wait') <=> u \in Range(wait) \/ u = t
      /\ t \notin Range(wait)
  <2>1. t \notin Range(wait)
    BY <1>1, <1>4 DEF Semaphore
  <2>2. DOMAIN wait = 1 .. Len(wait) /\ DOMAIN wait' = 1 .. (Len(wait) + 1)
    BY <1>5
  <2>3. \A i \in 1 .. (Len(wait) + 1) : i \in 1 .. Len(wait) \/ i = Len(wait) + 1
    BY <1>5
  <2>4. \A i \in 1 .. Len(wait) : i \in 1 .. (Len(wait) + 1)
    BY <1>5
  <2>5. Len(wait) + 1 \in 1 .. (Len(wait) + 1)
    BY <1>5
  <2> QED BY <1>5, <2>1, <2>2, <2>3, <2>4, <2>5 DEF Range
<1>7. /\ wait # <<>> => Head(wait') = Head(wait) /\ Head(wait) # t
      /\ wait = <<>> => Inside # {}
  <2>1. wait # <<>> => 1 \in 1 .. Len(wait) /\ Head(wait) = wait[1] /\ Head(wait') = wait'[1]
    BY <1>5
  <2>2. wait # <<>> => Head(wait) \in Range(wait)
    BY <1>5, <2>1 DEF Range
  <2>3. wait = <<>> => Inside # {}
    <3>1. SUFFICES ASSUME wait = <<>>, Inside = {} PROVE FALSE
      OBVIOUS
    <3>2. count = 1
      BY <1>1, <3>1 DEF Semaphore
    <3> QED BY <1>3, <3>1, <3>2
  <2> QED BY <1>5, <1>6, <2>1, <2>2, <2>3
<1>8. /\ pos' \in [Task -> {"user", "down", "got", "gone"}]
      /\ \A u \in Task : pos'[u] = IF u = t THEN "down" ELSE pos[u]
  BY <1>1, <1>3 DEF TypeOK
<1>9. /\ hp' \in [CPU -> Task \cup {NULL}] /\ inh_task' \in [Task -> Task \cup {NULL}]
      /\ \A d \in CPU : hp'[d] = hp[d] \/ (d = c /\ hp'[d] = t)
      /\ \A u \in Task : inh_task'[u] = inh_task[u]
                         \/ (u = holder /\ holder # NULL /\ inh_task'[u] = t)
      /\ tif' \subseteq Task \cup CPU /\ ipi' \subseteq CPU
  <2>1. /\ hp' = hp \/ hp' = [hp EXCEPT ![c] = t]
        /\ \/ inh_task' = inh_task
           \/ holder # NULL /\ inh_task' = [inh_task EXCEPT ![holder] = t]
        /\ \E need : preempt(need, c, c, kernel_np)
    BY <1>3, <1>4 DEF pi_block
  <2>2. tif' \subseteq Task \cup CPU /\ ipi' \subseteq CPU
    BY <1>1, <2>1, Preempt
  <2>3. /\ hp \in [CPU -> Task \cup {NULL}] /\ inh_task \in [Task -> Task \cup {NULL}]
        /\ holder \in Task \cup {NULL}
    BY <1>1 DEF TypeOK
  <2> QED BY <2>1, <2>2, <2>3
<1>10. TypeOK'
  <2>1. count' \in Int /\ state' \subseteq Task
    BY <1>1, <1>3 DEF TypeOK
  <2> QED BY <1>1, <1>3, <1>5, <1>8, <1>9, <2>1 DEF TypeOK
<1>11. Placed'
  BY <1>3, PlacedKept
<1>12. Outside'
  BY <1>1, <1>3, <1>4, <1>8 DEF Outside
<1>13. Returning'
  <2>1. \A u \in on_rq' : u \in state' \/ ceil'[u] # "no" \/ pos'[u] = "down"
    <3>1. on_rq \subseteq Task
      BY <1>1 DEF TypeOK
    <3> QED BY <1>1, <1>3, <1>8, <3>1 DEF Returning
  <2>2. \A u \in Task : pos'[u] = "down" =>
          u \in setup'.fmlp /\ u \notin tail' /\ ceil'[u] = "no"
    BY <1>1, <1>3, <1>4, <1>8 DEF Returning
  <2> QED BY <1>1, <1>3, <2>1, <2>2 DEF Returning, Tested
<1>14. Inside' = Inside /\ Waking' = {} /\ \A u \in Task : is_np(u)' <=> is_np(u)
  BY <1>3 DEF Inside, Waking, is_np
<1>15. Semaphore'
  <2>1. \A u \in Task : u \in Range(wait') <=> pos'[u] \in {"down", "got"}
    BY <1>1, <1>6, <1>8 DEF Semaphore
  <2>2. \A i, j \in 1 .. Len(wait') : wait'[i] = wait'[j] => i = j
    <3>1. \A i \in 1 .. Len(wait) : wait[i] \in Range(wait)
      BY <1>5 DEF Range
    <3>2. \A i, j \in 1 .. Len(wait) : wait[i] = wait[j] => i = j
      BY <1>1 DEF Semaphore
    <3> QED BY <1>5, <1>6, <3>1, <3>2
  <2>3. count' = 1 - Len(wait') - (IF Inside' = {} THEN 0 ELSE 1)
    <3>1. count = 1 - Len(wait) - (IF Inside = {} THEN 0 ELSE 1)
      BY <1>1 DEF Semaphore
    <3> QED BY <1>3, <1>5, <1>14, <3>1
  <2>4. NpIsOwner'
    <3>1. NpIsOwner
      BY <1>1 DEF Semaphore
    <3>2. (\A u \in Task : sec[u] # "fmlp") <=> Inside = {}
      BY DEF Inside
    <3> QED BY <1>3, <1>5, <1>7, <1>14, <3>1, <3>2 DEF NpIsOwner
  <2>5. \A u \in Task : pos'[u] = "down" /\ u \in state' => is_np(u)
    BY <1>1, <1>3, <1>8 DEF Semaphore
  <2>6. \A u \in Task : pos'[u] = "got" => pos[u] = "got"
    BY <1>8
  <2>7. \A u \in Task : pos'[u] # "user" => sec'[u] = "no"
    BY <1>1, <1>3, <1>8 DEF Semaphore
  <2> QED BY <1>1, <1>3, <1>14, <2>1, <2>2, <2>3, <2>4, <2>5, <2>6, <2>7 DEF Semaphore
<1>16. Inherited'
  <2>1. holder # NULL => holder \in Inside /\ is_np(holder)
    BY <1>1 DEF Inherited, Semaphore, NpIsOwner, Inside
  <2>2. \A d \in CPU : hp'[d] # NULL => hp'[d] \in Claims(d)'
    BY <1>1, <1>3, <1>4, <1>6, <1>9 DEF Inherited, Claims
  <2>3. ASSUME NEW u \in Task, inh_task'[u] # NULL
        PROVE  is_np(u)' /\ (sec'[inh_task'[u]] = "fmlp" \/ inh_task'[u] \in Range(wait'))
    <3>1. inh_task'[u] \in Task
      BY <1>9, <2>3
    <3> QED BY <1>1, <1>3, <1>6, <1>9, <1>14, <2>1, <2>3, <3>1 DEF Inherited
  <2> QED BY <1>3, <1>14, <2>1, <2>2, <2>3 DEF Inherited
<1>17. Stacked'
  BY <1>3, StackedKept
<1>18. Blocking'
  <2>1. \A u \in Task : Tested(u)' <=> Tested(u)
    BY <1>3 DEF Tested
  <2> QED BY <1>3, <1>4, <2>1, BlockingKept
<1>19. HandedOver'
  BY <1>1, <1>3, <1>7, <1>14 DEF HandedOver
<1> QED BY <1>1, <1>3, <1>10, <1>11, <1>12, <1>13, <1>15, <1>16, <1>17, <1>18, <1>19 DEF IInv

\* down() when the semaphore is free: the task is in its critical section.
LEMMA FmlpDownEnters ==
  ASSUME IInv, NEW c \in CPU, fmlp_down(c), UNCHANGED <<setup, srpVars>>,
         ~(count' < 0 \/ wait # <<>>)
  PROVE  IInv'
<1>1. TypeOK /\ Semaphore /\ Inherited /\ Outside /\ Returning /\ ~panic
  BY DEF IInv
<1>2. PICK t \in Task : t = curr[c]
  BY CurrentTask DEF fmlp_down, InUser
<1>3. /\ InUser(t) /\ t \in setup.fmlp /\ sec[t] = "no" /\ Waking = {}
      /\ count' = count - 1 /\ holder' = t /\ hp' = [hp EXCEPT ![c] = t]
      /\ inherit_priority(t, hp')
      /\ sec' = [sec EXCEPT ![t] = "fmlp"]
      /\ UNCHANGED <<wait, pos, state, sigVars>>
      /\ UNCHANGED <<now, rt, on_rq, jobVars, queueVars, scheduled, curr, tail,
                     active, ceil, waking, panic>>
  BY <1>2 DEF fmlp_down
<1>4. t \in rt /\ Home[t] = c /\ pos[t] = "user" /\ NULL \notin Task
  BY <1>2, <1>3, CurrentTask DEF InUser
<1>5. wait = <<>> /\ Inside = {} /\ count = 1
  <2>1. wait = <<>> /\ Len(wait) = 0 /\ count \in Int /\ ~(count - 1 < 0)
    BY <1>1, <1>3 DEF TypeOK
  <2>2. count = 1 - Len(wait) - (IF Inside = {} THEN 0 ELSE 1)
    BY <1>1 DEF Semaphore
  <2> QED BY <2>1, <2>2
<1>6. \A u \in Task : ~is_np(u) /\ kernel_np[u] = 0 /\ inh_task[u] = NULL
  <2>1. \A u \in Task : ~is_np(u)
    BY <1>1, <1>5 DEF Semaphore, NpIsOwner, Inside
  <2>2. \A u \in Task : kernel_np[u] = 0
    BY <1>1, <2>1 DEF TypeOK, is_np
  <2> QED BY <1>1, <2>1, <2>2 DEF Inherited
<1>7. /\ kernel_np' = [kernel_np EXCEPT ![t] = kernel_np[t] + 1]
      /\ inh_task' = [inh_task EXCEPT ![t] = hp'[Home[t]]]
  BY <1>3 DEF inherit_priority, make_np
<1>8. /\ kernel_np' \in [Task -> 0 .. 1]
      /\ \A u \in Task : kernel_np'[u] = IF u = t THEN 1 ELSE 0
  BY <1>1, <1>6, <1>7 DEF TypeOK
<1>9. /\ hp' \in [CPU -> Task \cup {NULL}]
      /\ \A d \in CPU : hp'[d] = IF d = c THEN t ELSE hp[d]
  BY <1>1, <1>3 DEF TypeOK
<1>10. /\ inh_task' \in [Task -> Task \cup {NULL}]
       /\ \A u \in Task : inh_task'[u] = IF u = t THEN t ELSE NULL
  BY <1>1, <1>4, <1>6, <1>7, <1>9 DEF TypeOK
<1>11. /\ sec' \in [Task -> {"no", "fmlp"} \cup SrpSem]
       /\ \A u \in Task : sec'[u] = IF u = t THEN "fmlp" ELSE sec[u]
  BY <1>1, <1>3 DEF TypeOK
<1>12. Inside' = {t}
  BY <1>5, <1>11 DEF Inside
<1>13. TypeOK'
  BY <1>1, <1>3, <1>8, <1>9, <1>10, <1>11 DEF TypeOK
<1>14. Placed'
  BY <1>3, PlacedKept
<1>15. Outside' /\ Returning'
  BY <1>1, <1>3, <1>4, <1>11 DEF Outside, Returning, Tested
<1>16. \A u \in Task : is_np(u)' <=> u = t
  BY <1>8 DEF is_np
<1>17. Semaphore'
  <2>1. NpIsOwner'
    <3>1. \A u \in Task : sec'[u] = "fmlp" <=> u = t
      BY <1>5, <1>11 DEF Inside
    <3> QED BY <1>16, <3>1 DEF NpIsOwner
  <2>2. count' = 1 - Len(wait') - (IF Inside' = {} THEN 0 ELSE 1)
    <3>1. count' = 0 /\ Len(wait') = 0 /\ Inside' # {}
      BY <1>3, <1>5, <1>12
    <3> QED BY <3>1
  <2>3. \A u \in Task : pos'[u] \notin {"down", "got"} /\ u \notin Range(wait')
    <3>1. \A u \in Task : u \notin Range(wait)
      BY <1>5 DEF Range
    <3> QED BY <1>1, <1>3, <3>1 DEF Semaphore
  <2>4. \A u \in Task : pos'[u] # "user" => sec'[u] = "no"
    BY <1>1, <1>3, <1>4, <1>11 DEF Semaphore
  <2>5. \A i, j \in 1 .. Len(wait') : wait'[i] = wait'[j] => i = j
    BY <1>3, <1>5
  <2>6. Waking' = {}
    BY <1>3 DEF Waking
  <2> QED BY <1>12, <2>1, <2>2, <2>3, <2>4, <2>5, <2>6 DEF Semaphore
<1>18. Inherited'
  <2>1. \A d \in CPU : hp'[d] # NULL => hp'[d] \in Claims(d)'
    BY <1>1, <1>3, <1>4, <1>9, <1>11 DEF Inherited, Claims
  <2>2. ASSUME NEW u \in Task, inh_task'[u] # NULL
        PROVE  is_np(u)' /\ (sec'[inh_task'[u]] = "fmlp" \/ inh_task'[u] \in Range(wait'))
    BY <1>10, <1>11, <1>16, <2>2
  <2> QED BY <1>3, <1>12, <2>1, <2>2 DEF Inherited
<1>19. Stacked'
  <2>1. \A u \in Task, s \in SrpSem : sec'[u] = s <=> sec[u] = s
    BY <1>3, <1>11, ConstantsAssumption
  <2> QED BY <1>3, <2>1, StackedFmlp
<1>20. Blocking'
  <2>1. \A u \in Task : Tested(u)' <=> Tested(u)
    BY <1>3 DEF Tested
  <2> QED BY <1>3, <2>1, BlockingKept
<1>21. HandedOver'
  BY <1>12 DEF HandedOver
<1> QED BY <1>1, <1>3, <1>13, <1>14, <1>15, <1>17, <1>18, <1>19, <1>20, <1>21 DEF IInv

\* Who returns from schedule() in down() is the first waiter, and nobody is in
\* the critical section.
LEMMA GotIsOwner ==
  ASSUME IInv, NEW c \in CPU, fmlp_got(c)
  PROVE  /\ curr[c] \in Task /\ pos[curr[c]] = "got" /\ is_np(curr[c])
         /\ Inside = {} /\ wait # <<>> /\ Head(wait) = curr[c] /\ curr[c] \in state
         /\ sec[curr[c]] = "no" /\ curr[c] \in rt
<1>1. TypeOK /\ Semaphore /\ Returning /\ Placed
  BY DEF IInv
<1>2. PICK t \in Task : t = curr[c]
  BY CurrentTask DEF fmlp_got
<1>3. pos[t] = "got" /\ ceil[t] = "no" /\ t \in on_rq /\ t \in rt
  BY <1>1, <1>2 DEF fmlp_got, Placed
<1>4. is_np(t) /\ sec[t] = "no" /\ t \in state
  BY <1>1, <1>3 DEF Semaphore, Returning
<1> QED BY <1>1, <1>2, <1>3, <1>4 DEF Semaphore, NpIsOwner, Inside

\* The first waiter is in the wait queue once: without it, the others move up.
LEMMA FirstDeleted ==
  ASSUME IInv, wait # <<>>, NEW t \in Task, t = Head(wait)
  PROVE  /\ list_del(wait, t) \in Seq(Task) /\ Len(list_del(wait, t)) = Len(wait) - 1
         /\ \A i \in 1 .. (Len(wait) - 1) : list_del(wait, t)[i] = wait[i + 1]
<1>1. wait \in Seq(Task) /\ Len(wait) \in Nat /\ DOMAIN wait = 1 .. Len(wait)
  BY DEF IInv, TypeOK
<1>2. 1 \in 1 .. Len(wait) /\ wait[1] = t
  BY <1>1
<1>3. t \in Range(wait)
  BY <1>1, <1>2 DEF Range
<1>4. PICK k \in 1 .. Len(wait) :
        /\ wait[k] = t
        /\ list_del(wait, t) \in Seq(Task) /\ Len(list_del(wait, t)) = Len(wait) - 1
        /\ \A i \in 1 .. (Len(wait) - 1) :
             list_del(wait, t)[i] = IF i < k THEN wait[i] ELSE wait[i + 1]
  BY <1>1, <1>3, ListDel, ZenonT(30)
<1>5. k = 1 /\ \A i \in 1 .. (Len(wait) - 1) : ~(i < 1)
  BY <1>2, <1>4 DEF IInv, Semaphore
<1> QED BY <1>4, <1>5

\* The new owner leaves the wait queue.
LEMMA FmlpGotStep ==
  ASSUME IInv, NEW c \in CPU, fmlp_got(c), UNCHANGED <<setup, srpVars>>
  PROVE  IInv'
<1>1. TypeOK /\ Semaphore /\ Inherited /\ Outside /\ Returning /\ ~panic
  BY DEF IInv
<1>2. PICK t \in Task : t = curr[c]
  BY GotIsOwner
<1>3. /\ pos[t] = "got" /\ is_np(t) /\ Inside = {} /\ wait # <<>> /\ Head(wait) = t
      /\ t \in state /\ sec[t] = "no" /\ t \in rt
  BY <1>2, GotIsOwner
<1>4. /\ wait' = list_del(wait, t)
      /\ pos' = [pos EXCEPT ![t] = "user"]
      /\ sec' = [sec EXCEPT ![t] = "fmlp"] /\ Waking = {}
      /\ UNCHANGED <<now, rt, state, on_rq, jobVars, prioVars, queueVars, scheduled,
                     curr, tail, active, ceil, sigVars, panic, count, holder, hp,
                     waking>>
  BY <1>2 DEF fmlp_got
<1>5. /\ wait \in Seq(Task) /\ Len(wait) \in Nat /\ 1 \in 1 .. Len(wait) /\ wait[1] = t
      /\ DOMAIN wait = 1 .. Len(wait) /\ t \in Range(wait)
  <2>1. wait \in Seq(Task) /\ Len(wait) \in Nat /\ DOMAIN wait = 1 .. Len(wait)
    BY <1>1 DEF TypeOK
  <2>2. 1 \in 1 .. Len(wait) /\ wait[1] = t
    BY <1>3, <2>1
  <2> QED BY <2>1, <2>2 DEF Range
<1>6. /\ wait' \in Seq(Task) /\ Len(wait') = Len(wait) - 1
      /\ \A i \in 1 .. (Len(wait) - 1) : wait'[i] = wait[i + 1]
  <2>1. /\ list_del(wait, t) \in Seq(Task) /\ Len(list_del(wait, t)) = Len(wait) - 1
        /\ \A i \in 1 .. (Len(wait) - 1) : list_del(wait, t)[i] = wait[i + 1]
    BY <1>3, FirstDeleted
  <2> QED BY <1>4, <2>1
<1>7. /\ \A u \in Task : u \in Range(wait') <=> u \in Range(wait) /\ u # t
      /\ \A i, j \in 1 .. Len(wait') : wait'[i] = wait'[j] => i = j
  <2>1. \A i, j \in 1 .. Len(wait) : wait[i] = wait[j] => i = j
    BY <1>1 DEF Semaphore
  <2>2. DOMAIN wait' = 1 .. (Len(wait) - 1)
    BY <1>6
  <2>3. \A i \in 1 .. (Len(wait) - 1) : i + 1 \in 1 .. Len(wait) /\ i + 1 # 1
    BY <1>5
  <2>4. \A i \in 1 .. Len(wait) : i # 1 => i - 1 \in 1 .. (Len(wait) - 1) /\ (i - 1) + 1 = i
    BY <1>5
  <2>5. \A u \in Range(wait') : u \in Range(wait) /\ u # t
    BY <1>5, <1>6, <2>1, <2>2, <2>3 DEF Range
  <2>6. \A u \in Range(wait) : u # t => u \in Range(wait')
    <3>1. ASSUME NEW i \in 1 .. Len(wait), wait[i] # t PROVE wait[i] \in Range(wait')
      <4>1. i # 1
        BY <1>5, <3>1
      <4>2. wait'[i - 1] = wait[i]
        BY <1>6, <2>4, <4>1
      <4> QED BY <2>2, <2>4, <4>1, <4>2 DEF Range
    <3> QED BY <1>5, <3>1 DEF Range
  <2>7. \A i, j \in 1 .. Len(wait') : wait'[i] = wait'[j] => i = j
    BY <1>5, <1>6, <2>1, <2>3
  <2> QED BY <2>5, <2>6, <2>7
<1>8. /\ pos' \in [Task -> {"user", "down", "got", "gone"}]
      /\ \A u \in Task : pos'[u] = IF u = t THEN "user" ELSE pos[u]
      /\ sec' \in [Task -> {"no", "fmlp"} \cup SrpSem]
      /\ \A u \in Task : sec'[u] = IF u = t THEN "fmlp" ELSE sec[u]
  BY <1>1, <1>4 DEF TypeOK
<1>9. Inside' = {t}
  BY <1>3, <1>8 DEF Inside
<1>10. TypeOK'
  BY <1>1, <1>4, <1>6, <1>8 DEF TypeOK
<1>11. Placed'
  BY <1>4, PlacedKept
<1>12. Outside'
  BY <1>1, <1>3, <1>4, <1>8 DEF Outside
<1>13. Returning'
  <2>1. \A u \in on_rq' : u \in state' \/ ceil'[u] # "no" \/ pos'[u] = "down"
    <3>1. on_rq \subseteq Task
      BY <1>1 DEF TypeOK
    <3> QED BY <1>1, <1>3, <1>4, <1>8, <3>1 DEF Returning
  <2>2. \A u \in Task : pos'[u] = "down" => pos[u] = "down"
    BY <1>8
  <2> QED BY <1>1, <1>4, <2>1, <2>2 DEF Returning, Tested
<1>14. \A u \in Task : (is_np(u)' <=> is_np(u)) /\ (is_np(u) <=> u = t)
  <2>1. \A u \in Task : is_np(u)' <=> is_np(u)
    BY <1>4 DEF is_np
  <2>2. \A u \in Task : is_np(u) <=> u = t
    BY <1>1, <1>3 DEF Semaphore, NpIsOwner, Inside
  <2> QED BY <2>1, <2>2
<1>15. Semaphore'
  <2>1. NpIsOwner'
    <3>1. \A u \in Task : sec'[u] = "fmlp" <=> u = t
      BY <1>3, <1>8 DEF Inside
    <3> QED BY <1>14, <3>1 DEF NpIsOwner
  <2>2. count' = 1 - Len(wait') - (IF Inside' = {} THEN 0 ELSE 1)
    <3>1. count = 1 - Len(wait) - 0
      BY <1>1, <1>3 DEF Semaphore
    <3>2. Inside' # {} /\ count' = count
      BY <1>4, <1>9
    <3> QED BY <1>5, <1>6, <3>1, <3>2
  <2>3. \A u \in Task : u \in Range(wait') <=> pos'[u] \in {"down", "got"}
    BY <1>1, <1>7, <1>8 DEF Semaphore
  <2>4. \A u \in Task : pos'[u] # "user" => sec'[u] = "no"
    BY <1>1, <1>8 DEF Semaphore
  <2>5. Waking' = {}
    BY <1>4 DEF Waking
  <2>6. \A u \in Task : pos'[u] = "down" /\ u \in state' => is_np(u)'
    BY <1>1, <1>4, <1>8, <1>14 DEF Semaphore
  <2>7. \A u \in Task : pos'[u] = "got" /\ (u \in on_rq' \/ ceil'[u] # "no") => is_np(u)'
    BY <1>1, <1>4, <1>8, <1>14 DEF Semaphore
  <2> QED BY <1>7, <1>9, <2>1, <2>2, <2>3, <2>4, <2>5, <2>6, <2>7 DEF Semaphore
<1>16. Inherited'
  <2>1. holder' = NULL
    BY <1>1, <1>3, <1>4 DEF Inherited
  <2>2. \A d \in CPU : hp'[d] # NULL => hp'[d] \in Claims(d)'
    BY <1>1, <1>4, <1>7, <1>8 DEF Inherited, Claims
  <2>3. ASSUME NEW u \in Task, inh_task'[u] # NULL
        PROVE  is_np(u)' /\ (sec'[inh_task'[u]] = "fmlp" \/ inh_task'[u] \in Range(wait'))
    <3>1. inh_task[u] \in Task /\ inh_task'[u] = inh_task[u]
      BY <1>1, <1>4, <2>3 DEF TypeOK
    <3> QED BY <1>1, <1>7, <1>8, <1>14, <2>3, <3>1 DEF Inherited
  <2> QED BY <2>1, <2>2, <2>3 DEF Inherited
<1>17. Stacked'
  <2>1. \A u \in Task, s \in SrpSem : sec'[u] = s <=> sec[u] = s
    BY <1>3, <1>8, ConstantsAssumption
  <2> QED BY <1>4, <2>1, StackedFmlp
<1>18. Blocking'
  <2>1. \A u \in Task : Tested(u)' <=> Tested(u)
    BY <1>4 DEF Tested
  <2> QED BY <1>4, <2>1, BlockingKept
<1>19. HandedOver'
  BY <1>9 DEF HandedOver
<1> QED BY <1>1, <1>4, <1>10, <1>11, <1>12, <1>13, <1>15, <1>16, <1>17, <1>18, <1>19 DEF IInv

\* Waiters are real-time tasks.
LEMMA WaitersOfRealTime ==
  ASSUME IInv, NEW u \in Range(wait)
  PROVE  u \in Task /\ u \in rt /\ pos[u] \in {"down", "got"} /\ sec[u] = "no"
<1>1. wait \in Seq(Task)
  BY DEF IInv, TypeOK
<1>2. u \in Task
  BY <1>1 DEF Range
<1>3. pos[u] \in {"down", "got"}
  BY <1>2 DEF IInv, Semaphore
<1> QED BY <1>2, <1>3 DEF IInv, Semaphore, Outside

\* up() finds the next candidate for inheritance among the waiters.
LEMMA NewHighest ==
  ASSUME IInv, NEW c \in CPU
  PROVE  \/ edf_set_hp_cpu_task(c) = NULL
         \/ edf_set_hp_cpu_task(c) \in Range(wait) /\ Home[edf_set_hp_cpu_task(c)] = c
<1> DEFINE Q == {u \in Range(wait) : Home[u] = c}
<1>1. edf_set_hp_cpu_task(c) = take_ready(job, inh_task, Q)
  BY DEF edf_set_hp_cpu_task
<1>2. CASE Q = {}
  BY <1>1, <1>2 DEF take_ready
<1>3. CASE Q # {}
  <2>1. Q \in SUBSET Task /\ \A u \in Q : u \in rt /\ (inh_task[u] # NULL => inh_task[u] \in rt)
    BY WaitersOfRealTime, HeirsOfRealTime
  <2>2. job \in [Task -> Job] /\ inh_task \in [Task -> Task \cup {NULL}]
    BY DEF IInv, TypeOK, Job
  <2> HIDE DEF Q
  <2>3. take_ready(job, inh_task, Q) \in Q
    BY <1>3, <2>1, <2>2, TakeReady
  <2> QED BY <1>1, <2>3 DEF Q
<1> QED BY <1>2, <1>3

\* up() hands the semaphore to the first waiter.
LEMMA FmlpUpStep ==
  ASSUME IInv, NEW c \in CPU, fmlp_up(c), UNCHANGED <<setup, srpVars>>
  PROVE  IInv'
<1>1. TypeOK /\ Semaphore /\ Inherited /\ Outside /\ Returning /\ ~panic /\ NULL \notin Task
  BY ConstantsAssumption DEF IInv
<1>2. PICK t \in Task : t = curr[c]
  BY CurrentTask DEF fmlp_up, InUser
<1> DEFINE h == IF hp[c] = t THEN [hp EXCEPT ![c] = edf_set_hp_cpu_task(c)] ELSE hp
           w == IF wait = <<>> THEN NULL ELSE Head(wait)
           wakes == count + 1 < 1 /\ w # NULL
           np == [kernel_np EXCEPT ![t] = kernel_np[t] - 1]
           inh == [inh_task EXCEPT ![t] = NULL]
<1>3. /\ h = IF hp[c] = t THEN [hp EXCEPT ![c] = edf_set_hp_cpu_task(c)] ELSE hp
      /\ w = IF wait = <<>> THEN NULL ELSE Head(wait)
      /\ wakes <=> count + 1 < 1 /\ w # NULL
      /\ np = [kernel_np EXCEPT ![t] = kernel_np[t] - 1]
      /\ inh = [inh_task EXCEPT ![t] = NULL]
      /\ InUser(t) /\ sec[t] = "fmlp" /\ Waking = {}
      /\ hp' = h
      /\ \E need : preempt(need, c, c, np)
      /\ panic' = (panic \/ (np[t] # 0 \/ Converted(hp[c] = t, wakes)))
      /\ holder' = NULL
      /\ count' = count + 1
      /\ sec' = [sec EXCEPT ![t] = "no"]
      /\ flags' = IF wakes THEN [flags EXCEPT ![w] = "EXIT_SEM"] ELSE flags
      /\ inh_task' = IF wakes THEN [inh EXCEPT ![w] = h[Home[w]]] ELSE inh
      /\ kernel_np' = IF wakes THEN [np EXCEPT ![w] = np[w] + 1] ELSE np
      /\ waking' = [waking EXCEPT ![c] = IF wakes THEN w ELSE NULL]
  BY <1>2 DEF fmlp_up, take_np, make_np, BugOn
<1> HIDE DEF h, w, wakes, np, inh
<1>4. UNCHANGED <<now, rt, state, on_rq, job, spent, queueVars, scheduled, curr,
                  pos, tail, active, ceil, wait>>
  BY DEF fmlp_up
<1>5. t \in rt /\ Home[t] = c /\ pos[t] = "user" /\ t \notin Range(wait)
  <2>1. t \in rt /\ Home[t] = c /\ pos[t] = "user"
    BY <1>2, <1>3, CurrentTask DEF InUser
  <2> QED BY <1>1, <2>1 DEF Semaphore
<1>6. Inside = {t}
  BY <1>1, <1>3 DEF Semaphore, Inside
<1>7. \A u \in Task : /\ is_np(u) <=> u = t
                      /\ kernel_np[u] = IF u = t THEN 1 ELSE 0
                      /\ u # t => inh_task[u] = NULL
  <2>1. \A u \in Task : is_np(u) <=> u = t
    BY <1>1, <1>3, <1>6 DEF Semaphore, NpIsOwner, Inside
  <2>2. \A u \in Task : kernel_np[u] = IF u = t THEN 1 ELSE 0
    BY <1>1, <2>1 DEF TypeOK, is_np
  <2> QED BY <1>1, <2>1, <2>2 DEF Inherited
<1>8. /\ wait \in Seq(Task) /\ count = 0 - Len(wait) /\ Len(wait) \in Nat
      /\ wait # <<>> => w \in Task /\ w = Head(wait) /\ w \in Range(wait) /\ w # t
      /\ wakes <=> wait # <<>>
  <2>1. wait \in Seq(Task) /\ Len(wait) \in Nat
    BY <1>1 DEF TypeOK
  <2>2. count = 1 - Len(wait) - 1
    BY <1>1, <1>6 DEF Semaphore
  <2>3. wait # <<>> => w \in Task /\ w = Head(wait) /\ w \in Range(wait)
    BY <1>3, <2>1 DEF Range
  <2>4. wait # <<>> => Len(wait) > 0
    BY <2>1
  <2>5. wait = <<>> => w = NULL
    BY <1>3
  <2>6. wakes <=> wait # <<>>
    BY <1>1, <1>3, <2>1, <2>2, <2>3, <2>4, <2>5
  <2> QED BY <1>5, <2>1, <2>2, <2>3, <2>6
<1>9. panic' = FALSE
  <2>1. np[t] = 0
    BY <1>1, <1>3, <1>7 DEF TypeOK
  <2>2. \A u \in Range(wait) : kernel_np[u] = 0
    BY <1>5, <1>7, WaitersOfRealTime
  <2>3. ~Converted(hp[c] = t, wakes)
    BY <1>8, <2>2 DEF Converted
  <2> QED BY <1>1, <1>3, <2>1, <2>3
<1>10. /\ kernel_np' \in [Task -> 0 .. 1]
       /\ \A u \in Task : kernel_np'[u] = IF wait # <<>> /\ u = w THEN 1 ELSE 0
  <2>1. kernel_np \in [Task -> 0 .. 1]
    BY <1>1 DEF TypeOK
  <2>2. np \in [Task -> 0 .. 1] /\ \A u \in Task : np[u] = 0
    BY <1>3, <1>7, <2>1
  <2>3. CASE wait = <<>>
    BY <1>3, <1>8, <2>2, <2>3
  <2>4. CASE wait # <<>>
    <3>0. np[w] = 0 /\ np[w] + 1 = 1
      BY <1>8, <2>2, <2>4
    <3>1. kernel_np' = [np EXCEPT ![w] = 1]
      BY <1>3, <1>8, <2>4, <3>0
    <3> QED BY <1>8, <2>2, <2>4, <3>1
  <2> QED BY <2>3, <2>4
<1>11. /\ hp' \in [CPU -> Task \cup {NULL}]
       /\ \A d \in CPU : hp'[d] # NULL => hp'[d] \in Range(wait) /\ Home[hp'[d]] = d
  <2>1. hp \in [CPU -> Task \cup {NULL}]
    BY <1>1 DEF TypeOK
  <2>2. edf_set_hp_cpu_task(c) = NULL
        \/ /\ edf_set_hp_cpu_task(c) \in Task /\ edf_set_hp_cpu_task(c) \in Range(wait)
           /\ Home[edf_set_hp_cpu_task(c)] = c
    BY NewHighest, WaitersOfRealTime
  <2>3. \A d \in CPU : hp[d] # NULL /\ hp[d] # t => hp[d] \in Range(wait) /\ Home[hp[d]] = d
    BY <1>1, <1>6 DEF Inherited, Claims, Inside
  <2>4. \A d \in CPU : hp[d] = t => d = c
    BY <1>1, <1>5 DEF Inherited, Claims
  <2>5. \A d \in CPU : hp'[d] = IF d = c /\ hp[c] = t THEN edf_set_hp_cpu_task(c) ELSE hp[d]
    BY <1>3, <2>1
  <2>6. hp' \in [CPU -> Task \cup {NULL}]
    BY <1>3, <2>1, <2>2
  <2> QED BY <2>2, <2>3, <2>4, <2>5, <2>6
<1>12. /\ inh_task' \in [Task -> Task \cup {NULL}]
       /\ \A u \in Task : inh_task'[u] = IF wait # <<>> /\ u = w THEN hp'[Home[w]] ELSE NULL
  <2>1. inh_task \in [Task -> Task \cup {NULL}]
    BY <1>1 DEF TypeOK
  <2>2. inh \in [Task -> Task \cup {NULL}] /\ \A u \in Task : inh[u] = NULL
    BY <1>3, <1>7, <2>1
  <2>3. CASE wait = <<>>
    BY <1>3, <1>8, <2>2, <2>3
  <2>4. CASE wait # <<>>
    <3>1. h[Home[w]] \in Task \cup {NULL} /\ h[Home[w]] = hp'[Home[w]]
      BY <1>3, <1>8, <1>11, <2>4, ConstantsAssumption
    <3> QED BY <1>3, <1>8, <2>2, <2>4, <3>1, SMTT(30)
  <2> QED BY <2>3, <2>4
<1>13. /\ sec' \in [Task -> {"no", "fmlp"} \cup SrpSem]
       /\ \A u \in Task : sec'[u] = IF u = t THEN "no" ELSE sec[u]
       /\ flags' \in [Task -> {"RUNNING", "SLEEP", "EXIT_SEM"}]
       /\ waking' \in [CPU -> Task \cup {NULL}]
       /\ \A d \in CPU : waking'[d] = IF d = c /\ wait # <<>> THEN w ELSE NULL
  <2>1. \A d \in CPU : waking[d] = NULL
    BY <1>3 DEF Waking
  <2>2. /\ sec \in [Task -> {"no", "fmlp"} \cup SrpSem]
        /\ flags \in [Task -> {"RUNNING", "SLEEP", "EXIT_SEM"}]
        /\ waking \in [CPU -> Task \cup {NULL}]
    BY <1>1 DEF TypeOK
  <2>3. (IF wakes THEN w ELSE NULL) \in Task \cup {NULL}
    BY <1>8
  <2> QED BY <1>3, <1>8, <2>1, <2>2, <2>3
<1>14. tif' \subseteq Task \cup CPU /\ ipi' \subseteq CPU
  BY <1>1, <1>3, Preempt
<1>15. TypeOK'
  <2>1. count' \in Int /\ holder' \in Task \cup {NULL} /\ panic' \in BOOLEAN
    BY <1>1, <1>3, <1>9 DEF TypeOK
  <2> QED BY <1>1, <1>4, <1>10, <1>11, <1>12, <1>13, <1>14, <2>1 DEF TypeOK
<1>16. Placed'
  BY <1>4, PlacedKept
<1>17. Outside' /\ Returning'
  BY <1>1, <1>4, <1>5, <1>13 DEF Outside, Returning, Tested
<1>18. Inside' = {} /\ \A u \in Task : is_np(u)' <=> wait # <<>> /\ u = w
  BY <1>6, <1>10, <1>13 DEF Inside, is_np
<1>19. Waking' = IF wait # <<>> THEN {c} ELSE {}
  BY <1>1, <1>8, <1>13 DEF Waking
<1>20. Semaphore'
  <2>1. NpIsOwner'
    <3>1. \A u \in Task : sec'[u] # "fmlp"
      BY <1>18 DEF Inside
    <3> QED BY <1>4, <1>8, <1>18, <3>1 DEF NpIsOwner
  <2>2. count' = 1 - Len(wait') - (IF Inside' = {} THEN 0 ELSE 1)
    BY <1>3, <1>4, <1>8, <1>18
  <2>3. \A u \in Task : pos'[u] # "user" => sec'[u] = "no"
    BY <1>1, <1>4, <1>13 DEF Semaphore
  <2>4. \A u \in Task : ~(pos'[u] = "down" /\ u \in state')
    BY <1>1, <1>4, <1>5, <1>7 DEF Semaphore
  <2>5. \A u \in Task : ~(pos'[u] = "got" /\ (u \in on_rq' \/ ceil'[u] # "no"))
    BY <1>1, <1>4, <1>5, <1>7 DEF Semaphore
  <2>6. \A d \in Waking' : Inside' = {} /\ wait' # <<>> /\ waking'[d] = Head(wait')
    BY <1>4, <1>8, <1>13, <1>18, <1>19
  <2>7. \A d, e \in Waking' : d = e
    BY <1>19
  <2>8. /\ \A u \in Task : u \in Range(wait') <=> pos'[u] \in {"down", "got"}
        /\ \A i, j \in 1 .. Len(wait') : wait'[i] = wait'[j] => i = j
    BY <1>1, <1>4 DEF Semaphore
  <2> QED BY <1>18, <2>1, <2>2, <2>3, <2>4, <2>5, <2>6, <2>7, <2>8 DEF Semaphore
<1>21. Inherited'
  <2>1. \A d \in CPU : hp'[d] # NULL => hp'[d] \in Claims(d)'
    BY <1>4, <1>11 DEF Claims
  <2>2. ASSUME NEW u \in Task, inh_task'[u] # NULL
        PROVE  is_np(u)' /\ (sec'[inh_task'[u]] = "fmlp" \/ inh_task'[u] \in Range(wait'))
    <3>1. wait # <<>> /\ u = w /\ inh_task'[u] = hp'[Home[w]] /\ Home[w] \in CPU
      BY <1>8, <1>12, <2>2, ConstantsAssumption
    <3> QED BY <1>4, <1>11, <1>18, <2>2, <3>1
  <2> QED BY <1>3, <2>1, <2>2 DEF Inherited
<1>22. Stacked'
  <2>1. \A u \in Task, s \in SrpSem : sec'[u] = s <=> sec[u] = s
    BY <1>3, <1>13, ConstantsAssumption
  <2> QED BY <2>1, StackedFmlp
<1>23. Blocking'
  <2>1. \A u \in Task : Tested(u)' <=> Tested(u)
    BY <1>4 DEF Tested
  <2> QED BY <1>4, <2>1, BlockingKept
<1>24. HandedOver'
  BY <1>4, <1>19 DEF HandedOver
<1> QED BY <1>9, <1>15, <1>16, <1>17, <1>20, <1>21, <1>22, <1>23, <1>24 DEF IInv
-----------------------------------------------------------------------------
(* SRP semaphores                                                          *)

\* A semaphore is opened while no ceiling is raised: no ceiling in force
\* changes.
LEMMA OpenStep ==
  ASSUME IInv, ~OpenHeld, NEW c \in CPU, NEW s \in SrpSem, open_srp_semaphore(c, s),
         UNCHANGED <<setup, fmlpVars>>
  PROVE  IInv'
<1>1. TypeOK /\ Placed /\ Outside /\ Stacked /\ Blocking /\ Returning /\ ~panic
  BY DEF IInv
<1>2. PICK t \in Task : t = curr[c]
  BY CurrentTask DEF open_srp_semaphore, InUser
<1>3. /\ InUser(t) /\ t \in setup.srp[s] /\ t \notin opened[s]
      /\ \A u \in opened[s] : Home[u] = c
      /\ srp[c] = <<>>
      /\ opened' = [opened EXCEPT ![s] = opened[s] \cup {t}]
      /\ ceiling' = [ceiling EXCEPT ![s] = IF srp_higher_prio(t, ceiling[s]) THEN t ELSE ceiling[s]]
      /\ UNCHANGED <<psnVars, owner, srp, ceiling_blocked>>
  BY <1>2 DEF open_srp_semaphore
<1>4. t \in rt /\ Home[t] = c /\ NULL \notin Task
  BY <1>2, CurrentTask
<1>5. /\ opened' \in [SrpSem -> SUBSET Task] /\ ceiling' \in [SrpSem -> Task \cup {NULL}]
      /\ \A x \in SrpSem : x # s => opened'[x] = opened[x] /\ ceiling'[x] = ceiling[x]
      /\ opened'[s] = opened[s] \cup {t}
      /\ ceiling'[s] = IF srp_higher_prio(t, ceiling[s]) THEN t ELSE ceiling[s]
      /\ opened[s] \subseteq Task /\ ceiling[s] \in Task \cup {NULL}
  BY <1>1, <1>3 DEF TypeOK
<1>6. \A d \in CPU : srp[d] \in Seq(SrpSem)
  BY <1>1 DEF TypeOK
<1>7. ASSUME NEW d \in CPU, NEW i \in 1 .. Len(srp[d])
      PROVE  srp[d][i] \in SrpSem /\ ceiling'[srp[d][i]] = ceiling[srp[d][i]]
  <2>1. PICK x \in SrpSem : x = srp[d][i]
    BY <1>6
  <2>2. owner[x] # NULL /\ Home[owner[x]] = d
    BY <1>1, <2>1 DEF Stacked
  <2>3. owner[x] \in opened[x]
    BY <1>1, <2>2 DEF Stacked
  <2>4. d # c
    BY <1>3
  <2> QED BY <1>3, <1>5, <2>1, <2>2, <2>3, <2>4
<1>8. \A d \in CPU, u \in Task :
        srp_exceeds_ceiling(u, srp[d], owner)' <=> srp_exceeds_ceiling(u, srp[d], owner)
  <2>1. ASSUME NEW d \in CPU, srp[d] # <<>> PROVE ceiling'[Head(srp[d])] = ceiling[Head(srp[d])]
    <3>1. 1 \in 1 .. Len(srp[d]) /\ Head(srp[d]) = srp[d][1]
      BY <1>6, <2>1
    <3> QED BY <1>7, <3>1
  <2> QED BY <1>3, <2>1 DEF srp_exceeds_ceiling, srp_higher_prio
<1>9. TypeOK'
  BY <1>1, <1>3, <1>5 DEF TypeOK
<1>10. Placed'
  BY <1>3, PlacedKept
<1>11. Outside' /\ Returning'
  BY <1>1, <1>3, <1>4, <1>5 DEF Outside, Returning, Tested
<1>12. Semaphore' /\ Inherited'
  BY <1>3, SemaphoreKept, InheritedKept
<1>13. Stacked'
  <2>1. ASSUME NEW x \in SrpSem, ceiling'[x] # NULL PROVE ceiling'[x] \in opened'[x]
    BY <1>1, <1>5, <2>1 DEF Stacked
  <2>2. ASSUME NEW x \in SrpSem, NEW u \in opened'[x]
        PROVE  /\ u \in setup'.srp[x]
               /\ ceiling'[x] \in opened'[x] /\ ~srp_higher_prio(u, ceiling'[x])
               /\ \A v \in opened'[x] : Home[u] = Home[v]
    <3>1. CASE x # s
      BY <1>1, <1>5, <2>2, <3>1 DEF Stacked
    <3>2. CASE x = s
      <4>1. u \in Task /\ u \in setup.srp[s] /\ \A v \in opened'[s] : Home[u] = Home[v]
        BY <1>1, <1>3, <1>4, <1>5, <2>2, <3>2 DEF Stacked
      <4>2. CASE srp_higher_prio(t, ceiling[s])
        <5>1. ceiling'[s] = t
          BY <1>5, <4>2
        <5>2. u # t => ~srp_higher_prio(u, ceiling[s])
          BY <1>1, <1>5, <2>2, <3>2 DEF Stacked
        <5>3. ~srp_higher_prio(u, t)
          BY <1>5, <4>1, <4>2, <5>2, Levels
        <5> QED BY <1>5, <3>2, <4>1, <5>1, <5>3
      <4>3. CASE ~srp_higher_prio(t, ceiling[s])
        <5>1. ceiling'[s] = ceiling[s] /\ ceiling[s] # NULL
          BY <1>4, <1>5, <4>3 DEF srp_higher_prio
        <5>2. ceiling[s] \in opened[s]
          BY <1>1, <5>1 DEF Stacked
        <5>3. ~srp_higher_prio(u, ceiling[s])
          BY <1>1, <1>5, <2>2, <3>2, <4>3 DEF Stacked
        <5> QED BY <1>5, <3>2, <4>1, <5>1, <5>2, <5>3
      <4> QED BY <4>2, <4>3
    <3> QED BY <3>1, <3>2
  <2>3. \A x \in SrpSem : opened[x] \subseteq opened'[x]
    BY <1>5
  <2>4. \A d \in CPU : \A i \in 1 .. Len(srp[d]) :
          /\ owner[srp[d][i]] # NULL /\ Home[owner[srp[d][i]]] = d
          /\ \A j \in 1 .. Len(srp[d]) : i < j =>
               srp_higher_prio(owner[srp[d][i]], ceiling'[srp[d][j]])
    BY <1>1, <1>7 DEF Stacked
  <2>5. UNCHANGED <<owner, srp, sec>>
    BY <1>3
  <2>6. /\ \A x \in SrpSem, u \in Task : owner'[x] = u <=> sec'[u] = x
        /\ \A x \in SrpSem : owner'[x] # NULL =>
             owner'[x] \in opened'[x] /\ x \in Range(srp'[Home[owner'[x]]])
    BY <1>1, <2>3, <2>5 DEF Stacked
  <2>7. \A a, b : srp_higher_prio(a, b)' <=> srp_higher_prio(a, b)
    BY DEF srp_higher_prio
  <2> QED BY <2>1, <2>2, <2>4, <2>5, <2>6 DEF Stacked, srp_higher_prio
<1>14. Blocking'
  <2>1. \A d \in CPU, u \in Task :
          u \in ceiling_blocked'[d] <=> Home[u] = d /\ ceil'[u] # "no"
    BY <1>1, <1>3 DEF Blocking
  <2>2. \A d \in CPU : ceiling_blocked[d] \subseteq Task
    BY <1>1 DEF TypeOK
  <2>3. \A d \in CPU : \A u \in ceiling_blocked'[d] \ state' :
          ~srp_exceeds_ceiling(u, srp[d], owner)'
    BY <1>1, <1>3, <1>8, <2>2 DEF Blocking
  <2>4. ASSUME NEW d \in CPU, NEW u \in Task, curr'[d] = u, Tested(u)'
        PROVE  srp_exceeds_ceiling(u, srp[d], owner)' \/ \A x \in SrpSem : u \notin opened'[x]
    <3>1. curr[d] = u /\ Tested(u)
      BY <1>3, <2>4 DEF Tested
    <3>2. \/ srp_exceeds_ceiling(u, srp[d], owner)
          \/ \A x \in SrpSem : u \notin opened[x]
      BY <1>1, <3>1 DEF Blocking
    <3>3. CASE u = t
      <4>1. d = c
        BY <1>1, <1>4, <3>1, <3>3 DEF Placed
      <4> QED BY <1>3, <1>8, <4>1 DEF srp_exceeds_ceiling
    <3>4. CASE u # t
      BY <1>5, <1>8, <3>2, <3>4
    <3> QED BY <3>3, <3>4
  <2> QED BY <2>1, <2>3, <2>4 DEF Blocking
<1>15. HandedOver'
  BY <1>3, HandedOverKept DEF Waking
<1> QED BY <1>1, <1>3, <1>9, <1>10, <1>11, <1>12, <1>13, <1>14, <1>15 DEF IInv

\* Who exceeds the ceiling of a processor exceeds those of all semaphores held
\* there.
LEMMA AboveAll ==
  ASSUME IInv, NEW c \in CPU, NEW t \in Task, srp[c] # <<>>,
         srp_higher_prio(t, ceiling[Head(srp[c])])
  PROVE  \A i \in 1 .. Len(srp[c]) : srp_higher_prio(t, ceiling[srp[c][i]])
<1>1. TypeOK /\ Stacked
  BY DEF IInv
<1>2. /\ srp[c] \in Seq(SrpSem) /\ Len(srp[c]) \in Nat /\ 1 \in 1 .. Len(srp[c])
      /\ Head(srp[c]) = srp[c][1]
      /\ \A i \in 1 .. Len(srp[c]) : srp[c][i] \in SrpSem
  BY <1>1 DEF TypeOK
<1>3. PICK x \in SrpSem : x = srp[c][1]
  BY <1>2
<1>4. /\ owner[x] # NULL /\ owner[x] \in opened[x] /\ owner[x] \in Task
      /\ ~srp_higher_prio(owner[x], ceiling[x]) /\ ceiling[x] \in Task \cup {NULL}
  BY <1>1, <1>2, <1>3 DEF Stacked, TypeOK
<1>5. srp_higher_prio(t, owner[x])
  BY <1>2, <1>3, <1>4, Levels
<1>6. ASSUME NEW i \in 1 .. Len(srp[c]), i # 1 PROVE srp_higher_prio(t, ceiling[srp[c][i]])
  <2>1. ceiling[srp[c][i]] \in Task \cup {NULL}
    BY <1>1, <1>2 DEF TypeOK
  <2>2. 1 < i
    BY <1>6
  <2>3. srp_higher_prio(owner[x], ceiling[srp[c][i]])
    BY <1>1, <1>2, <1>3, <2>2 DEF Stacked
  <2> QED BY <1>4, <1>5, <2>1, <2>3, Levels
<1> QED BY <1>2, <1>6

\* down() of a semaphore that others may have opened: its user is back in its
\* own code, so nobody holds it, and it becomes the top of the stack.
LEMMA SrpDownStep ==
  ASSUME IInv, NEW c \in CPU, NEW s \in SrpSem, srp_down(c, s),
         UNCHANGED <<setup, fmlpVars>>
  PROVE  IInv'
<1>1. TypeOK /\ Placed /\ Outside /\ Stacked /\ Blocking /\ Returning /\ ~panic
  BY DEF IInv
<1>2. PICK t \in Task : t = curr[c]
  BY CurrentTask DEF srp_down, InUser
<1>3. /\ InUser(t) /\ t \in opened[s] /\ sec[t] = "no"
      /\ srp' = IF s \in Range(srp[c]) THEN srp
                ELSE [srp EXCEPT ![c] = srp_add_prio(srp[c], s)]
      /\ panic' = (panic \/ (s \in Range(srp[c]) \/ owner[s] # NULL))
      /\ owner' = [owner EXCEPT ![s] = t]
      /\ sec' = [sec EXCEPT ![t] = s]
      /\ UNCHANGED <<now, rt, state, on_rq, jobVars, prioVars, queueVars, scheduled,
                     curr, pos, tail, active, ceil, sigVars, ceiling, opened,
                     ceiling_blocked>>
  BY <1>2 DEF srp_down, BugOn
<1>4. /\ t \in rt /\ Home[t] = c /\ NULL \notin Task /\ Tested(t) /\ pos[t] = "user"
      /\ s \notin {"no", "fmlp"}
  BY <1>2, <1>3, CurrentTask, ConstantsAssumption DEF InUser, Tested
<1>5. /\ srp[c] \in Seq(SrpSem) /\ Len(srp[c]) \in Nat
      /\ DOMAIN srp[c] = 1 .. Len(srp[c])
      /\ \A i \in 1 .. Len(srp[c]) : srp[c][i] \in SrpSem
      /\ srp[c] # <<>> => 1 \in 1 .. Len(srp[c]) /\ Head(srp[c]) = srp[c][1]
      /\ ceiling \in [SrpSem -> Task \cup {NULL}]
  BY <1>1 DEF TypeOK
<1>6. ceiling[s] \in opened[s] /\ ceiling[s] \in Task /\ ~srp_higher_prio(t, ceiling[s])
  BY <1>1, <1>3 DEF Stacked, TypeOK
<1>7. srp[c] # <<>> => srp_higher_prio(t, ceiling[Head(srp[c])])
  <2>1. srp_exceeds_ceiling(t, srp[c], owner)
    BY <1>1, <1>2, <1>3, <1>4 DEF Blocking
  <2>2. \A x \in SrpSem : owner[x] # t
    BY <1>1, <1>3, ConstantsAssumption DEF Stacked
  <2> QED BY <1>5, <2>1, <2>2 DEF srp_exceeds_ceiling
<1>8. \A i \in 1 .. Len(srp[c]) : srp_higher_prio(t, ceiling[srp[c][i]])
  <2>1. CASE srp[c] = <<>>
    BY <2>1
  <2>2. CASE srp[c] # <<>>
    BY <1>7, <2>2, AboveAll
  <2> QED BY <2>1, <2>2
<1>9. s \notin Range(srp[c])
  BY <1>5, <1>6, <1>8 DEF Range
<1>10. owner[s] = NULL
  <2>1. SUFFICES ASSUME owner[s] # NULL PROVE FALSE
    OBVIOUS
  <2>2. owner[s] \in opened[s] /\ s \in Range(srp[Home[owner[s]]])
    BY <1>1, <2>1 DEF Stacked
  <2>3. Home[owner[s]] = c
    BY <1>1, <1>3, <1>4, <2>2 DEF Stacked
  <2> QED BY <1>9, <2>2, <2>3
<1>11. srp[c] # <<>> => srp_higher_prio(ceiling[s], ceiling[srp[c][1]])
  <2>1. SUFFICES ASSUME srp[c] # <<>> PROVE srp_higher_prio(ceiling[s], ceiling[srp[c][1]])
    OBVIOUS
  <2>2. srp_higher_prio(t, ceiling[srp[c][1]]) /\ ceiling[srp[c][1]] \in Task \cup {NULL}
    BY <1>5, <1>7, <2>1
  <2> QED BY <1>6, <2>2, Levels
<1>12. /\ srp' = [srp EXCEPT ![c] = srp'[c]] /\ srp'[c] \in Seq(SrpSem)
       /\ Len(srp'[c]) = Len(srp[c]) + 1 /\ srp'[c][1] = s
       /\ \A i \in 1 .. Len(srp[c]) : srp'[c][i + 1] = srp[c][i]
  <2> DEFINE before == {i \in 1 .. Len(srp[c]) :
                          \A j \in 1 .. i : ~srp_higher_prio(ceiling[s], ceiling[srp[c][j]])}
             h == SubSeq(srp[c], 1, 0) \o <<s>> \o SubSeq(srp[c], 1, Len(srp[c]))
  <2>1. before = {}
    <3>1. SUFFICES ASSUME NEW i \in before PROVE FALSE
      OBVIOUS
    <3>2. i \in 1 .. Len(srp[c]) /\ 1 \in 1 .. i /\ srp[c] # <<>>
      BY <1>5
    <3> QED BY <1>11, <3>2
  <2>2. Cardinality(before) = 0
    BY <2>1, FS_EmptySet
  <2>3. srp_add_prio(srp[c], s) = h
    <3>1. srp_add_prio(srp[c], s)
            = SubSeq(srp[c], 1, Cardinality(before)) \o <<s>> \o
              SubSeq(srp[c], Cardinality(before) + 1, Len(srp[c]))
      BY DEF srp_add_prio
    <3> HIDE DEF before
    <3> QED BY <2>2, <3>1
  <2>4. /\ h \in Seq(SrpSem) /\ Len(h) = Len(srp[c]) + 1 /\ h[1] = s
        /\ \A i \in 1 .. Len(srp[c]) : h[i + 1] = srp[c][i]
    BY <1>5
  <2>5. srp' = [srp EXCEPT ![c] = h] /\ srp'[c] = h
    BY <1>1, <1>3, <1>9, <2>3 DEF TypeOK
  <2> HIDE DEF h
  <2> QED BY <2>4, <2>5
<1>13. /\ srp' \in [CPU -> Seq(SrpSem)]
       /\ \A d \in CPU : d # c => srp'[d] = srp[d]
  <2>1. srp \in [CPU -> Seq(SrpSem)]
    BY <1>1 DEF TypeOK
  <2> QED BY <1>12, <2>1
<1>14. /\ owner' \in [SrpSem -> Task \cup {NULL}]
       /\ sec' \in [Task -> {"no", "fmlp"} \cup SrpSem]
       /\ \A x \in SrpSem : owner'[x] = IF x = s THEN t ELSE owner[x]
       /\ \A u \in Task : sec'[u] = IF u = t THEN s ELSE sec[u]
  BY <1>1, <1>3 DEF TypeOK
<1>15. panic' = FALSE
  BY <1>1, <1>3, <1>9, <1>10
<1>16. TypeOK'
  BY <1>1, <1>3, <1>13, <1>14, <1>15 DEF TypeOK
<1>17. Placed'
  BY <1>3, PlacedKept
<1>18. Outside' /\ Returning'
  BY <1>1, <1>3, <1>4, <1>14 DEF Outside, Returning, Tested
<1>19. Semaphore' /\ Inherited' /\ HandedOver'
  <2>1. \A u \in Task : sec'[u] = sec[u] \/ (pos[u] = "user" /\ sec'[u] # "fmlp" /\ sec[u] # "fmlp")
    BY <1>3, <1>4, <1>14
  <2>2. Waking' = Waking
    BY DEF Waking
  <2> QED BY <1>3, <2>1, <2>2, SemaphoreKept, InheritedKept, HandedOverKept
<1>20. ASSUME NEW d \in CPU, NEW i \in 1 .. Len(srp[d])
       PROVE  srp[d][i] \in SrpSem /\ owner'[srp[d][i]] = owner[srp[d][i]]
  <2>1. srp[d][i] \in SrpSem
    BY <1>1 DEF TypeOK
  <2>2. owner[srp[d][i]] # NULL
    BY <1>1 DEF Stacked
  <2> QED BY <1>10, <1>14, <2>1, <2>2
<1>21. Stacked'
  <2>1. ASSUME NEW x \in SrpSem, NEW u \in Task PROVE owner'[x] = u <=> sec'[u] = x
    BY <1>1, <1>3, <1>4, <1>10, <1>14, ConstantsAssumption DEF Stacked
  <2>2. ASSUME NEW x \in SrpSem, owner'[x] # NULL
        PROVE  owner'[x] \in opened[x] /\ x \in Range(srp'[Home[owner'[x]]])
    <3>1. CASE x = s
      <4>1. 1 \in DOMAIN srp'[c]
        BY <1>5, <1>12
      <4> QED BY <1>3, <1>4, <1>12, <1>14, <3>1, <4>1, SMTT(30) DEF Range
    <3>2. CASE x # s
      <4>1. PICK u \in Task : u = owner[x]
        BY <1>1, <1>14, <2>2, <3>2 DEF TypeOK
      <4>2. /\ owner'[x] = u /\ u \in opened[x] /\ x \in Range(srp[Home[u]])
            /\ Home[u] \in CPU
        BY <1>1, <1>14, <2>2, <3>2, <4>1, ConstantsAssumption DEF Stacked
      <4>3. CASE Home[u] # c
        BY <1>13, <4>2, <4>3
      <4>4. CASE Home[u] = c
        <5>1. PICK i \in 1 .. Len(srp[c]) : srp[c][i] = x
          BY <1>5, <4>2, <4>4 DEF Range
        <5>2. i + 1 \in 1 .. Len(srp'[c]) /\ srp'[c][i + 1] = x
          BY <1>5, <1>12, <5>1
        <5>3. DOMAIN srp'[c] = 1 .. Len(srp'[c])
          BY <1>12
        <5> QED BY <4>2, <4>4, <5>2, <5>3 DEF Range
      <4> QED BY <4>3, <4>4
    <3> QED BY <3>1, <3>2
  <2>3. ASSUME NEW d \in CPU, NEW i \in 1 .. Len(srp'[d])
        PROVE  /\ owner'[srp'[d][i]] # NULL /\ Home[owner'[srp'[d][i]]] = d
               /\ \A j \in 1 .. Len(srp'[d]) : i < j =>
                    srp_higher_prio(owner'[srp'[d][i]], ceiling[srp'[d][j]])
    <3>1. CASE d # c
      BY <1>1, <1>13, <1>20, <3>1 DEF Stacked
    <3>2. CASE d = c
      <4>1. \A j \in 1 .. Len(srp'[c]) : j # 1 => j - 1 \in 1 .. Len(srp[c]) /\ srp'[c][j] = srp[c][j - 1]
        BY <1>5, <1>12
      <4>2. CASE i = 1
        <5>1. \A j \in 1 .. Len(srp'[c]) : i < j => j # 1
          BY <4>2
        <5>2. \A j \in 1 .. Len(srp'[c]) : i < j => srp_higher_prio(t, ceiling[srp'[c][j]])
          BY <1>8, <4>1, <5>1
        <5> QED BY <1>4, <1>12, <1>14, <3>2, <4>2, <5>2
      <4>3. CASE i # 1
        <5>1. PICK k \in 1 .. Len(srp[c]) : k = i - 1 /\ srp'[c][i] = srp[c][k]
          BY <3>2, <4>1, <4>3
        <5>2. /\ owner[srp[c][k]] # NULL /\ Home[owner[srp[c][k]]] = c
              /\ \A j \in 1 .. Len(srp[c]) : k < j =>
                   srp_higher_prio(owner[srp[c][k]], ceiling[srp[c][j]])
          BY <1>1 DEF Stacked
        <5>3. owner'[srp'[c][i]] = owner[srp[c][k]]
          BY <1>20, <5>1
        <5>4. ASSUME NEW j \in 1 .. Len(srp'[c]), i < j
              PROVE  j # 1 /\ k < j - 1
          BY <3>2, <5>1, <5>4
        <5>5. ASSUME NEW j \in 1 .. Len(srp'[c]), i < j
              PROVE  srp_higher_prio(owner'[srp'[c][i]], ceiling[srp'[c][j]])
          BY <4>1, <5>2, <5>3, <5>4, <5>5
        <5> QED BY <3>2, <5>2, <5>3, <5>5
      <4> QED BY <4>2, <4>3
    <3> QED BY <3>1, <3>2
  <2>4. UNCHANGED <<setup, ceiling, opened>>
    BY <1>3
  <2> QED BY <1>1, <2>1, <2>2, <2>3, <2>4 DEF Stacked, srp_higher_prio
<1>22. \A d \in CPU, u \in Task : d # c =>
         (srp_exceeds_ceiling(u, srp[d], owner)' <=> srp_exceeds_ceiling(u, srp[d], owner))
  <2>1. ASSUME NEW d \in CPU, srp[d] # <<>>
        PROVE  owner'[Head(srp[d])] = owner[Head(srp[d])]
    <3>1. srp[d] \in Seq(SrpSem)
      BY <1>1 DEF TypeOK
    <3>2. 1 \in 1 .. Len(srp[d]) /\ Head(srp[d]) = srp[d][1]
      BY <2>1, <3>1
    <3> QED BY <1>20, <3>2
  <2> QED BY <1>3, <1>13, <2>1 DEF srp_exceeds_ceiling, srp_higher_prio
<1>23. \A u \in Task : srp_exceeds_ceiling(u, srp[c], owner)' <=>
                         srp_higher_prio(u, ceiling[s]) \/ u = t
  <2>1. srp'[c] # <<>> /\ Head(srp'[c]) = s
    BY <1>5, <1>12
  <2> QED BY <1>3, <1>14, <2>1 DEF srp_exceeds_ceiling, srp_higher_prio
<1>24. Blocking'
  <2>1. \A d \in CPU, u \in Task :
          u \in ceiling_blocked'[d] <=> Home[u] = d /\ ceil'[u] # "no"
    BY <1>1, <1>3 DEF Blocking
  <2>2. ASSUME NEW d \in CPU, NEW u \in ceiling_blocked'[d] \ state'
        PROVE  ~srp_exceeds_ceiling(u, srp[d], owner)'
    <3>1. u \in Task /\ u \in ceiling_blocked[d] /\ u \notin state
      BY <1>1, <1>3 DEF TypeOK
    <3>2. ~srp_exceeds_ceiling(u, srp[d], owner) /\ ceil[u] # "no"
      BY <1>1, <3>1 DEF Blocking
    <3>3. CASE d # c
      BY <1>22, <3>1, <3>2, <3>3
    <3>4. CASE d = c
      <4>1. u # t
        BY <1>4, <3>2 DEF Tested
      <4>2. srp[c] # <<>> /\ ~srp_higher_prio(u, ceiling[srp[c][1]])
        BY <1>5, <3>2, <3>4 DEF srp_exceeds_ceiling
      <4>3. ceiling[srp[c][1]] \in Task \cup {NULL}
        BY <1>5, <4>2
      <4>4. ~srp_higher_prio(u, ceiling[s])
        BY <1>6, <1>11, <3>1, <4>2, <4>3, Levels
      <4> QED BY <1>23, <3>1, <3>4, <4>1, <4>4
    <3> QED BY <3>3, <3>4
  <2>3. ASSUME NEW d \in CPU, NEW u \in Task, curr'[d] = u, Tested(u)'
        PROVE  srp_exceeds_ceiling(u, srp[d], owner)' \/ \A x \in SrpSem : u \notin opened'[x]
    <3>1. curr[d] = u /\ Tested(u)
      BY <1>3, <2>3 DEF Tested
    <3>2. \/ srp_exceeds_ceiling(u, srp[d], owner)
          \/ \A x \in SrpSem : u \notin opened[x]
      BY <1>1, <3>1 DEF Blocking
    <3> QED BY <1>2, <1>3, <1>22, <1>23, <3>1, <3>2
  <2> QED BY <2>1, <2>2, <2>3 DEF Blocking
<1> QED BY <1>15, <1>16, <1>17, <1>18, <1>19, <1>21, <1>24 DEF IInv

\* up(): the semaphore is the top of the stack, and everybody who exceeds the
\* next ceiling wakes up.
LEMMA SrpUpStep ==
  ASSUME IInv, NEW c \in CPU, NEW s \in SrpSem, srp_up(c, s),
         UNCHANGED <<setup, fmlpVars>>
  PROVE  IInv'
<1>1. TypeOK /\ Placed /\ Outside /\ Stacked /\ Blocking /\ Returning /\ ~panic
  BY DEF IInv
<1>2. PICK t \in Task : t = curr[c]
  BY CurrentTask DEF srp_up, InUser
<1>3. PICK ws :
      /\ ws = {w \in ceiling_blocked[c] :
                 srp_exceeds_ceiling(w, list_del(srp[c], s), [owner EXCEPT ![s] = NULL])}
      /\ InUser(t) /\ sec[t] = s
      /\ srp' = [srp EXCEPT ![c] = list_del(srp[c], s)]
      /\ owner' = [owner EXCEPT ![s] = NULL]
      /\ sec' = [sec EXCEPT ![t] = "no"]
      /\ try_to_wake_up(ws, c, c, s \notin Range(srp[c]))
      /\ UNCHANGED <<now, rt, prioVars, scheduled, curr, pos, tail, active, ceil,
                     ceiling, opened, ceiling_blocked>>
  BY <1>2 DEF srp_up, srp_wake_up
<1>4. /\ t \in rt /\ Home[t] = c /\ NULL \notin Task /\ Tested(t) /\ pos[t] = "user"
      /\ s \notin {"no", "fmlp"} /\ "no" \notin SrpSem
  BY <1>2, <1>3, CurrentTask, ConstantsAssumption DEF InUser, Tested
<1>5. /\ srp[c] \in Seq(SrpSem) /\ Len(srp[c]) \in Nat
      /\ DOMAIN srp[c] = 1 .. Len(srp[c])
      /\ \A i \in 1 .. Len(srp[c]) : srp[c][i] \in SrpSem
      /\ srp[c] # <<>> => 1 \in 1 .. Len(srp[c]) /\ Head(srp[c]) = srp[c][1]
      /\ ceiling \in [SrpSem -> Task \cup {NULL}]
  BY <1>1 DEF TypeOK
<1>6. /\ owner[s] = t /\ t \in opened[s] /\ s \in Range(srp[c])
      /\ ~srp_higher_prio(t, ceiling[s])
  <2>1. owner[s] = t
    BY <1>1, <1>3 DEF Stacked
  <2> QED BY <1>1, <1>4, <2>1 DEF Stacked
<1>7. srp[c] # <<>> /\ srp[c][1] = s
  <2>1. PICK i \in 1 .. Len(srp[c]) : srp[c][i] = s
    BY <1>5, <1>6 DEF Range
  <2>2. srp[c] # <<>>
    BY <1>5, <2>1
  <2>3. ~srp_higher_prio(t, ceiling[Head(srp[c])])
    BY <1>6, <2>1, <2>2, AboveAll
  <2>4. srp_exceeds_ceiling(t, srp[c], owner)
    BY <1>1, <1>2, <1>4, <1>6 DEF Blocking
  <2>5. owner[srp[c][1]] = t
    BY <1>5, <2>2, <2>3, <2>4 DEF srp_exceeds_ceiling
  <2> QED BY <1>1, <1>3, <1>5, <2>2, <2>5 DEF Stacked
<1>8. \A i \in 1 .. Len(srp[c]) : srp[c][i] = s => i = 1
  <2>1. SUFFICES ASSUME NEW i \in 1 .. Len(srp[c]), srp[c][i] = s, i # 1 PROVE FALSE
    OBVIOUS
  <2>2. 1 < i
    BY <2>1
  <2>3. srp_higher_prio(t, ceiling[s])
    BY <1>1, <1>5, <1>6, <1>7, <2>1, <2>2 DEF Stacked
  <2> QED BY <1>6, <2>3
<1>9. /\ srp'[c] \in Seq(SrpSem) /\ Len(srp'[c]) = Len(srp[c]) - 1
      /\ \A i \in 1 .. (Len(srp[c]) - 1) : srp'[c][i] = srp[c][i + 1]
      /\ srp' \in [CPU -> Seq(SrpSem)]
      /\ \A d \in CPU : d # c => srp'[d] = srp[d]
      /\ srp'[c] = list_del(srp[c], s)
  <2>1. PICK k \in 1 .. Len(srp[c]) :
          /\ srp[c][k] = s
          /\ list_del(srp[c], s) \in Seq(SrpSem) /\ Len(list_del(srp[c], s)) = Len(srp[c]) - 1
          /\ \A i \in 1 .. (Len(srp[c]) - 1) :
               list_del(srp[c], s)[i] = IF i < k THEN srp[c][i] ELSE srp[c][i + 1]
    BY <1>5, <1>6, ListDel
  <2>2. k = 1 /\ \A i \in 1 .. (Len(srp[c]) - 1) : ~(i < 1)
    BY <1>8, <2>1
  <2>3. \A i \in 1 .. (Len(srp[c]) - 1) : list_del(srp[c], s)[i] = srp[c][i + 1]
    BY <2>1, <2>2
  <2>4. srp \in [CPU -> Seq(SrpSem)]
    BY <1>1 DEF TypeOK
  <2>5. srp'[c] = list_del(srp[c], s)
    BY <1>3, <2>4
  <2> QED BY <1>3, <2>1, <2>3, <2>4, <2>5
<1>10. /\ owner' \in [SrpSem -> Task \cup {NULL}]
       /\ sec' \in [Task -> {"no", "fmlp"} \cup SrpSem]
       /\ \A x \in SrpSem : owner'[x] = IF x = s THEN NULL ELSE owner[x]
       /\ \A u \in Task : sec'[u] = IF u = t THEN "no" ELSE sec[u]
  BY <1>1, <1>3 DEF TypeOK
<1>11. ws \in SUBSET Task /\ \A w \in ws : Home[w] = c /\ ceil[w] # "no"
  BY <1>1, <1>3 DEF TypeOK, Blocking
<1>12. /\ Placed' /\ QueuesTyped' /\ panic' = FALSE
       /\ state' = state \cup ws /\ on_rq' = on_rq \cup ws
  <2>1. (s \notin Range(srp[c])) = FALSE /\ FALSE \in BOOLEAN
    BY <1>6
  <2>2. try_to_wake_up(ws, c, c, FALSE)
    BY <1>3, <2>1
  <2> QED BY <1>3, <1>11, <2>1, <2>2, WakeUp, ZenonT(30)
<1>13. TypeOK'
  <2>1. state' \subseteq Task /\ on_rq' \subseteq Task
    BY <1>1, <1>11, <1>12 DEF TypeOK
  <2>2. scheduled' \in [CPU -> Task \cup {NULL}]
    BY <1>1, <1>3 DEF TypeOK
  <2> QED BY <1>1, <1>3, <1>9, <1>10, <1>12, <2>1, <2>2 DEF TypeOK, QueuesTyped, Job
<1>14. Outside' /\ Returning'
  <2>1. Outside'
    BY <1>1, <1>3, <1>4, <1>10, <1>12 DEF Outside
  <2>2. \A u \in on_rq' : u \in state' \/ ceil'[u] # "no" \/ pos'[u] = "down"
    BY <1>1, <1>3, <1>11, <1>12 DEF Returning
  <2> QED BY <1>1, <1>3, <2>1, <2>2 DEF Returning, Tested
<1>15. Semaphore' /\ Inherited' /\ HandedOver'
  <2>1. \A u \in Task : sec'[u] = sec[u] \/ (pos[u] = "user" /\ sec'[u] # "fmlp" /\ sec[u] # "fmlp")
    BY <1>3, <1>4, <1>10
  <2>2. Waking' = Waking
    BY DEF Waking
  <2>3. \A u \in Task : pos[u] = "down" /\ u \in state' => u \in state
    BY <1>1, <1>11, <1>12 DEF Returning
  <2>4. \A u \in Task : pos[u] = "got" /\ (u \in on_rq' \/ ceil'[u] # "no") =>
                          u \in on_rq \/ ceil[u] # "no"
    BY <1>3, <1>11, <1>12
  <2>5. \A u \in Range(wait) : u \in state => u \in state'
    BY <1>12
  <2> QED BY <1>3, <2>1, <2>2, <2>3, <2>4, <2>5, SemaphoreKept, InheritedKept, HandedOverKept
<1>16. ASSUME NEW d \in CPU, NEW i \in 1 .. Len(srp'[d])
       PROVE  \E k \in 1 .. Len(srp[d]) :
                /\ srp'[d][i] = srp[d][k] /\ k = IF d = c THEN i + 1 ELSE i
                /\ srp[d][k] \in SrpSem /\ srp[d][k] # s
                /\ owner'[srp[d][k]] = owner[srp[d][k]]
  <2>1. CASE d # c
    <3>1. srp'[d] = srp[d] /\ srp[d][i] \in SrpSem
      BY <1>1, <1>9, <2>1 DEF TypeOK
    <3>2. Home[owner[srp[d][i]]] = d
      BY <1>1, <3>1 DEF Stacked
    <3>3. srp[d][i] # s
      BY <1>4, <1>6, <2>1, <3>2
    <3> QED BY <1>10, <2>1, <3>1, <3>3
  <2>2. CASE d = c
    <3>1. /\ i \in 1 .. (Len(srp[c]) - 1) /\ i + 1 \in 1 .. Len(srp[c]) /\ i + 1 # 1
          /\ srp'[c][i] = srp[c][i + 1]
      BY <1>5, <1>9, <2>2
    <3>2. srp[c][i + 1] # s /\ srp[c][i + 1] \in SrpSem
      BY <1>5, <1>8, <3>1
    <3> QED BY <1>10, <2>2, <3>1, <3>2
  <2> QED BY <2>1, <2>2
<1>17. Stacked'
  <2>1. ASSUME NEW x \in SrpSem, NEW u \in Task PROVE owner'[x] = u <=> sec'[u] = x
    BY <1>1, <1>3, <1>4, <1>6, <1>10 DEF Stacked
  <2>2. ASSUME NEW x \in SrpSem, owner'[x] # NULL
        PROVE  owner'[x] \in opened[x] /\ x \in Range(srp'[Home[owner'[x]]])
    <3>1. PICK u \in Task : u = owner[x]
      BY <1>1, <1>10, <2>2 DEF TypeOK
    <3>2. /\ x # s /\ owner'[x] = u /\ u \in opened[x] /\ x \in Range(srp[Home[u]])
          /\ Home[u] \in CPU
      BY <1>1, <1>10, <2>2, <3>1, ConstantsAssumption DEF Stacked
    <3>3. CASE Home[u] # c
      BY <1>9, <3>2, <3>3
    <3>4. CASE Home[u] = c
      <4>1. PICK i \in 1 .. Len(srp[c]) : srp[c][i] = x
        BY <1>5, <3>2, <3>4 DEF Range
      <4>2. i # 1
        BY <1>7, <3>2, <4>1
      <4>3. /\ i - 1 \in 1 .. (Len(srp[c]) - 1) /\ (i - 1) + 1 = i
        BY <1>5, <4>1, <4>2
      <4>4. srp'[c][i - 1] = x
        BY <1>9, <4>1, <4>3
      <4>5. DOMAIN srp'[c] = 1 .. (Len(srp[c]) - 1)
        BY <1>9
      <4> QED BY <3>2, <3>4, <4>3, <4>4, <4>5 DEF Range
    <3> QED BY <3>3, <3>4
  <2>3. ASSUME NEW d \in CPU, NEW i \in 1 .. Len(srp'[d])
        PROVE  /\ owner'[srp'[d][i]] # NULL /\ Home[owner'[srp'[d][i]]] = d
               /\ \A j \in 1 .. Len(srp'[d]) : i < j =>
                    srp_higher_prio(owner'[srp'[d][i]], ceiling[srp'[d][j]])
    <3>1. PICK k \in 1 .. Len(srp[d]) :
            /\ srp'[d][i] = srp[d][k] /\ k = IF d = c THEN i + 1 ELSE i
            /\ owner'[srp[d][k]] = owner[srp[d][k]]
      BY <1>16
    <3>2. /\ owner[srp[d][k]] # NULL /\ Home[owner[srp[d][k]]] = d
          /\ \A m \in 1 .. Len(srp[d]) : k < m =>
               srp_higher_prio(owner[srp[d][k]], ceiling[srp[d][m]])
      BY <1>1 DEF Stacked
    <3>3. ASSUME NEW j \in 1 .. Len(srp'[d]), i < j
          PROVE  srp_higher_prio(owner'[srp'[d][i]], ceiling[srp'[d][j]])
      <4>1. PICK m \in 1 .. Len(srp[d]) :
              srp'[d][j] = srp[d][m] /\ m = IF d = c THEN j + 1 ELSE j
        BY <1>16
      <4>2. k < m
        BY <3>1, <3>3, <4>1
      <4> QED BY <3>1, <3>2, <4>1, <4>2
    <3> QED BY <3>1, <3>2, <3>3
  <2>4. UNCHANGED <<setup, ceiling, opened>>
    BY <1>3
  <2> QED BY <1>1, <2>1, <2>2, <2>3, <2>4 DEF Stacked, srp_higher_prio
<1>18. Blocking'
  <2>1. \A d \in CPU, u \in Task :
          u \in ceiling_blocked'[d] <=> Home[u] = d /\ ceil'[u] # "no"
    BY <1>1, <1>3 DEF Blocking
  <2>2. \A d \in CPU, u \in Task : d # c =>
         (srp_exceeds_ceiling(u, srp[d], owner)' <=> srp_exceeds_ceiling(u, srp[d], owner))
    <3>1. ASSUME NEW d \in CPU, d # c, srp[d] # <<>>
          PROVE  owner'[Head(srp[d])] = owner[Head(srp[d])]
      <4>1. srp[d] \in Seq(SrpSem) /\ srp'[d] = srp[d]
        BY <1>1, <1>9, <3>1 DEF TypeOK
      <4>2. 1 \in 1 .. Len(srp'[d]) /\ Head(srp[d]) = srp[d][1]
        BY <3>1, <4>1
      <4> QED BY <1>16, <3>1, <4>1, <4>2
    <3> QED BY <1>3, <1>9, <3>1 DEF srp_exceeds_ceiling, srp_higher_prio
  <2>3. ASSUME NEW d \in CPU, NEW u \in ceiling_blocked'[d] \ state'
        PROVE  ~srp_exceeds_ceiling(u, srp[d], owner)'
    <3>1. u \in Task /\ u \in ceiling_blocked[d] /\ u \notin state /\ u \notin ws
      BY <1>1, <1>3, <1>12 DEF TypeOK
    <3>2. CASE d # c
      <4>1. ~srp_exceeds_ceiling(u, srp[d], owner)
        BY <1>1, <3>1 DEF Blocking
      <4> QED BY <2>2, <3>1, <3>2, <4>1
    <3>3. CASE d = c
      <4>1. ~srp_exceeds_ceiling(u, list_del(srp[c], s), [owner EXCEPT ![s] = NULL])
        BY <1>3, <3>1, <3>3
      <4>2. ~srp_exceeds_ceiling(u, srp'[c], owner')
        BY <1>3, <1>9, <4>1
      <4>3. ceiling' = ceiling
        BY <1>3
      <4> QED BY <3>3, <4>2, <4>3 DEF srp_exceeds_ceiling, srp_higher_prio
    <3> QED BY <3>2, <3>3
  <2>4. srp_exceeds_ceiling(t, srp[c], owner)'
    <3>1. CASE srp'[c] = <<>>
      BY <3>1 DEF srp_exceeds_ceiling
    <3>2. CASE srp'[c] # <<>>
      <4>1. 1 \in 1 .. (Len(srp[c]) - 1) /\ Head(srp'[c]) = srp'[c][1]
        BY <1>5, <1>9, <3>2
      <4>2. 2 \in 1 .. Len(srp[c]) /\ srp'[c][1] = srp[c][2] /\ 1 \in 1 .. Len(srp[c]) /\ 1 < 2
        BY <1>5, <1>9, <4>1
      <4>3. srp_higher_prio(t, ceiling[srp[c][2]])
        BY <1>1, <1>6, <1>7, <4>2 DEF Stacked
      <4> QED BY <1>3, <4>1, <4>2, <4>3 DEF srp_exceeds_ceiling, srp_higher_prio
    <3> QED BY <3>1, <3>2
  <2>5. ASSUME NEW d \in CPU, NEW u \in Task, curr'[d] = u, Tested(u)'
        PROVE  srp_exceeds_ceiling(u, srp[d], owner)' \/ \A x \in SrpSem : u \notin opened'[x]
    <3>1. curr[d] = u /\ Tested(u)
      BY <1>3, <2>5 DEF Tested
    <3>2. \/ srp_exceeds_ceiling(u, srp[d], owner)
          \/ \A x \in SrpSem : u \notin opened[x]
      BY <1>1, <3>1 DEF Blocking
    <3> QED BY <1>2, <1>3, <2>2, <2>4, <3>1, <3>2
  <2> QED BY <2>1, <2>3, <2>5 DEF Blocking
<1> QED BY <1>12, <1>13, <1>14, <1>15, <1>17, <1>18 DEF IInv

\* A task that is about to sleep in down() finds no ceiling raised.
LEMMA DownIsFree ==
  ASSUME IInv, SeparateUse, NEW c \in CPU, NEW t \in Task, t = curr[c],
         pos[t] = "down", active[t] # "no"
  PROVE  srp[c] = <<>>
<1>1. TypeOK /\ Placed /\ Stacked /\ Returning
  BY DEF IInv
<1>2. SUFFICES ASSUME srp[c] # <<>> PROVE FALSE
  OBVIOUS
<1>3. srp[c] \in Seq(SrpSem) /\ srp[c][1] \in SrpSem /\ 1 \in 1 .. Len(srp[c])
  BY <1>1, <1>2 DEF TypeOK
<1>4. PICK x \in SrpSem : x = srp[c][1]
  BY <1>3
<1>5. owner[x] # NULL /\ Home[owner[x]] = c
  BY <1>1, <1>3, <1>4 DEF Stacked
<1>6. owner[x] \in opened[x]
  BY <1>1, <1>5 DEF Stacked
<1>7. owner[x] \in setup.srp[x]
  BY <1>1, <1>6 DEF Stacked
<1>8. setup.preempt /\ t \in setup.fmlp /\ Home[t] = c /\ setup \in Setups
  BY <1>1 DEF Returning, Placed
<1> QED BY <1>5, <1>7, <1>8 DEF SeparateUse

\* The test at the end of schedule(): who passes it is awake, and who does not
\* is not on its way to sleep elsewhere.
LEMMA CeilingTestStep ==
  ASSUME IInv, SeparateUse, NEW c \in CPU, srp_ceiling_block(c) \/ ceiling_return(c),
         UNCHANGED <<setup, fmlpVars>>
  PROVE  IInv'
<1>1. TypeOK /\ Placed /\ Outside /\ Stacked /\ Blocking /\ Returning /\ Semaphore /\ HandedOver /\ ~panic
  BY DEF IInv
<1>2. PICK t \in Task : t = curr[c]
  BY CurrentTask DEF srp_ceiling_block, ceiling_return
<1>3. t \in rt /\ t \in on_rq /\ Home[t] = c /\ NULL \notin Task
  BY <1>1, <1>2, CurrentTask DEF Placed
<1>4. ceil[t] # "no" \/ active[t] # "no" \/ t \in tail
  BY <1>2 DEF srp_ceiling_block, ceiling_return
<1>5. PICK pass \in BOOLEAN :
      /\ pass <=> srp_exceeds_ceiling(t, srp[c], owner)
      /\ state' = IF pass THEN state ELSE state \ {t}
      /\ ceiling_blocked' = [ceiling_blocked EXCEPT ![c] =
                               IF pass THEN ceiling_blocked[c] \ {t}
                               ELSE ceiling_blocked[c] \cup {t}]
      /\ ceil' = [ceil EXCEPT ![t] = IF pass THEN "no" ELSE "prep"]
      /\ tail' = IF pass /\ active[t] = "no" THEN tail \ {t} ELSE tail
      /\ active' = IF pass THEN [active EXCEPT ![t] = "no"] ELSE active
      /\ UNCHANGED <<now, rt, on_rq, jobVars, prioVars, queueVars, scheduled, curr,
                     pos, sec, sigVars, panic, ceiling, opened, owner, srp>>
  <2>1. ceiling_test(c)
    BY DEF srp_ceiling_block, ceiling_return
  <2>2. srp_exceeds_ceiling(t, srp[c], owner) \in BOOLEAN
    BY DEF srp_exceeds_ceiling, srp_higher_prio
  <2> QED BY <1>2, <2>1, <2>2 DEF ceiling_test
<1>6. /\ ceil' \in [Task -> {"no", "prep", "ret"}] /\ tail' \subseteq tail
      /\ active' \in [Task -> {"no", "nest", "hold"}]
      /\ ceiling_blocked' \in [CPU -> SUBSET Task] /\ state' \subseteq state
      /\ \A u \in Task : u # t => /\ ceil'[u] = ceil[u] /\ active'[u] = active[u]
                                  /\ u \in state' <=> u \in state
                                  /\ u \in tail' <=> u \in tail
      /\ ceil'[t] = IF pass THEN "no" ELSE "prep"
      /\ active'[t] = IF pass THEN "no" ELSE active[t]
      /\ \A d \in CPU, u \in Task : u # t \/ d # c =>
           (u \in ceiling_blocked'[d] <=> u \in ceiling_blocked[d])
      /\ t \in ceiling_blocked'[c] <=> ~pass
  BY <1>1, <1>5 DEF TypeOK
<1>7. TypeOK'
  BY <1>1, <1>5, <1>6 DEF TypeOK
<1>8. Placed'
  BY <1>5, <1>6, PlacedKept
<1>9. Outside'
  BY <1>1, <1>3, <1>5, <1>6 DEF Outside
<1>10. pass /\ ceil[t] # "no" => t \in state
  <2>1. ceil[t] # "no" => t \in ceiling_blocked[c]
    BY <1>1, <1>3 DEF Blocking
  <2> QED BY <1>1, <1>5, <2>1 DEF Blocking
<1>11. ~pass => pos[t] # "down"
  <2>1. SUFFICES ASSUME pos[t] = "down" PROVE pass
    OBVIOUS
  <2>2. active[t] # "no"
    BY <1>1, <1>4, <2>1 DEF Returning
  <2>3. srp[c] = <<>>
    BY <1>2, <2>1, <2>2, DownIsFree
  <2> QED BY <1>5, <2>3 DEF srp_exceeds_ceiling
<1>12. Returning'
  <2>1. ASSUME NEW u \in rt', curr'[Home[u]] # u PROVE ~Tested(u)'
    <3>1. u \in Task /\ u \in rt /\ u # t /\ curr[Home[u]] # u
      BY <1>1, <1>2, <1>3, <1>5, <2>1 DEF TypeOK
    <3> QED BY <1>1, <1>6, <3>1 DEF Returning, Tested
  <2>2. \A u \in Task : pos'[u] = "down" =>
          u \in setup'.fmlp /\ u \notin tail' /\ ceil'[u] = "no"
    BY <1>1, <1>5, <1>6, <1>11 DEF Returning
  <2>3. \A u \in on_rq' : u \in state' \/ ceil'[u] # "no" \/ pos'[u] = "down"
    <3>1. on_rq \subseteq Task
      BY <1>1 DEF TypeOK
    <3>2. pass => state' = state
      BY <1>5
    <3> QED BY <1>1, <1>5, <1>6, <1>10, <3>1, <3>2 DEF Returning
  <2>4. \A u \in Task : active'[u] = "hold" => ceil'[u] # "no"
    BY <1>1, <1>6 DEF Returning
  <2>5. \A u \in Task : active'[u] # "no" => setup'.preempt
    BY <1>1, <1>6 DEF Returning
  <2> QED BY <2>1, <2>2, <2>3, <2>4, <2>5 DEF Returning
<1>13. Semaphore'
  <2>1. \A u \in Task : pos[u] = "got" /\ (u \in on_rq' \/ ceil'[u] # "no") =>
                          u \in on_rq \/ ceil[u] # "no"
    BY <1>3, <1>5, <1>6
  <2> QED BY <1>5, <1>6, <2>1, SemaphoreKept
<1>14. Inherited' /\ Stacked'
  BY <1>5, InheritedKept, StackedKept
<1>15. \A d \in CPU, u \in Task :
         srp_exceeds_ceiling(u, srp[d], owner)' <=> srp_exceeds_ceiling(u, srp[d], owner)
  BY <1>5 DEF srp_exceeds_ceiling, srp_higher_prio
<1>16. Blocking'
  <2>1. \A d \in CPU, u \in Task :
          u \in ceiling_blocked'[d] <=> Home[u] = d /\ ceil'[u] # "no"
    BY <1>1, <1>3, <1>6 DEF Blocking
  <2>2. ASSUME NEW d \in CPU, NEW u \in ceiling_blocked'[d] \ state'
        PROVE  ~srp_exceeds_ceiling(u, srp[d], owner)'
    <3>1. u \in Task /\ Home[u] = d
      BY <1>6, <2>1, <2>2
    <3>2. CASE u = t
      BY <1>3, <1>5, <1>6, <1>15, <2>2, <3>1, <3>2
    <3>3. CASE u # t
      BY <1>1, <1>6, <1>15, <2>2, <3>1, <3>3 DEF Blocking
    <3> QED BY <3>2, <3>3
  <2>3. ASSUME NEW d \in CPU, NEW u \in Task, curr'[d] = u, Tested(u)'
        PROVE  srp_exceeds_ceiling(u, srp[d], owner)' \/ \A x \in SrpSem : u \notin opened'[x]
    <3>1. curr[d] = u /\ opened' = opened /\ Home[u] = d
      BY <1>1, <1>5, <2>3 DEF Placed
    <3>2. CASE u = t
      BY <1>3, <1>5, <1>6, <1>15, <2>3, <3>1, <3>2 DEF Tested
    <3>3. CASE u # t
      <4>1. Tested(u)
        BY <1>6, <2>3, <3>3 DEF Tested
      <4> QED BY <1>1, <1>15, <3>1, <4>1 DEF Blocking
    <3> QED BY <3>2, <3>3
  <2> QED BY <2>1, <2>2, <2>3 DEF Blocking
<1>17. HandedOver'
  <2>1. Waking' = Waking /\ Inside' = Inside /\ wait' = wait
    BY <1>5 DEF Waking, Inside
  <2>2. wait # <<>> => Head(wait) \in Task
    <3>1. wait \in Seq(Task)
      BY <1>1 DEF TypeOK
    <3> QED BY <3>1
  <2>3. pass => state' = state
    BY <1>5
  <2> QED BY <1>1, <1>6, <1>10, <2>1, <2>2, <2>3 DEF HandedOver
<1> QED BY <1>1, <1>5, <1>7, <1>8, <1>9, <1>12, <1>13, <1>14, <1>16, <1>17 DEF IInv

-----------------------------------------------------------------------------
(* The theorems                                                            *)

\* Nothing is in use initially.
LEMMA InitInv == Init => IInv
<1> SUFFICES ASSUME Init PROVE IInv
  OBVIOUS
<1> USE DEF Init, psnInit, fmlpInit, srpInit
<1>1. /\ NULL \notin Task /\ "no" # "fmlp" /\ "no" \notin SrpSem
      /\ \A t \in Task : t # NULL
  BY ConstantsAssumption
<1>2. TypeOK
  <2>1. /\ now \in Nat /\ rt \subseteq Task /\ state \subseteq Task /\ on_rq \subseteq Task
        /\ flags \in [Task -> {"RUNNING", "SLEEP", "EXIT_SEM"}]
        /\ job \in [Task -> [release : Nat, deadline : Nat]]
        /\ spent \subseteq setup.enforced
        /\ kernel_np \in [Task -> 0 .. 1]
        /\ inh_task \in [Task -> Task \cup {NULL}]
    OBVIOUS
  <2>2. /\ ready \in [CPU -> SUBSET Task] /\ relq \in [CPU -> SUBSET Task]
        /\ scheduled \in [CPU -> Task \cup {NULL}] /\ curr \in [CPU -> Task \cup {NULL}]
        /\ pos \in [Task -> {"user", "down", "got", "gone"}]
        /\ tail \subseteq Task
        /\ active \in [Task -> {"no", "nest", "hold"}]
        /\ ceil \in [Task -> {"no", "prep", "ret"}]
        /\ sec \in [Task -> {"no", "fmlp"} \cup SrpSem]
        /\ tif \subseteq Task \cup CPU /\ ipi \subseteq CPU
    OBVIOUS
  <2>3. /\ count \in Int /\ holder \in Task \cup {NULL}
        /\ hp \in [CPU -> Task \cup {NULL}] /\ waking \in [CPU -> Task \cup {NULL}]
        /\ ceiling \in [SrpSem -> Task \cup {NULL}]
        /\ opened \in [SrpSem -> SUBSET Task]
        /\ owner \in [SrpSem -> Task \cup {NULL}]
        /\ ceiling_blocked \in [CPU -> SUBSET Task]
    OBVIOUS
  <2>5. panic \in BOOLEAN
    OBVIOUS
  <2>4. wait \in Seq(Task) /\ srp \in [CPU -> Seq(SrpSem)]
    <3>1. wait = <<>> /\ srp = [c \in CPU |-> <<>>]
      OBVIOUS
    <3>2. <<>> \in Seq(Task) /\ <<>> \in Seq(SrpSem)
      BY EmptySeq
    <3> QED BY <3>1, <3>2
  <2> QED BY <2>1, <2>2, <2>3, <2>4, <2>5 DEF TypeOK
<1>3. Placed
  BY <1>1 DEF Placed
<1>4. Outside /\ Returning
  BY <1>1 DEF Outside, Returning, Tested
<1>5. Semaphore
  <2>1. Inside = {} /\ Waking = {} /\ Len(wait) = 0 /\ \A t \in Task : ~is_np(t) /\ t \notin Range(wait)
    BY DEF Inside, Waking, is_np, Range
  <2> QED BY <2>1 DEF Semaphore, NpIsOwner, Inside
<1>6. Inherited
  BY DEF Inherited
<1>7. Stacked
  BY <1>1 DEF Stacked
<1>8. Blocking /\ HandedOver
  BY DEF Blocking, HandedOver
<1> QED BY <1>2, <1>3, <1>4, <1>5, <1>6, <1>7, <1>8 DEF IInv

\* Every step, of any task on any processor, keeps the invariant.
LEMMA NextStep == ASSUME SeparateUse, IInv, [Next]_vars PROVE IInv'
<1>1. CASE UNCHANGED vars
  <2>1. TypeOK /\ Placed /\ ~panic
    BY DEF IInv
  <2>2. Placed' /\ QueuesTyped' /\ panic' = FALSE /\ now' \in Nat
    BY <1>1, <2>1 DEF vars, TypeOK, Placed, QueuesTyped, Job
  <2> QED BY <1>1, <2>2, Quiet DEF vars
<1>2. CASE setup' = setup /\ psnNext(Waking) /\ UNCHANGED <<fmlpVars, srpVars>>
  <2>1. CASE \E t \in Task, e \in CPU \ Waking : task_new(t, e) \/ wake(t, e)
    BY <1>2, <2>1, TaskNewStep, WakeStep
  <2>2. CASE \E c \in CPU, e \in CPU \ Waking, r \in 0 .. now : on_release_timer(c, e, r)
    BY <1>2, <2>2, OnReleaseTimerStep
  <2>3. CASE clock
    BY <1>2, <2>3, SignalStep
  <2>4. ASSUME NEW c \in CPU \ Waking,
               \/ task_exit(c) \/ tick(c) \/ reschedule_interrupt(c) \/ schedule(c)
               \/ preempt_schedule(c) \/ complete_job(c) \/ block(c)
        PROVE  IInv'
    <3>1. CASE task_exit(c)
      BY <1>2, <3>1, TaskExitStep
    <3>2. CASE tick(c) \/ reschedule_interrupt(c)
      BY <1>2, <3>2, SignalStep
    <3>3. CASE schedule(c)
      BY <1>2, <3>3, ScheduleStep
    <3>4. CASE preempt_schedule(c)
      BY <1>2, <3>4, PreemptScheduleStep
    <3>5. CASE complete_job(c) \/ block(c)
      BY <1>2, <3>5, CompleteOrBlockStep
    <3> QED BY <2>4, <3>1, <3>2, <3>3, <3>4, <3>5
  <2> QED BY <1>2, <2>1, <2>2, <2>3, <2>4 DEF psnNext
<1>3. CASE setup' = setup /\ fmlpNext /\ UNCHANGED srpVars
  <2>1. PICK c \in CPU : \/ fmlp_down(c) \/ fmlp_suspend(c) \/ fmlp_got(c) \/ fmlp_up(c)
                         \/ fmlp_wake(c)
    BY <1>3 DEF fmlpNext
  <2>2. CASE fmlp_down(c)
    BY <1>3, <2>2, FmlpDownWaits, FmlpDownEnters
  <2>3. CASE fmlp_suspend(c)
    BY <1>3, <2>3, FmlpSuspendStep
  <2>4. CASE fmlp_got(c)
    BY <1>3, <2>4, FmlpGotStep
  <2>5. CASE fmlp_up(c)
    BY <1>3, <2>5, FmlpUpStep
  <2>6. CASE fmlp_wake(c)
    BY <1>3, <2>6, FmlpWakeStep
  <2> QED BY <2>1, <2>2, <2>3, <2>4, <2>5, <2>6
<1>4. CASE setup' = setup /\ srpNext(Waking) /\ UNCHANGED fmlpVars
  <2>1. PICK c \in CPU :
          \/ \E s \in SrpSem : open_srp_semaphore(c, s) \/ srp_down(c, s) \/ srp_up(c, s)
          \/ srp_ceiling_block(c) \/ ceiling_suspend(c) \/ ceiling_return(c)
    BY <1>4 DEF srpNext
  <2>2. ASSUME NEW s \in SrpSem, open_srp_semaphore(c, s) \/ srp_down(c, s) \/ srp_up(c, s)
        PROVE  IInv'
    <3>1. CASE open_srp_semaphore(c, s)
      BY <1>4, <3>1, OpenStep DEF SeparateUse
    <3>2. CASE srp_down(c, s)
      BY <1>4, <3>2, SrpDownStep
    <3>3. CASE srp_up(c, s)
      BY <1>4, <3>3, SrpUpStep
    <3> QED BY <2>2, <3>1, <3>2, <3>3
  <2>3. CASE srp_ceiling_block(c) \/ ceiling_return(c)
    BY <1>4, <2>3, CeilingTestStep
  <2>4. CASE ceiling_suspend(c)
    BY <1>4, <2>4, CeilingSuspendStep
  <2> QED BY <2>1, <2>2, <2>3, <2>4
<1> QED BY <1>1, <1>2, <1>3, <1>4 DEF Next

\* The parts of the invariant hold in every state of every use of the two
\* protocols that SeparateUse admits.
THEOREM Invariance == ASSUME SeparateUse PROVE Spec => []IInv
<1> QED BY InitInv, NextStep, PTL DEF Spec

\* Whatever the tasks do, no BUG_ON() and no WARN_ON() of the plugin or of the
\* two protocols fires.
THEOREM PanicFreedom == ASSUME SeparateUse PROVE Spec => []NoPanic
<1>1. IInv => NoPanic
  BY DEF IInv, NoPanic
<1> QED BY <1>1, Invariance, PTL

\* A runnable real-time task is in exactly one of the queues or current; a
\* deactivated one is in none.
THEOREM EveryTaskOnce == ASSUME SeparateUse PROVE Spec => []OnePlace
<1>1. ASSUME IInv PROVE OnePlace
  <2>1. TypeOK /\ Placed /\ NULL \notin Task
    BY <1>1, ConstantsAssumption DEF IInv
  <2>2. ASSUME NEW t \in rt PROVE Cardinality(Places(t)) = IF t \in on_rq THEN 1 ELSE 0
    <3>1. PICK h \in CPU : t \in Task /\ Home[t] = h
      BY <2>1, ConstantsAssumption DEF TypeOK
    <3>2. \A d \in CPU : /\ d # h \/ t \notin on_rq =>
                              t \notin ready[d] /\ t \notin relq[d] /\ scheduled[d] # t
                         /\ ~(t \in ready[d] /\ t \in relq[d])
                         /\ scheduled[d] = t => t \notin ready[d] /\ t \notin relq[d]
      BY <2>1, <3>1 DEF Placed
    <3>3. CASE t \notin on_rq
      <4>1. Places(t) = {}
        BY <3>2, <3>3 DEF Places
      <4> QED BY <3>3, <4>1, FS_EmptySet
    <3>4. CASE t \in on_rq
      <4>1. t \in ready[h] \/ t \in relq[h] \/ scheduled[h] = t
        BY <2>1, <3>1, <3>4 DEF Placed
      <4>2. CASE t \in ready[h]
        <5>1. Places(t) = {<<"ready", h>>}
          BY <3>2, <4>2 DEF Places
        <5> QED BY <3>4, <5>1, FS_Singleton
      <4>3. CASE t \in relq[h]
        <5>1. Places(t) = {<<"relq", h>>}
          BY <3>2, <4>3 DEF Places
        <5> QED BY <3>4, <5>1, FS_Singleton
      <4>4. CASE scheduled[h] = t
        <5>1. Places(t) = {<<"scheduled", h>>}
          BY <3>2, <4>4 DEF Places
        <5> QED BY <3>4, <5>1, FS_Singleton
      <4> QED BY <4>1, <4>2, <4>3, <4>4
    <3> QED BY <3>3, <3>4
  <2> QED BY <2>1, <2>2 DEF OnePlace
<1> QED BY <1>1, Invariance, PTL

\* Neither up() of the FMLP semaphore nor up() of an SRP semaphore misses a
\* wake-up, and only the owner of the FMLP semaphore is non-preemptive.
THEOREM NoWakeUpMissed == ASSUME SeparateUse PROVE Spec => []NoMissedWakeUp
<1>1. IInv => NoMissedWakeUp
  BY DEF IInv, Semaphore, Blocking, HandedOver, Inside, NoMissedWakeUp
<1> QED BY <1>1, Invariance, PTL

\* At most one task returned from down() is in its critical section.
THEOREM MutualExclusion == ASSUME SeparateUse PROVE Spec => []OneOwner
<1>1. IInv => OneOwner
  BY DEF IInv, Semaphore, Inside, OneOwner
<1> QED BY <1>1, Invariance, PTL

-----------------------------------------------------------------------------
(* The semaphore is a FIFO lock                                            *)

\* The refinement mapping, case by case.
LEMMA Mapping ==
  ASSUME NEW in, NEW q \in Seq(Task)
  PROVE  LET m == (IF in = {} THEN <<>> ELSE <<CHOOSE t \in in : TRUE>>) \o q
         IN /\ in = {} => m = q
            /\ \A t \in Task : in = {t} => m = <<t>> \o q
<1>1. <<>> \o q = q
  BY ConcatEmptySeq
<1>2. \A t \in Task : (CHOOSE u \in {t} : TRUE) = t
  OBVIOUS
<1> QED BY <1>1, <1>2

\* The queue of the lock: the owner and the waiters.
LEMMA QueueNow ==
  ASSUME IInv
  PROVE  /\ wait \in Seq(Task)
         /\ Inside = {} => Queue = wait
         /\ \A t \in Task : Inside = {t} => Queue = <<t>> \o wait
<1>1. wait \in Seq(Task)
  BY DEF IInv, TypeOK
<1> DEFINE in == {t \in Task : sec[t] = "fmlp" /\ t \notin Range(wait)}
<1>2. in = Inside
  BY DEF IInv, Semaphore, Inside
<1>3. Queue = (IF in = {} THEN <<>> ELSE <<CHOOSE t \in in : TRUE>>) \o wait
  BY DEF Queue
<1> HIDE DEF in
<1> QED BY <1>1, <1>2, <1>3, Mapping

\* The same in the next state.
LEMMA QueueNext ==
  ASSUME IInv'
  PROVE  /\ wait' \in Seq(Task)
         /\ Inside' = {} => Queue' = wait'
         /\ \A t \in Task : Inside' = {t} => Queue' = <<t>> \o wait'
<1>1. wait' \in Seq(Task)
  BY DEF IInv, TypeOK
<1> DEFINE in == {t \in Task : sec'[t] = "fmlp" /\ t \notin Range(wait')}
<1>2. in = Inside'
  BY DEF IInv, Semaphore, Inside
<1>3. Queue' = (IF in = {} THEN <<>> ELSE <<CHOOSE t \in in : TRUE>>) \o wait'
  BY DEF Queue
<1> HIDE DEF in
<1> QED BY <1>1, <1>2, <1>3, Mapping

\* Steps on the semaphore are steps of the lock.
LEMMA LockStep ==
  ASSUME IInv, IInv', NEW c \in CPU,
         fmlp_down(c) \/ fmlp_got(c) \/ fmlp_up(c)
  PROVE  \E t \in Task :
           \/ /\ t \notin Range(Queue) /\ Queue' = Append(Queue, t)
              /\ Inside' = Inside \/ (Queue = <<>> /\ Inside' = {t})
           \/ /\ Queue # <<>> /\ Head(Queue) = t /\ t \notin Inside
              /\ Inside' = Inside \cup {t} /\ Queue' = Queue
           \/ /\ t \in Inside /\ Head(Queue) = t
              /\ Queue' = Tail(Queue) /\ Inside' = Inside \ {t}
<1>1. TypeOK /\ Semaphore /\ wait \in Seq(Task) /\ Inside \subseteq Task
      /\ sec \in [Task -> {"no", "fmlp"} \cup SrpSem]
  BY DEF IInv, TypeOK, Inside
<1>2. PICK t \in Task : t = curr[c]
  BY CurrentTask DEF fmlp_down, fmlp_got, fmlp_up, InUser
<1>3. Inside = {} \/ \E u \in Task : Inside = {u}
  BY <1>1 DEF Semaphore
<1>4. CASE fmlp_down(c) /\ (count' < 0 \/ wait # <<>>)
  <2>1. /\ pos[t] = "user" /\ sec[t] = "no" /\ wait' = Append(wait, t) /\ sec' = sec
    BY <1>2, <1>4 DEF fmlp_down, InUser, add_wait_queue_exclusive_locked
  <2>2. t \notin Range(wait) /\ t \notin Inside /\ Inside' = Inside
    BY <1>1, <2>1 DEF Semaphore, Inside
  <2>3. CASE Inside = {}
    BY <2>1, <2>2, <2>3, QueueNow, QueueNext
  <2>4. ASSUME NEW u \in Task, Inside = {u}
        PROVE  t \notin Range(Queue) /\ Queue' = Append(Queue, t)
    <3>1. Queue = <<u>> \o wait /\ Queue' = <<u>> \o Append(wait, t)
      BY <2>1, <2>2, <2>4, QueueNow, QueueNext
    <3>2. <<u>> \in Seq(Task) /\ <<t>> \in Seq(Task) /\ <<u>> \o wait \in Seq(Task)
      BY <1>1
    <3>3. /\ Append(wait, t) = wait \o <<t>>
          /\ Append(<<u>> \o wait, t) = (<<u>> \o wait) \o <<t>>
      BY <1>1, <3>2, AppendIsConcat
    <3>4. Queue' = Append(Queue, t)
      BY <1>1, <3>1, <3>2, <3>3, ConcatAssociative
    <3>5. t \notin Range(<<u>> \o wait)
      <4>1. /\ DOMAIN (<<u>> \o wait) = 1 .. (Len(wait) + 1) /\ DOMAIN wait = 1 .. Len(wait)
            /\ (<<u>> \o wait)[1] = u /\ Len(wait) \in Nat
            /\ \A i \in 1 .. (Len(wait) + 1) : i # 1 =>
                 i - 1 \in 1 .. Len(wait) /\ (<<u>> \o wait)[i] = wait[i - 1]
        BY <1>1
      <4>2. \A i \in 1 .. Len(wait) : wait[i] # t
        BY <2>2, <4>1 DEF Range
      <4>3. u # t
        BY <2>2, <2>4
      <4>4. \A i \in 1 .. (Len(wait) + 1) : (<<u>> \o wait)[i] # t
        BY <4>1, <4>2, <4>3
      <4> QED BY <4>1, <4>4 DEF Range
    <3> QED BY <3>1, <3>4, <3>5
  <2> QED BY <1>3, <2>2, <2>3, <2>4
<1>5. CASE fmlp_down(c) /\ ~(count' < 0 \/ wait # <<>>)
  <2>1. /\ sec' = [sec EXCEPT ![t] = "fmlp"] /\ wait = <<>> /\ wait' = <<>>
        /\ count' = count - 1 /\ ~(count' < 0)
    BY <1>2, <1>5 DEF fmlp_down
  <2>2. Inside = {}
    <3>1. count = 1 - 0 - (IF Inside = {} THEN 0 ELSE 1)
      BY <1>1, <2>1 DEF Semaphore
    <3> QED BY <2>1, <3>1
  <2>3. Inside' = {t}
    BY <1>1, <2>1, <2>2 DEF Inside
  <2>4. Queue = <<>> /\ Queue' = <<t>> \o <<>>
    BY <2>1, <2>2, <2>3, QueueNow, QueueNext
  <2>5. <<t>> \o <<>> = Append(<<>>, t) /\ t \notin Range(<<>>)
    BY DEF Range
  <2> QED BY <2>3, <2>4, <2>5
<1>6. CASE fmlp_got(c)
  <2>1. Inside = {} /\ wait # <<>> /\ Head(wait) = t
    BY <1>2, <1>6, GotIsOwner
  <2>2. sec' = [sec EXCEPT ![t] = "fmlp"] /\ wait' = list_del(wait, t)
    BY <1>2, <1>6 DEF fmlp_got
  <2>3. Inside' = {t}
    BY <1>1, <2>1, <2>2 DEF Inside
  <2>4. Queue = wait /\ Queue' = <<t>> \o list_del(wait, t)
    BY <2>1, <2>2, <2>3, QueueNow, QueueNext
  <2>5. /\ list_del(wait, t) \in Seq(Task) /\ Len(list_del(wait, t)) = Len(wait) - 1
        /\ \A i \in 1 .. (Len(wait) - 1) : list_del(wait, t)[i] = wait[i + 1]
    BY <2>1, FirstDeleted
  <2> DEFINE l == list_del(wait, t)
  <2> HIDE DEF l
  <2>6. <<t>> \o l = wait
    <3>1. /\ l \in Seq(Task) /\ Len(l) = Len(wait) - 1 /\ Len(wait) \in Nat
          /\ \A i \in 1 .. (Len(wait) - 1) : l[i] = wait[i + 1]
          /\ wait[1] = t
      BY <1>1, <2>1, <2>5 DEF l
    <3>2. <<t>> \o l \in Seq(Task) /\ Len(<<t>> \o l) = Len(wait)
      BY <3>1
    <3>3. ASSUME NEW i \in 1 .. Len(<<t>> \o l) PROVE (<<t>> \o l)[i] = wait[i]
      <4>1. CASE i = 1
        BY <3>1, <4>1
      <4>2. CASE i # 1
        <5>1. i - 1 \in 1 .. (Len(wait) - 1) /\ (i - 1) + 1 = i
          BY <3>1, <3>2, <4>2
        <5>2. (<<t>> \o l)[i] = l[i - 1]
          BY <3>1, <3>2, <4>2
        <5> QED BY <3>1, <5>1, <5>2
      <4> QED BY <4>1, <4>2
    <3> QED BY <1>1, <3>2, <3>3, SeqEqual
  <2>7. Queue' = Queue
    BY <2>4, <2>6 DEF l
  <2> QED BY <2>1, <2>3, <2>4, <2>7
<1>7. CASE fmlp_up(c)
  <2>1. sec[t] = "fmlp" /\ sec' = [sec EXCEPT ![t] = "no"] /\ wait' = wait
    BY <1>2, <1>7 DEF fmlp_up
  <2>2. Inside = {t} /\ Inside' = {}
    BY <1>1, <2>1 DEF Semaphore, Inside
  <2>3. Queue = <<t>> \o wait /\ Queue' = wait
    BY <2>1, <2>2, QueueNow, QueueNext
  <2>4. Head(<<t>> \o wait) = t
    BY <1>1
  <2>5. Tail(<<t>> \o wait) = wait
    <3>1. <<t>> \o wait \in Seq(Task) /\ Len(<<t>> \o wait) = Len(wait) + 1 /\ Len(wait) \in Nat
      BY <1>1
    <3>2. <<t>> \o wait # <<>>
      BY <3>1
    <3>3. /\ Tail(<<t>> \o wait) \in Seq(Task) /\ Len(Tail(<<t>> \o wait)) = Len(wait)
          /\ \A i \in 1 .. Len(wait) : Tail(<<t>> \o wait)[i] = (<<t>> \o wait)[i + 1]
      BY <3>1, <3>2, HeadTailProperties
    <3>4. \A i \in 1 .. Len(wait) : (<<t>> \o wait)[i + 1] = wait[i]
      BY <1>1
    <3> QED BY <1>1, <3>3, <3>4, SeqEqual
  <2> QED BY <2>2, <2>3, <2>4, <2>5
<1> QED BY <1>4, <1>5, <1>6, <1>7

\* Every other step leaves the lock alone.
LEMMA OtherStep ==
  ASSUME IInv, IInv', [Next]_vars, ~ \E c \in CPU : fmlp_down(c) \/ fmlp_got(c) \/ fmlp_up(c)
  PROVE  UNCHANGED <<Queue, Inside>>
<1>1. wait' = wait /\ \A u \in Task : sec'[u] = "fmlp" <=> sec[u] = "fmlp"
  <2>1. CASE UNCHANGED vars
    BY <2>1 DEF vars
  <2>2. CASE psnNext(Waking) /\ UNCHANGED <<fmlpVars, srpVars>>
    <3>1. sec' = sec
      BY <2>2 DEF psnNext, task_new, wake, on_release_timer, task_exit, tick,
                  reschedule_interrupt, schedule, preempt_schedule, complete_job,
                  block, clock
    <3> QED BY <2>2, <3>1
  <2>3. CASE fmlpNext
    BY <2>3 DEF fmlpNext, fmlp_suspend, fmlp_wake
  <2>4. CASE srpNext(Waking) /\ UNCHANGED fmlpVars
    <3>1. PICK c \in CPU :
            \/ \E s \in SrpSem : open_srp_semaphore(c, s) \/ srp_down(c, s) \/ srp_up(c, s)
            \/ srp_ceiling_block(c) \/ ceiling_suspend(c) \/ ceiling_return(c)
      BY <2>4 DEF srpNext
    <3>2. sec \in [Task -> {"no", "fmlp"} \cup SrpSem] /\ "fmlp" \notin SrpSem
      BY ConstantsAssumption DEF IInv, TypeOK
    <3>3. ASSUME NEW s \in SrpSem, srp_down(c, s) \/ srp_up(c, s)
          PROVE  \A u \in Task : sec'[u] = "fmlp" <=> sec[u] = "fmlp"
      <4>1. PICK t \in Task : t = curr[c]
        BY <3>3, CurrentTask DEF srp_down, srp_up, InUser
      <4>2. \/ sec[t] = "no" /\ sec' = [sec EXCEPT ![t] = s]
            \/ sec[t] = s /\ sec' = [sec EXCEPT ![t] = "no"]
        BY <3>3, <4>1 DEF srp_down, srp_up
      <4> QED BY <3>2, <4>2
    <3>4. ASSUME \/ \E s \in SrpSem : open_srp_semaphore(c, s)
                 \/ srp_ceiling_block(c) \/ ceiling_suspend(c) \/ ceiling_return(c)
          PROVE  sec' = sec
      BY <3>4 DEF open_srp_semaphore, srp_ceiling_block, ceiling_suspend,
                  ceiling_return, ceiling_test
    <3> QED BY <2>4, <3>1, <3>3, <3>4
  <2> QED BY <2>1, <2>2, <2>3, <2>4 DEF Next
<1>2. Inside' = Inside
  BY <1>1 DEF Inside
<1>3. Inside = {} \/ \E u \in Task : Inside = {u}
  BY DEF IInv, Semaphore, Inside
<1>4. CASE Inside = {}
  BY <1>1, <1>2, <1>4, QueueNow, QueueNext
<1>5. ASSUME NEW u \in Task, Inside = {u} PROVE Queue' = Queue
  <2>1. Queue = <<u>> \o wait
    BY <1>5, QueueNow
  <2>2. Queue' = <<u>> \o wait'
    BY <1>2, <1>5, QueueNext
  <2> QED BY <1>1, <2>1, <2>2
<1> QED BY <1>2, <1>3, <1>4, <1>5

\* The semaphore implements the FIFO lock.
THEOREM Refinement == ASSUME SeparateUse PROVE Spec => ImplementsFIFOLock
<1>1. Init => Lock!Init
  <2> SUFFICES ASSUME Init PROVE Lock!Init
    OBVIOUS
  <2>1. IInv /\ Inside = {} /\ wait = <<>>
    BY InitInv DEF Init, psnInit, fmlpInit, Inside
  <2> QED BY <2>1, QueueNow DEF Lock!Init, Inside
<1>2. IInv /\ IInv' /\ [Next]_vars => [Lock!Next]_<<Queue, {t \in Task : sec[t] = "fmlp"}>>
  <2> SUFFICES ASSUME IInv, IInv', [Next]_vars
               PROVE  [Lock!Next]_<<Queue, {t \in Task : sec[t] = "fmlp"}>>
    OBVIOUS
  <2>1. CASE \E c \in CPU : fmlp_down(c) \/ fmlp_got(c) \/ fmlp_up(c)
    <3>1. PICK t \in Task :
            \/ /\ t \notin Range(Queue) /\ Queue' = Append(Queue, t)
               /\ Inside' = Inside \/ (Queue = <<>> /\ Inside' = {t})
            \/ /\ Queue # <<>> /\ Head(Queue) = t /\ t \notin Inside
               /\ Inside' = Inside \cup {t} /\ Queue' = Queue
            \/ /\ t \in Inside /\ Head(Queue) = t
               /\ Queue' = Tail(Queue) /\ Inside' = Inside \ {t}
      BY <2>1, LockStep
    <3>2. Lock!Request(t) \/ Lock!Enter(t) \/ Lock!Release(t)
      BY <3>1 DEF Lock!Request, Lock!Enter, Lock!Release, Lock!Range, Range, Inside
    <3> QED BY <3>2 DEF Lock!Next
  <2>2. CASE ~ \E c \in CPU : fmlp_down(c) \/ fmlp_got(c) \/ fmlp_up(c)
    <3>1. UNCHANGED <<Queue, Inside>>
      BY <2>2, OtherStep
    <3> QED BY <3>1 DEF Inside
  <2> QED BY <2>1, <2>2
<1> QED BY <1>1, <1>2, Invariance, PTL DEF Spec, ImplementsFIFOLock, Lock!Spec

-----------------------------------------------------------------------------
(* The candidate for inheritance                                           *)

\* Is t the owner of the semaphore, or does it wait for it?
Claimant(t) == sec[t] = "fmlp" \/ pos[t] \in {"down", "got"}

LEMMA ClaimsNow ==
  ASSUME IInv, NEW c \in CPU, NEW t \in Task
  PROVE  t \in Claims(c) <=> Home[t] = c /\ Claimant(t)
<1> QED BY DEF IInv, Semaphore, Claims, Claimant

LEMMA ClaimsNext ==
  ASSUME IInv', NEW c \in CPU, NEW t \in Task
  PROVE  t \in Claims(c)' <=> Home[t] = c /\ Claimant(t)'
<1>1. t \in Range(wait') <=> pos'[t] \in {"down", "got"}
  BY DEF IInv, Semaphore
<1> QED BY <1>1 DEF Claims, Claimant

\* No ceiling is raised where users of the semaphore run.
LEMMA UserFacts ==
  ASSUME Undisturbed, IInv, NEW u \in setup.fmlp
  PROVE  u \in Task /\ ~setup.preempt /\ active[u] = "no" /\ srp[Home[u]] = <<>>
<1>1. TypeOK /\ setup \in Setups /\ Returning /\ Stacked
  BY DEF IInv, Placed
<1>2. u \in Task /\ Home[u] \in CPU
  BY <1>1, ConstantsAssumption DEF Setup
<1>3. ~setup.preempt /\ \A s \in SrpSem : \A t \in setup.srp[s] : Home[t] # Home[u]
  BY <1>1 DEF Undisturbed
<1>4. active[u] = "no"
  BY <1>1, <1>2, <1>3 DEF Returning
<1>5. srp[Home[u]] = <<>>
  <2>1. SUFFICES ASSUME srp[Home[u]] # <<>> PROVE FALSE
    OBVIOUS
  <2>2. PICK q \in Seq(SrpSem) : q = srp[Home[u]]
    BY <1>1, <1>2 DEF TypeOK
  <2>3. 1 \in 1 .. Len(q) /\ q[1] \in SrpSem
    BY <2>1, <2>2
  <2>4. PICK s \in SrpSem : s = q[1]
    BY <2>3
  <2>5. owner[s] # NULL /\ Home[owner[s]] = Home[u]
    BY <1>1, <1>2, <2>2, <2>3, <2>4 DEF Stacked
  <2>6. owner[s] \in setup.srp[s]
    BY <1>1, <2>5 DEF Stacked
  <2> QED BY <1>3, <2>5, <2>6
<1> QED BY <1>2, <1>3, <1>4, <1>5

\* Awake claimants are non-preemptive; waiters that are not awake are asleep,
\* or current and about to call schedule().
LEMMA ClaimantFacts ==
  ASSUME Undisturbed, IInv, Claimants, NEW u \in Task, Claimant(u)
  PROVE  /\ u \in setup.fmlp /\ u \in rt /\ ceil[u] = "no"
         /\ u \in state => is_np(u)
         /\ pos[u] = "down" => curr[Home[u]] = u
<1>1. TypeOK /\ Semaphore /\ Returning /\ Placed /\ Outside /\ Home[u] \in CPU
  BY ConstantsAssumption DEF IInv
<1>2. u \in setup.fmlp
  BY <1>1, ClaimsNow DEF Claimants
<1>3. ceil[u] = "no" /\ active[u] = "no"
  BY <1>2, UserFacts DEF Claimants
<1>4. u \in rt
  BY <1>1 DEF Outside, Claimant
<1>5. u \in state => is_np(u)
  <2>1. u \in state => u \in on_rq
    BY <1>1 DEF Placed
  <2>2. sec[u] = "fmlp" => is_np(u)
    BY <1>1 DEF Semaphore, NpIsOwner
  <2> QED BY <1>1, <2>1, <2>2 DEF Semaphore, Claimant
<1>6. pos[u] = "down" => curr[Home[u]] = u
  BY <1>1, <1>3, <1>4 DEF Returning, Tested
<1> QED BY <1>2, <1>3, <1>4, <1>5, <1>6

\* What all steps but those of down() and up() have in common.
Keeps ==
  /\ setup' = setup /\ hp' = hp /\ inh_task' = inh_task
  /\ \A u \in Task : Claimant(u)' <=> Claimant(u)
  /\ \A u \in Task : Claimant(u) => job'[u] = job[u]
  /\ \A u \in setup.fmlp : ceil'[u] = "no"
  /\ \A u \in Task : sec'[u] = "fmlp" => u \in state'
  /\ \A c \in CPU : waking'[c] # NULL =>
       waking'[c] \notin state' /\ flags'[waking'[c]] = "EXIT_SEM"

LEMMA Kept ==
  ASSUME IInv, IInv', Claimants, Leading, Keeps
  PROVE  Claimants' /\ Leading'
<1>1. \A c \in CPU : Claims(c) \subseteq Task /\ Claims(c)' \subseteq Task
  BY DEF Claims
<1>2. ASSUME NEW c \in CPU PROVE Claims(c)' = Claims(c)
  <2>1. \A t \in Task : t \in Claims(c)' <=> t \in Claims(c)
    BY ClaimsNow, ClaimsNext DEF Keeps
  <2> QED BY <1>1, <2>1
<1>3. Claimants'
  <2>1. \A c \in CPU : Claims(c)' \subseteq setup'.fmlp
    BY <1>2 DEF Claimants, Keeps
  <2>2. \A t \in setup'.fmlp : ceil'[t] = "no"
    BY DEF Keeps
  <2>3. Inside' \subseteq state'
    BY DEF Inside, Keeps
  <2>4. \A c \in Waking' : waking'[c] \notin state' /\ flags'[waking'[c]] = "EXIT_SEM"
    BY DEF Waking, Keeps
  <2> QED BY <2>1, <2>2, <2>3, <2>4 DEF Claimants
<1>4. Leading'
  <2>1. \A c \in CPU : \A t \in Claims(c) : job'[t] = job[t]
    BY <1>1, ClaimsNow DEF Keeps
  <2>2. \A c \in CPU : hp[c] # NULL => hp[c] \in Claims(c)
    BY DEF IInv, Inherited
  <2>3. ASSUME NEW c \in CPU, NEW t \in Claims(c)' PROVE t = hp'[c] \/ Precedes(hp[c], t)'
    <3>1. t \in Claims(c) /\ hp'[c] = hp[c] /\ job'[t] = job[t]
      BY <1>2, <2>1 DEF Keeps
    <3>2. hp[c] # NULL
      BY <3>1 DEF Leading
    <3>3. job'[hp[c]] = job[hp[c]]
      BY <2>1, <2>2, <3>2
    <3>4. t = hp[c] \/ Precedes(hp[c], t)
      BY <3>1 DEF Leading
    <3> QED BY <3>1, <3>3, <3>4 DEF Precedes
  <2>4. ASSUME NEW c \in CPU
        PROVE  /\ hp'[c] = NULL => Claims(c)' = {}
               /\ hp'[c] # NULL => inh_task'[hp'[c]] \in {NULL, hp'[c]}
    BY <1>2 DEF Leading, Keeps
  <2> QED BY <2>3, <2>4 DEF Leading
<1> QED BY <1>3, <1>4

\* schedule() gives a new job to the current task only, and only if it is
\* preemptible and does not block; it resets flags only of the task that it
\* puts back and of the one that it chooses.
LEMMA SwitchJobs ==
  ASSUME IInv, NEW c \in CPU, NEW act \in BOOLEAN,
         NEW fl \in [Task -> {"RUNNING", "SLEEP", "EXIT_SEM"}],
         NEW st \in SUBSET state, switch(c, act, fl, st), NEW u \in Task
  PROVE  /\ job'[u] # job[u] => u = curr[c] /\ ~is_np(u) /\ (u \in st \/ act)
         /\ flags'[u] # fl[u] => u = curr'[c] \/ (u = curr[c] /\ (u \in st \/ act))
<1> DEFINE t           == scheduled[c]
           exists      == t # NULL
           blocks      == exists /\ ~is_running(t, st, act)
           np          == exists /\ is_np(t)
           out_of_time == exists /\ t \in spent
           sleep       == exists /\ fl[t] = "SLEEP"
           preempts    == edf_preemption_needed(job, inh_task, ready[c], curr[c])
           completes   == ~np /\ (out_of_time \/ sleep) /\ ~blocks
           resched     == preempts \/ blocks \/ completes
           js          == IF completes
                          THEN [job EXCEPT ![t] = prepare_for_next_period(t, @)]
                          ELSE job
           choose      == (~np \/ blocks) /\ (resched \/ ~exists)
           again       == choose /\ exists /\ ~blocks
           queue       == IF again /\ is_released(js[t]) THEN ready[c] \cup {t}
                          ELSE ready[c]
           next        == IF choose THEN take_ready(js, inh_task, queue) ELSE t
<1>1. /\ t = curr[c] /\ NULL \notin Task /\ curr \in [CPU -> Task \cup {NULL}]
      /\ job \in [Task -> Job]
  BY ConstantsAssumption DEF IInv, Placed, TypeOK, Job
<1>2. completes => exists /\ ~is_np(t) /\ (t \in st \/ act)
  BY DEF is_running
<1>3. again => t \in st \/ act
  BY DEF is_running
<1>4. /\ job' = js
      /\ flags' = [v \in Task |-> IF v = next \/ (v = t /\ again) THEN "RUNNING"
                                  ELSE fl[v]]
      /\ curr' = [curr EXCEPT ![c] = next]
  BY DEF switch
<1>5. completes \/ js = job
  OBVIOUS
<1>6. completes => \A v \in Task : v # t => js[v] = job[v]
  BY <1>1
<1> HIDE DEF js, next, again, completes
<1>7. job'[u] # job[u] => u = curr[c] /\ ~is_np(u) /\ (u \in st \/ act)
  BY <1>1, <1>2, <1>4, <1>5, <1>6
<1>8. curr'[c] = next
  BY <1>1, <1>4
<1>9. flags'[u] # fl[u] => u = next \/ (u = t /\ again)
  BY <1>4
<1> QED BY <1>1, <1>3, <1>7, <1>8, <1>9

\* A schedule() does not give a claimant a new job, and leaves the mark of the
\* task that is about to be woken alone.
LEMMA SwitchKeeps ==
  ASSUME Undisturbed, IInv, IInv', Claimants,
         NEW c \in CPU, NEW act \in BOOLEAN,
         NEW fl \in [Task -> {"RUNNING", "SLEEP", "EXIT_SEM"}],
         NEW st \in SUBSET state, switch(c, act, fl, st),
         act => setup.preempt,
         \A u \in Task : Claimant(u) => fl[u] = flags[u],
         \A u \in Task : sec[u] = "fmlp" => u \in st,
         \A u \in Task : Claimant(u)' <=> Claimant(u),
         \A u \in Task : pos'[u] = "down" => pos[u] = "down" /\ u # curr[c],
         \A u \in setup.fmlp : ceil'[u] = "no",
         UNCHANGED <<setup, sec, hp, waking>>
  PROVE  Keeps
<1>1. inh_task' = inh_task /\ state' = st
  BY DEF switch
<1>2. ASSUME NEW u \in Task, Claimant(u) PROVE ~(u \in st \/ act) \/ is_np(u)
  BY <1>2, ClaimantFacts, UserFacts
<1>3. ASSUME NEW u \in Task, Claimant(u) PROVE job'[u] = job[u]
  BY <1>2, <1>3, SwitchJobs
<1>4. ASSUME NEW d \in CPU, waking'[d] # NULL
      PROVE  waking'[d] \notin state' /\ flags'[waking'[d]] = "EXIT_SEM"
  <2>1. PICK w \in Task : w = waking[d]
    BY <1>4 DEF IInv, TypeOK
  <2>2. d \in Waking /\ waking'[d] = w
    BY <1>4, <2>1 DEF Waking
  <2>3. w \notin state /\ flags[w] = "EXIT_SEM"
    BY <2>1, <2>2 DEF Claimants
  <2>4. w \in Range(wait)
    <3>1. wait # <<>> /\ w = Head(wait) /\ wait \in Seq(Task)
      BY <2>1, <2>2 DEF IInv, Semaphore, TypeOK
    <3> QED BY <3>1 DEF Range
  <2>5. Claimant(w) /\ Claimant(w)' /\ sec[w] # "fmlp"
    BY <2>4, WaitersOfRealTime DEF Claimant
  <2>6. w \in setup.fmlp /\ ceil'[w] = "no" /\ ~act
    BY <2>5, ClaimantFacts, UserFacts
  <2>7. w # curr'[c]
    <3>1. SUFFICES ASSUME w = curr'[c] PROVE FALSE
      OBVIOUS
    <3>2. Home[w] = c /\ w \in on_rq'
      BY <3>1 DEF IInv, Placed
    <3>3. pos'[w] = "down"
      BY <1>1, <2>3, <2>6, <3>2 DEF IInv, Returning
    <3>4. pos[w] = "down" /\ w # curr[c]
      BY <3>3
    <3> QED BY <2>5, <3>2, <3>4, ClaimantFacts
  <2>8. flags'[w] = fl[w]
    BY <2>3, <2>6, <2>7, SwitchJobs
  <2> QED BY <1>1, <2>2, <2>3, <2>5, <2>8
<1> QED BY <1>1, <1>3, <1>4 DEF Keeps

\* schedule() on the way to user mode, preemptions and suspensions.
LEMMA ScheduleKeeps ==
  ASSUME Undisturbed, IInv, IInv', Claimants, NEW c \in CPU,
         schedule(c) \/ preempt_schedule(c) \/ complete_job(c) \/ block(c),
         UNCHANGED <<setup, fmlpVars, srpVars>>
  PROVE  Keeps
<1>1. /\ pos' = pos /\ sec' = sec /\ ceil' = ceil /\ hp' = hp /\ waking' = waking
      /\ flags \in [Task -> {"RUNNING", "SLEEP", "EXIT_SEM"}]
  BY DEF schedule, preempt_schedule, complete_job, block, IInv, TypeOK
<1>2. /\ \A u \in Task : Claimant(u)' <=> Claimant(u)
      /\ \A u \in setup.fmlp : ceil'[u] = "no"
  BY <1>1 DEF Claimant, Claimants
<1>3. \A u \in Task : sec[u] = "fmlp" => u \in state
  BY DEF Claimants, Inside
<1>4. CASE preempt_schedule(c)
  <2>1. \A u \in Task : pos[u] = "down" => u \in setup.fmlp
    BY DEF IInv, Returning
  <2>2. \A u \in Task : pos[u] # "down"
    BY <1>4, <2>1, UserFacts DEF preempt_schedule
  <2>3. switch(c, TRUE, flags, state) /\ setup.preempt
    BY <1>4 DEF preempt_schedule
  <2> QED BY <1>1, <1>2, <1>3, <2>2, <2>3, SwitchKeeps
<1>5. CASE schedule(c)
  <2>1. PICK act \in BOOLEAN :
          /\ switch(c, act, flags, state)
          /\ act => curr[c] # NULL /\ active[curr[c]] = "nest"
    BY <1>5 DEF schedule
  <2>2. act => setup.preempt
    BY <2>1 DEF IInv, Returning, TypeOK
  <2>3. ASSUME NEW u \in Task, pos'[u] = "down" PROVE u # curr[c]
    <3>1. pos[u] = "down" /\ u \notin tail /\ u \in setup.fmlp
      BY <1>1, <2>3 DEF IInv, Returning
    <3>2. active[u] = "no" /\ u # NULL
      BY <3>1, UserFacts, ConstantsAssumption
    <3> QED BY <1>5, <3>1, <3>2 DEF schedule, InUser
  <2> QED BY <1>1, <1>2, <1>3, <2>1, <2>2, <2>3, SwitchKeeps
<1>6. CASE complete_job(c) \/ block(c)
  <2>1. PICK t \in Task : t = curr[c]
    BY <1>6, CurrentTask DEF complete_job, block, InUser
  <2>2. pos[t] = "user" /\ sec[t] = "no"
    BY <1>6, <2>1 DEF complete_job, block, InUser
  <2>3. PICK fl, st : /\ fl = [flags EXCEPT ![t] = "SLEEP"] \/ fl = flags
                      /\ st = state \/ st = state \ {t}
                      /\ switch(c, FALSE, fl, st)
    BY <1>6, <2>1 DEF complete_job, block
  <2>4. /\ fl \in [Task -> {"RUNNING", "SLEEP", "EXIT_SEM"}] /\ st \in SUBSET state
        /\ \A u \in Task : u # t => fl[u] = flags[u] /\ (u \in state => u \in st)
    BY <1>1, <2>3
  <2>5. \A u \in Task : Claimant(u) => fl[u] = flags[u]
    BY <2>2, <2>4 DEF Claimant
  <2>6. \A u \in Task : sec[u] = "fmlp" => u \in st
    BY <1>3, <2>2, <2>4
  <2>7. \A u \in Task : pos'[u] = "down" => pos[u] = "down" /\ u # curr[c]
    BY <1>1, <2>1, <2>2
  <2> QED BY <1>1, <1>2, <2>3, <2>4, <2>5, <2>6, <2>7, SwitchKeeps
<1> QED BY <1>4, <1>5, <1>6

\* The mark of the task that is about to be woken, if what is relevant of its
\* state stays as it is.
LEMMA MarkKept ==
  ASSUME Undisturbed, IInv, Claimants, waking' = waking,
         \A u \in Task : Claimant(u) /\ u \notin state =>
                           u \notin state' /\ flags'[u] = flags[u]
  PROVE  \A d \in CPU : waking'[d] # NULL =>
           waking'[d] \notin state' /\ flags'[waking'[d]] = "EXIT_SEM"
<1>1. SUFFICES ASSUME NEW d \in CPU, waking[d] # NULL
               PROVE  waking[d] \notin state' /\ flags'[waking[d]] = "EXIT_SEM"
  OBVIOUS
<1>2. PICK w \in Task : w = waking[d]
  BY <1>1 DEF IInv, TypeOK
<1>3. d \in Waking
  BY <1>1 DEF Waking
<1>4. wait # <<>> /\ w = Head(wait) /\ wait \in Seq(Task)
  BY <1>2, <1>3 DEF IInv, Semaphore, TypeOK
<1>5. w \in Range(wait)
  BY <1>4 DEF Range
<1>6. Claimant(w)
  BY <1>5, WaitersOfRealTime DEF Claimant
<1>7. w \notin state /\ flags[w] = "EXIT_SEM"
  BY <1>2, <1>3 DEF Claimants
<1> QED BY <1>2, <1>6, <1>7

\* Wake-ups of others do not concern the claimants.
LEMMA WakeUpOthers ==
  ASSUME IInv, NEW ts \in SUBSET Task, NEW d \in CPU, NEW e \in CPU,
         NEW warn \in BOOLEAN, try_to_wake_up(ts, d, e, warn)
  PROVE  /\ state' = state \cup ts
         /\ \A u \in Task : u \notin ts => job'[u] = job[u] /\ flags'[u] = flags[u]
         /\ \A u \in Task : flags[u] = "EXIT_SEM" => job'[u] = job[u]
<1>1. job \in [Task -> Job] /\ flags \in [Task -> {"RUNNING", "SLEEP", "EXIT_SEM"}]
  BY DEF IInv, TypeOK, Job
<1> DEFINE new == {t \in ts \ on_rq : is_tardy(job[t]) /\ flags[t] # "EXIT_SEM"}
<1>2. /\ state' = state \cup ts
      /\ job' = [t \in Task |-> IF t \in new THEN release_at(t, now) ELSE job[t]]
      /\ flags' = [t \in Task |-> IF t \in (ts \ on_rq) \ {scheduled[d]} THEN "RUNNING"
                                  ELSE flags[t]]
  BY DEF try_to_wake_up, task_wake_up
<1>3. \A u \in Task : u \notin ts \/ flags[u] = "EXIT_SEM" => u \notin new
  OBVIOUS
<1> HIDE DEF new
<1> QED BY <1>1, <1>2, <1>3

\* Tasks that come and go, and wake-ups from what has nothing to do with the
\* semaphores.
LEMMA TasksKeep ==
  ASSUME Undisturbed, IInv, IInv', Claimants, NEW t \in Task, NEW e \in CPU,
         \/ task_new(t, e) \/ wake(t, e)
         \/ task_exit(e) /\ t = curr[e],
         UNCHANGED <<setup, fmlpVars, srpVars>>
  PROVE  Keeps
<1>1. ~Claimant(t)
  <2>1. CASE task_new(t, e)
    BY <2>1 DEF task_new, IInv, Outside, Claimant
  <2>2. CASE wake(t, e)
    BY <2>2 DEF wake, Claimants, Inside, Claimant
  <2>3. CASE task_exit(e) /\ t = curr[e]
    BY <2>3 DEF task_exit, InUser, Claimant
  <2> QED BY <2>1, <2>2, <2>3
<1>2. /\ pos \in [Task -> {"user", "down", "got", "gone"}] /\ job \in [Task -> Job]
      /\ \A u \in Task : sec[u] = "fmlp" => u \in state
      /\ \A u \in setup.fmlp : ceil[u] = "no"
  BY DEF IInv, TypeOK, Job, Claimants, Inside
<1>3. /\ inh_task' = inh_task /\ sec' = sec /\ ceil' = ceil
      /\ \A u \in Task : u # t => pos'[u] = pos[u] /\ job'[u] = job[u] /\ flags'[u] = flags[u]
      /\ pos'[t] \in {pos[t], "gone"}
      /\ state' = state \/ state' = state \cup {t}
  <2>1. CASE task_new(t, e)
    BY <1>2, <2>1 DEF task_new
  <2>2. CASE wake(t, e)
    <3>1. /\ UNCHANGED <<inh_task, sec, ceil, pos>> /\ Home[t] \in CPU
          /\ try_to_wake_up({t}, Home[t], e, FALSE)
      BY <2>2, ConstantsAssumption DEF wake
    <3>2. /\ state' = state \cup {t}
          /\ \A u \in Task : u \notin {t} => job'[u] = job[u] /\ flags'[u] = flags[u]
      BY <3>1, WakeUpOthers
    <3> QED BY <3>1, <3>2
  <2>3. CASE task_exit(e) /\ t = curr[e]
    BY <1>2, <2>3 DEF task_exit
  <2> QED BY <2>1, <2>2, <2>3
<1>4. \A u \in Task : Claimant(u)' <=> Claimant(u)
  BY <1>1, <1>3 DEF Claimant
<1>5. \A u \in Task : Claimant(u) => u # t /\ job'[u] = job[u] /\ flags'[u] = flags[u]
  BY <1>1, <1>3
<1>6. \A d \in CPU : waking'[d] # NULL =>
        waking'[d] \notin state' /\ flags'[waking'[d]] = "EXIT_SEM"
  <2>1. \A u \in Task : Claimant(u) /\ u \notin state =>
                          u \notin state' /\ flags'[u] = flags[u]
    BY <1>3, <1>5
  <2> QED BY <2>1, MarkKept
<1> QED BY <1>2, <1>3, <1>4, <1>5, <1>6 DEF Keeps

\* Steps that leave tasks, jobs and semaphore alone.
LEMMA SignalsKeep ==
  ASSUME Undisturbed, IInv, IInv', Claimants,
         UNCHANGED <<setup, hp, inh_task, waking, sec, pos, ceil, job, flags, state>>
  PROVE  Keeps
<1>1. \A u \in Task : Claimant(u)' <=> Claimant(u)
  BY DEF Claimant
<1>2. /\ \A u \in Task : sec[u] = "fmlp" => u \in state
      /\ \A u \in setup.fmlp : ceil[u] = "no"
  BY DEF Claimants, Inside
<1>3. \A d \in CPU : waking'[d] # NULL =>
        waking'[d] \notin state' /\ flags'[waking'[d]] = "EXIT_SEM"
  BY MarkKept
<1> QED BY <1>1, <1>2, <1>3 DEF Keeps

\* All steps of the plugin.
LEMMA PsnKeeps ==
  ASSUME Undisturbed, IInv, IInv', Claimants, psnNext(Waking),
         UNCHANGED <<setup, fmlpVars, srpVars>>
  PROVE  Keeps
<1>1. CASE \E t \in Task, e \in CPU \ Waking : task_new(t, e) \/ wake(t, e)
  BY <1>1, TasksKeep
<1>2. CASE \E c \in CPU, e \in CPU \ Waking, r \in 0 .. now : on_release_timer(c, e, r)
  BY <1>2, SignalsKeep DEF on_release_timer
<1>3. CASE clock
  BY <1>3, SignalsKeep DEF clock
<1>4. ASSUME NEW c \in CPU \ Waking,
             \/ task_exit(c) \/ tick(c) \/ reschedule_interrupt(c) \/ schedule(c)
             \/ preempt_schedule(c) \/ complete_job(c) \/ block(c)
      PROVE  Keeps
  <2>1. CASE task_exit(c)
    <3>1. curr[c] \in Task
      BY <2>1, CurrentTask DEF task_exit, InUser
    <3> QED BY <2>1, <3>1, TasksKeep
  <2>2. CASE tick(c) \/ reschedule_interrupt(c)
    BY <2>2, SignalsKeep DEF tick, reschedule_interrupt
  <2>3. CASE schedule(c) \/ preempt_schedule(c) \/ complete_job(c) \/ block(c)
    BY <2>3, ScheduleKeeps
  <2> QED BY <1>4, <2>1, <2>2, <2>3
<1> QED BY <1>1, <1>2, <1>3, <1>4 DEF psnNext

\* The ceiling test does not hold up users of the semaphore.
LEMMA CeilingTestKeeps ==
  ASSUME Undisturbed, IInv, IInv', Claimants, NEW c \in CPU,
         srp_ceiling_block(c) \/ ceiling_return(c), UNCHANGED <<setup, fmlpVars>>
  PROVE  Keeps
<1>1. PICK t \in Task : t = curr[c]
  BY CurrentTask DEF srp_ceiling_block, ceiling_return
<1>2. PICK pass \in BOOLEAN :
        /\ pass = srp_exceeds_ceiling(t, srp[c], owner)
        /\ state' = IF pass THEN state ELSE state \ {t}
        /\ ceil' = [ceil EXCEPT ![t] = IF pass THEN "no" ELSE "prep"]
        /\ UNCHANGED <<job, flags, inh_task, pos, sec>>
  <2>1. ceiling_test(c)
    BY DEF srp_ceiling_block, ceiling_return
  <2>2. srp_exceeds_ceiling(t, srp[c], owner) \in BOOLEAN
    BY DEF srp_exceeds_ceiling
  <2> QED BY <1>1, <2>1, <2>2 DEF ceiling_test
<1>3. t \in setup.fmlp => pass
  <2>1. Home[t] = c
    BY <1>1, CurrentTask
  <2> QED BY <1>2, <2>1, UserFacts DEF srp_exceeds_ceiling
<1>4. \A u \in setup.fmlp : u \in Task /\ ceil'[u] = "no"
  <2>1. ceil \in [Task -> {"no", "prep", "ret"}] /\ \A u \in setup.fmlp : ceil[u] = "no"
    BY DEF IInv, TypeOK, Claimants
  <2> QED BY <1>2, <1>3, <2>1, UserFacts
<1>5. \A u \in Task : Claimant(u)' <=> Claimant(u)
  BY <1>2 DEF Claimant
<1>6. \A u \in Task : sec'[u] = "fmlp" => u \in state'
  <2>1. \A u \in Task : sec[u] = "fmlp" => u \in state /\ u \in setup.fmlp
    BY ClaimantFacts DEF Claimants, Inside, Claimant
  <2> QED BY <1>2, <1>3, <2>1
<1>7. \A d \in CPU : waking'[d] # NULL =>
        waking'[d] \notin state' /\ flags'[waking'[d]] = "EXIT_SEM"
  BY <1>2, MarkKept
<1> QED BY <1>2, <1>4, <1>5, <1>6, <1>7 DEF Keeps

\* All steps of the SRP.
LEMMA SrpKeeps ==
  ASSUME Undisturbed, IInv, IInv', Claimants, srpNext(Waking),
         UNCHANGED <<setup, fmlpVars>>
  PROVE  Keeps
<1>1. PICK c \in CPU :
        \/ \E s \in SrpSem : open_srp_semaphore(c, s) \/ srp_down(c, s) \/ srp_up(c, s)
        \/ srp_ceiling_block(c) \/ ceiling_suspend(c) \/ ceiling_return(c)
  BY DEF srpNext
<1>2. /\ sec \in [Task -> {"no", "fmlp"} \cup SrpSem]
      /\ SrpSem \cap {"no", "fmlp"} = {}
      /\ \A u \in Task : sec[u] = "fmlp" => u \in state
      /\ \A u \in setup.fmlp : u \in Task /\ ceil[u] = "no"
  BY UserFacts, ConstantsAssumption DEF IInv, TypeOK, Claimants, Inside
<1>3. ASSUME NEW s \in SrpSem, open_srp_semaphore(c, s) PROVE Keeps
  BY <1>3, SignalsKeep DEF open_srp_semaphore
<1>4. ASSUME NEW s \in SrpSem, srp_down(c, s) \/ srp_up(c, s) PROVE Keeps
  <2>1. PICK t \in Task : t = curr[c]
    BY <1>4, CurrentTask DEF srp_down, srp_up, InUser
  <2>2. /\ sec[t] # "fmlp" /\ sec'[t] # "fmlp" /\ \A u \in Task : u # t => sec'[u] = sec[u]
        /\ UNCHANGED <<inh_task, pos, ceil>>
    BY <1>2, <1>4, <2>1 DEF srp_down, srp_up
  <2>3. \A u \in Task : Claimant(u)' <=> Claimant(u)
    BY <2>2 DEF Claimant
  <2>4. PICK ts \in SUBSET Task :
          /\ \A u \in ts : ceil[u] # "no"
          /\ state' = state \cup ts
          /\ \A u \in Task : u \notin ts => job'[u] = job[u] /\ flags'[u] = flags[u]
    <3>1. CASE srp_down(c, s)
      <4>1. {} \in SUBSET Task /\ state' = state \cup {} /\ UNCHANGED <<job, flags>>
        BY <3>1 DEF srp_down
      <4> QED BY <4>1
    <3>2. CASE srp_up(c, s)
      <4>1. PICK ts, warn : /\ ts \subseteq ceiling_blocked[c] /\ warn \in BOOLEAN
                            /\ try_to_wake_up(ts, c, c, warn)
        BY <3>2 DEF srp_up, srp_wake_up
      <4>2. ts \in SUBSET Task /\ \A u \in ts : ceil[u] # "no"
        BY <4>1 DEF IInv, TypeOK, Blocking
      <4>3. /\ state' = state \cup ts
            /\ \A u \in Task : u \notin ts => job'[u] = job[u] /\ flags'[u] = flags[u]
        BY <4>1, <4>2, WakeUpOthers
      <4> QED BY <4>2, <4>3
    <3> QED BY <1>4, <3>1, <3>2
  <2>5. \A u \in Task : Claimant(u) => u \notin ts
    BY <2>4, ClaimantFacts
  <2>6. \A u \in Task : Claimant(u) => job'[u] = job[u] /\ flags'[u] = flags[u]
    BY <2>4, <2>5
  <2>7. \A d \in CPU : waking'[d] # NULL =>
          waking'[d] \notin state' /\ flags'[waking'[d]] = "EXIT_SEM"
    <3>1. \A u \in Task : Claimant(u) /\ u \notin state =>
                            u \notin state' /\ flags'[u] = flags[u]
      BY <2>4, <2>5, <2>6
    <3> QED BY <3>1, MarkKept
  <2>8. \A u \in Task : sec'[u] = "fmlp" => u \in state'
    BY <1>2, <2>2, <2>4
  <2> QED BY <1>2, <2>2, <2>3, <2>6, <2>7, <2>8 DEF Keeps
<1>5. CASE ceiling_suspend(c)
  <2>1. PICK t \in Task : t = curr[c] /\ ceil[t] = "prep"
    BY <1>5, CurrentTask DEF ceiling_suspend
  <2>2. PICK act \in BOOLEAN : switch(c, act, flags, state) /\ act = (active[t] # "no")
    BY <1>5, <2>1 DEF ceiling_suspend
  <2>3. act => setup.preempt
    BY <2>2 DEF IInv, Returning
  <2>4. /\ pos' = pos /\ sec' = sec /\ ceil' = [ceil EXCEPT ![t] = "ret"]
        /\ flags \in [Task -> {"RUNNING", "SLEEP", "EXIT_SEM"}]
        /\ ceil \in [Task -> {"no", "prep", "ret"}]
    BY <1>5, <2>1 DEF ceiling_suspend, IInv, TypeOK
  <2>5. \A u \in setup.fmlp : ceil'[u] = "no"
    BY <1>2, <2>1, <2>4
  <2>6. \A u \in Task : pos'[u] = "down" => pos[u] = "down" /\ u # curr[c]
    BY <2>1, <2>4 DEF IInv, Returning
  <2>7. \A u \in Task : Claimant(u)' <=> Claimant(u)
    BY <2>4 DEF Claimant
  <2> QED BY <1>2, <2>2, <2>3, <2>4, <2>5, <2>6, <2>7, SwitchKeeps
<1>6. CASE srp_ceiling_block(c) \/ ceiling_return(c)
  BY <1>6, CeilingTestKeeps
<1> QED BY <1>1, <1>3, <1>4, <1>5, <1>6

\* A waiter goes to sleep, is woken, or comes back as the owner.
LEMMA WaiterKeeps ==
  ASSUME Undisturbed, IInv, IInv', Claimants, NEW c \in CPU,
         fmlp_suspend(c) \/ fmlp_got(c) \/ fmlp_wake(c), UNCHANGED <<setup, srpVars>>
  PROVE  Keeps
<1>1. /\ pos \in [Task -> {"user", "down", "got", "gone"}]
      /\ sec \in [Task -> {"no", "fmlp"} \cup SrpSem]
      /\ flags \in [Task -> {"RUNNING", "SLEEP", "EXIT_SEM"}]
      /\ waking \in [CPU -> Task \cup {NULL}] /\ NULL \notin Task
      /\ \A u \in Task : sec[u] = "fmlp" => u \in state
      /\ \A u \in setup.fmlp : ceil[u] = "no"
  BY ConstantsAssumption DEF IInv, TypeOK, Claimants, Inside
<1>2. CASE fmlp_suspend(c)
  <2>1. PICK t \in Task : t = curr[c] /\ pos[t] = "down"
    BY <1>2, CurrentTask DEF fmlp_suspend
  <2>2. /\ switch(c, FALSE, flags, state) /\ UNCHANGED <<sec, ceil, hp, waking>>
        /\ \A u \in Task : pos'[u] = IF u = t THEN "got" ELSE pos[u]
    BY <1>1, <1>2, <2>1 DEF fmlp_suspend
  <2>3. \A u \in Task : Claimant(u)' <=> Claimant(u)
    BY <2>1, <2>2 DEF Claimant
  <2>4. /\ \A u \in Task : pos'[u] = "down" => pos[u] = "down" /\ u # curr[c]
        /\ \A u \in setup.fmlp : ceil'[u] = "no"
    BY <1>1, <2>1, <2>2
  <2>5. PICK act \in BOOLEAN : act = FALSE
    OBVIOUS
  <2>6. switch(c, act, flags, state) /\ (act => setup.preempt)
    BY <2>2, <2>5
  <2> QED BY <1>1, <2>2, <2>3, <2>4, <2>6, SwitchKeeps
<1>3. CASE fmlp_got(c)
  <2>1. PICK t \in Task : t = curr[c] /\ pos[t] = "got" /\ t \in state
    BY <1>3, GotIsOwner
  <2>2. /\ UNCHANGED <<state, job, flags, inh_task, ceil, hp, waking>>
        /\ \A u \in Task : u # t => pos'[u] = pos[u] /\ sec'[u] = sec[u]
        /\ sec'[t] = "fmlp"
    BY <1>1, <1>3, <2>1 DEF fmlp_got
  <2>3. \A u \in Task : Claimant(u)' <=> Claimant(u)
    BY <2>1, <2>2 DEF Claimant
  <2>4. \A u \in Task : sec'[u] = "fmlp" => u \in state'
    BY <1>1, <2>1, <2>2
  <2>5. \A d \in CPU : waking'[d] # NULL =>
          waking'[d] \notin state' /\ flags'[waking'[d]] = "EXIT_SEM"
    BY <2>2, MarkKept
  <2> QED BY <1>1, <2>2, <2>3, <2>4, <2>5 DEF Keeps
<1>4. CASE fmlp_wake(c)
  <2>1. PICK w \in Task : w = waking[c]
    BY <1>1, <1>4 DEF fmlp_wake
  <2>2. c \in Waking /\ Home[w] \in CPU
    BY <1>1, <2>1, ConstantsAssumption DEF Waking
  <2>3. try_to_wake_up({w}, Home[w], c, FALSE)
    BY <1>4, <2>1 DEF fmlp_wake
  <2>4. /\ state' = state \cup {w}
        /\ \A u \in Task : u \notin {w} => job'[u] = job[u] /\ flags'[u] = flags[u]
        /\ \A u \in Task : flags[u] = "EXIT_SEM" => job'[u] = job[u]
    BY <2>2, <2>3, WakeUpOthers
  <2>5. flags[w] = "EXIT_SEM"
    BY <2>1, <2>2 DEF Claimants
  <2>6. \A u \in Task : job'[u] = job[u]
    BY <2>4, <2>5
  <2>7. UNCHANGED <<inh_task, pos, sec, ceil, hp>> /\ waking' = [waking EXCEPT ![c] = NULL]
    BY <1>4 DEF fmlp_wake
  <2>8. \A d \in CPU : waking'[d] = NULL
    <3>1. \A d \in CPU : d # c => d \notin Waking
      BY <2>2 DEF IInv, Semaphore, Waking
    <3> QED BY <1>1, <2>7, <3>1 DEF Waking
  <2>9. \A u \in Task : Claimant(u)' <=> Claimant(u)
    BY <2>7 DEF Claimant
  <2>10. \A u \in Task : sec'[u] = "fmlp" => u \in state'
    BY <1>1, <2>4, <2>7
  <2> QED BY <1>1, <2>6, <2>7, <2>8, <2>9, <2>10 DEF Keeps
<1> QED BY <1>2, <1>3, <1>4

\* Tasks with their own priorities are compared by them.
LEMMA OwnPriority ==
  ASSUME job \in [Task -> Job], NEW inh \in [Task -> Task \cup {NULL}],
         NEW a \in Task, NEW b \in Task, a # b, b \in rt,
         inh[a] \in {NULL, a}, inh[b] \in {NULL, b}
  PROVE  /\ edf_higher_prio(job, inh, a, b) <=> Precedes(a, b)
         /\ Precedes(a, b) \/ Precedes(b, a)
         /\ ~(Precedes(a, b) /\ Precedes(b, a))
<1>1. Task \subseteq Nat /\ NULL \notin Task
  BY ConstantsAssumption
<1>2. a \in Nat /\ b \in Nat /\ job[a].deadline \in Nat /\ job[b].deadline \in Nat
  BY <1>1 DEF Job
<1>3. /\ (IF a # NULL /\ inh[a] # NULL THEN inh[a] ELSE a) = a
      /\ (IF b # NULL /\ inh[b] # NULL THEN inh[b] ELSE b) = b
  BY <1>1
<1>4. edf_higher_prio(job, inh, a, b) <=> Precedes(a, b)
  BY <1>1, <1>3 DEF edf_higher_prio, Precedes
<1> QED BY <1>2, <1>4 DEF Precedes

LEMMA Transitive ==
  ASSUME job \in [Task -> Job], NEW a \in Task, NEW b \in Task, NEW d \in Task,
         Precedes(a, b), Precedes(b, d)
  PROVE  Precedes(a, d)
<1>1. a \in Nat /\ b \in Nat /\ d \in Nat /\ job[a].deadline \in Nat
      /\ job[b].deadline \in Nat /\ job[d].deadline \in Nat
  BY ConstantsAssumption DEF Job
<1> QED BY <1>1 DEF Precedes

\* A task that finds the semaphore in use becomes the candidate if it precedes
\* the present one.
LEMMA DownWaitsLeads ==
  ASSUME Undisturbed, IInv, IInv', Claimants, Leading, NEW c \in CPU, fmlp_down(c),
         UNCHANGED <<setup, srpVars>>, count' < 0 \/ wait # <<>>
  PROVE  Claimants' /\ Leading'
<1>1. PICK t \in Task : t = curr[c] /\ Home[t] = c /\ t \in rt
  BY CurrentTask DEF fmlp_down, InUser
<1>2. /\ InUser(t) /\ t \in setup.fmlp /\ sec[t] = "no" /\ Waking = {}
      /\ state' = state \ {t} /\ pos' = [pos EXCEPT ![t] = "down"] /\ pi_block(t)
      /\ UNCHANGED <<sec, job, flags, ceil, waking, setup>>
  BY <1>1 DEF fmlp_down
<1>3. /\ pos \in [Task -> {"user", "down", "got", "gone"}] /\ job \in [Task -> Job]
      /\ inh_task \in [Task -> Task \cup {NULL}] /\ hp \in [CPU -> Task \cup {NULL}]
      /\ NULL \notin Task /\ rt \subseteq Task
      /\ holder \in Task \cup {NULL}
  BY ConstantsAssumption DEF IInv, TypeOK, Job
<1>4. \A u \in Task : Claimant(u)' <=> Claimant(u) \/ u = t
  BY <1>2, <1>3 DEF Claimant
<1>5. ~Claimant(t) /\ inh_task[t] = NULL
  <2>1. ~Claimant(t)
    BY <1>2 DEF Claimant, InUser
  <2>2. wait # <<>> => Head(wait) \in Range(wait)
    <3>1. wait \in Seq(Task)
      BY DEF IInv, TypeOK
    <3> QED BY <3>1 DEF Range
  <2>3. ~is_np(t)
    BY <2>1, <2>2, WaitersOfRealTime DEF IInv, Semaphore, NpIsOwner, Claimant
  <2> QED BY <2>1, <2>3 DEF IInv, Inherited
<1>6. \A d \in CPU, u \in Task :
        /\ u \in Claims(d) <=> Home[u] = d /\ Claimant(u)
        /\ u \in Claims(d)' <=> Home[u] = d /\ (Claimant(u) \/ u = t)
  BY <1>4, ClaimsNow, ClaimsNext
<1>7. \A d \in CPU : Claims(d) \subseteq Task /\ Claims(d)' \subseteq Task
  BY DEF Claims
<1>8. Claimants'
  <2>1. \A d \in CPU : Claims(d)' \subseteq setup'.fmlp
    BY <1>2, <1>6, <1>7 DEF Claimants
  <2>2. \A u \in setup'.fmlp : ceil'[u] = "no"
    BY <1>2 DEF Claimants
  <2>3. Inside' \subseteq state'
    BY <1>2 DEF Inside, Claimants
  <2>4. Waking' = {}
    BY <1>2 DEF Waking
  <2> QED BY <2>1, <2>2, <2>3, <2>4 DEF Claimants
<1>9. \A d \in CPU : hp[d] # NULL => hp[d] \in Task /\ Home[hp[d]] = d /\ Claimant(hp[d])
                                       /\ hp[d] \in rt
  <2>1. \A d \in CPU : hp[d] # NULL => hp[d] \in Task /\ hp[d] \in Claims(d)
    BY <1>3 DEF IInv, Inherited
  <2> QED BY <1>6, <2>1, ClaimantFacts
<1>10. PICK raise \in BOOLEAN :
         /\ raise = edf_higher_prio(job, inh_task, t, hp[c])
         /\ hp' = IF raise THEN [hp EXCEPT ![c] = t] ELSE hp
         /\ inh_task' = IF raise /\ holder # NULL /\ Home[holder] = c
                        THEN [inh_task EXCEPT ![holder] = t] ELSE inh_task
  <2>1. edf_higher_prio(job, inh_task, t, hp[c]) \in BOOLEAN
    BY DEF edf_higher_prio
  <2> QED BY <1>1, <1>2, <2>1 DEF pi_block
<1>11. \A d \in CPU : hp'[d] = IF raise /\ d = c THEN t ELSE hp[d]
  BY <1>3, <1>10
<1>12. /\ hp[c] = NULL => raise
       /\ hp[c] # NULL => (raise <=> Precedes(t, hp[c])) /\ (~raise => Precedes(hp[c], t))
  <2>1. hp[c] = NULL => raise
    BY <1>3, <1>10 DEF edf_higher_prio
  <2>2. ASSUME hp[c] # NULL
        PROVE  (raise <=> Precedes(t, hp[c])) /\ (~raise => Precedes(hp[c], t))
    <3>1. PICK b \in Task : b = hp[c] /\ b # t /\ b \in rt
      BY <1>5, <1>9, <2>2
    <3>2. inh_task[b] \in {NULL, b}
      BY <2>2, <3>1 DEF Leading
    <3> QED BY <1>3, <1>5, <1>10, <3>1, <3>2, OwnPriority
  <2> QED BY <2>1, <2>2
<1>13. ASSUME NEW d \in CPU, NEW u \in Claims(d)' PROVE u = hp'[d] \/ Precedes(hp'[d], u)
  <2>1. u \in Task /\ Home[u] = d /\ (Claimant(u) \/ u = t)
    BY <1>6, <1>7
  <2>2. Claimant(u) => hp[d] # NULL /\ (u = hp[d] \/ Precedes(hp[d], u))
    BY <1>6, <2>1 DEF Leading
  <2>3. CASE d # c
    BY <1>1, <1>11, <2>1, <2>2, <2>3
  <2>4. CASE d = c /\ ~raise
    BY <1>11, <1>12, <2>1, <2>2, <2>4
  <2>5. CASE d = c /\ raise
    <3>1. hp'[d] = t
      BY <1>11, <2>5
    <3>2. Claimant(u) => Precedes(t, hp[c]) /\ hp[c] \in Task
      BY <1>9, <1>12, <2>2, <2>5
    <3> QED BY <1>3, <2>1, <2>2, <2>5, <3>1, <3>2, Transitive
  <2> QED BY <2>3, <2>4, <2>5
<1>14. ASSUME NEW d \in CPU, hp'[d] # NULL PROVE inh_task'[hp'[d]] \in {NULL, hp'[d]}
  <2>1. CASE d = c /\ raise
    <3>1. hp'[d] = t
      BY <1>11, <2>1
    <3> QED BY <1>3, <1>5, <1>10, <3>1
  <2>2. CASE ~(d = c /\ raise)
    <3>1. hp'[d] = hp[d] /\ hp[d] \in Task /\ Home[hp[d]] = d
      BY <1>9, <1>11, <1>14, <2>2
    <3>2. inh_task[hp[d]] \in {NULL, hp[d]}
      BY <1>14, <3>1 DEF Leading
    <3>3. inh_task'[hp[d]] = inh_task[hp[d]]
      BY <1>3, <1>10, <2>2, <3>1
    <3> QED BY <3>1, <3>2, <3>3
  <2> QED BY <2>1, <2>2
<1>15. ASSUME NEW d \in CPU, hp'[d] = NULL PROVE Claims(d)' = {}
  <2>1. hp[d] = NULL /\ d # c
    BY <1>3, <1>11, <1>12, <1>15
  <2>2. Claims(d) = {}
    BY <2>1 DEF Leading
  <2> QED BY <1>1, <1>6, <1>7, <2>1, <2>2
<1>16. Leading'
  BY <1>2, <1>13, <1>14, <1>15 DEF Leading, Precedes
<1> QED BY <1>8, <1>16

\* A task that finds the semaphore free is the only claimant.
LEMMA DownEntersLeads ==
  ASSUME Undisturbed, IInv, IInv', Claimants, Leading, NEW c \in CPU, fmlp_down(c),
         UNCHANGED <<setup, srpVars>>, ~(count' < 0 \/ wait # <<>>)
  PROVE  Claimants' /\ Leading'
<1>1. PICK t \in Task : t = curr[c] /\ Home[t] = c /\ t \in rt
  BY CurrentTask DEF fmlp_down, InUser
<1>2. /\ InUser(t) /\ t \in setup.fmlp /\ sec[t] = "no" /\ Waking = {}
      /\ count' = count - 1
      /\ hp' = [hp EXCEPT ![c] = t] /\ sec' = [sec EXCEPT ![t] = "fmlp"]
      /\ inh_task' = [inh_task EXCEPT ![t] = hp'[Home[t]]]
      /\ UNCHANGED <<state, pos, job, flags, ceil, waking, setup, wait>>
  BY <1>1 DEF fmlp_down, inherit_priority
<1>3. /\ sec \in [Task -> {"no", "fmlp"} \cup SrpSem]
      /\ inh_task \in [Task -> Task \cup {NULL}] /\ hp \in [CPU -> Task \cup {NULL}]
      /\ NULL \notin Task
  BY ConstantsAssumption DEF IInv, TypeOK
<1>4. wait = <<>> /\ Inside = {}
  <2>1. wait = <<>> /\ count - 1 >= 0 /\ count \in Int
    BY <1>2 DEF IInv, TypeOK
  <2>2. count = 1 - 0 - (IF Inside = {} THEN 0 ELSE 1)
    BY <2>1 DEF IInv, Semaphore
  <2> QED BY <2>1, <2>2
<1>5. \A u \in Task : ~Claimant(u)
  <2>1. Range(wait) = {}
    BY <1>4 DEF Range
  <2> QED BY <1>4, <2>1 DEF IInv, Semaphore, Inside, Claimant
<1>6. \A d \in CPU : Claims(d) = {} /\ hp[d] = NULL
  <2>1. \A d \in CPU : Claims(d) \subseteq Task
    BY DEF Claims
  <2>2. \A d \in CPU : Claims(d) = {}
    BY <1>5, <2>1, ClaimsNow
  <2> QED BY <2>2 DEF IInv, Inherited
<1>7. \A d \in CPU : Claims(d)' = IF d = c THEN {t} ELSE {}
  <2>1. \A u \in Task : Claimant(u)' <=> u = t
    BY <1>2, <1>3, <1>5 DEF Claimant
  <2>2. \A d \in CPU : Claims(d)' \subseteq Task
    BY DEF Claims
  <2>3. \A d \in CPU, u \in Task : u \in Claims(d)' <=> Home[u] = d /\ u = t
    BY <2>1, ClaimsNext
  <2> QED BY <1>1, <2>2, <2>3
<1>8. \A d \in CPU : hp'[d] = IF d = c THEN t ELSE NULL
  BY <1>2, <1>3, <1>6
<1>9. Claimants'
  <2>1. \A d \in CPU : Claims(d)' \subseteq setup'.fmlp
    BY <1>2, <1>7
  <2>2. \A u \in setup'.fmlp : ceil'[u] = "no"
    BY <1>2 DEF Claimants
  <2>3. Inside' \subseteq state'
    <3>1. t \in state
      BY <1>1, <1>2 DEF IInv, Placed, Returning, InUser
    <3> QED BY <1>2, <1>3, <1>4, <3>1 DEF Inside
  <2>4. Waking' = {}
    BY <1>2 DEF Waking
  <2> QED BY <2>1, <2>2, <2>3, <2>4 DEF Claimants
<1>10. Leading'
  <2>1. inh_task'[t] = t
    BY <1>1, <1>2, <1>3, <1>8
  <2>2. ASSUME NEW d \in CPU
        PROVE  /\ hp'[d] = NULL => Claims(d)' = {}
               /\ hp'[d] # NULL => inh_task'[hp'[d]] \in {NULL, hp'[d]}
               /\ \A u \in Claims(d)' : u = hp'[d]
    BY <1>3, <1>7, <1>8, <2>1
  <2> QED BY <2>2 DEF Leading
<1> QED BY <1>9, <1>10

\* The owner leaves; if it was the candidate of its processor, the highest
\* waiter there becomes it.
LEMMA UpLeads ==
  ASSUME Undisturbed, IInv, IInv', Claimants, Leading, NEW c \in CPU, fmlp_up(c),
         UNCHANGED <<setup, srpVars>>
  PROVE  Claimants' /\ Leading'
<1>1. PICK t \in Task : t = curr[c] /\ Home[t] = c /\ t \in rt
  BY CurrentTask DEF fmlp_up, InUser
<1> DEFINE w     == IF wait = <<>> THEN NULL ELSE Head(wait)
           wakes == count + 1 < 1 /\ w # NULL
           h     == IF hp[c] = t THEN [hp EXCEPT ![c] = edf_set_hp_cpu_task(c)] ELSE hp
           inh   == [inh_task EXCEPT ![t] = NULL]
<1>2. /\ wakes => w # NULL
      /\ w = IF wait = <<>> THEN NULL ELSE Head(wait)
      /\ h = IF hp[c] = t THEN [hp EXCEPT ![c] = edf_set_hp_cpu_task(c)] ELSE hp
      /\ inh = [inh_task EXCEPT ![t] = NULL]
      /\ InUser(t) /\ sec[t] = "fmlp" /\ Waking = {}
      /\ hp' = h
      /\ sec' = [sec EXCEPT ![t] = "no"]
      /\ flags' = IF wakes THEN [flags EXCEPT ![w] = "EXIT_SEM"] ELSE flags
      /\ inh_task' = IF wakes THEN [inh EXCEPT ![w] = h[Home[w]]] ELSE inh
      /\ waking' = [waking EXCEPT ![c] = IF wakes THEN w ELSE NULL]
      /\ UNCHANGED <<state, pos, job, ceil, wait, rt>>
  BY <1>1 DEF fmlp_up
<1> HIDE DEF w, wakes, h, inh
<1>3. /\ sec \in [Task -> {"no", "fmlp"} \cup SrpSem] /\ wait \in Seq(Task)
      /\ inh_task \in [Task -> Task \cup {NULL}] /\ hp \in [CPU -> Task \cup {NULL}]
      /\ flags \in [Task -> {"RUNNING", "SLEEP", "EXIT_SEM"}] /\ job \in [Task -> Job]
      /\ waking \in [CPU -> Task \cup {NULL}] /\ NULL \notin Task
  BY ConstantsAssumption DEF IInv, TypeOK, Job
<1>4. Inside = {t} /\ pos[t] = "user" /\ t \notin Range(wait)
  BY <1>2 DEF IInv, Semaphore, Inside, InUser
<1>5. \A u \in Task : u # t => ~is_np(u) /\ inh_task[u] = NULL
  BY <1>4 DEF IInv, Semaphore, Inherited, NpIsOwner, Inside
<1>6. \A u \in Task : /\ Claimant(u) <=> u = t \/ u \in Range(wait)
                      /\ Claimant(u)' <=> u \in Range(wait)
                      /\ u \in Range(wait) => u # t
  <2>1. \A u \in Task : u \in Range(wait) <=> pos[u] \in {"down", "got"}
    BY DEF IInv, Semaphore
  <2>2. \A u \in Task : /\ sec[u] = "fmlp" <=> u = t
                        /\ sec'[u] # "fmlp"
    BY <1>2, <1>3, <1>4 DEF Inside
  <2> QED BY <1>2, <1>4, <2>1, <2>2 DEF Claimant
<1>7. \A d \in CPU, u \in Task :
        /\ u \in Claims(d) <=> Home[u] = d /\ (u = t \/ u \in Range(wait))
        /\ u \in Claims(d)' <=> Home[u] = d /\ u \in Range(wait)
  BY <1>6, ClaimsNow, ClaimsNext
<1>8. \A d \in CPU : Claims(d) \subseteq Task /\ Claims(d)' \subseteq Task
  BY DEF Claims
<1>9. wakes => w \in Task /\ w \in Range(wait) /\ w # t
  <2>1. wakes => w = Head(wait) /\ wait # <<>>
    BY <1>2
  <2> QED BY <1>3, <1>4, <2>1 DEF Range
<1>10. Claimants'
  <2>1. \A d \in CPU : Claims(d)' \subseteq setup'.fmlp
    BY <1>7, <1>8 DEF Claimants
  <2>2. \A u \in setup'.fmlp : ceil'[u] = "no"
    BY <1>2 DEF Claimants
  <2>3. Inside' \subseteq state'
    BY <1>2, <1>3, <1>4 DEF Inside
  <2>4. ASSUME NEW d \in Waking' PROVE waking'[d] \notin state' /\ flags'[waking'[d]] = "EXIT_SEM"
    <3>1. d = c /\ wakes /\ waking'[d] = w
      BY <1>2, <1>3 DEF Waking
    <3>2. Claimant(w) /\ ~is_np(w)
      BY <1>5, <1>6, <1>9, <3>1
    <3>3. w \notin state
      BY <1>9, <3>1, <3>2, ClaimantFacts
    <3> QED BY <1>2, <1>3, <1>9, <3>1, <3>3
  <2> QED BY <2>1, <2>2, <2>3, <2>4 DEF Claimants
<1>11. \A d \in CPU : hp'[d] = IF d = c /\ hp[c] = t THEN edf_set_hp_cpu_task(c) ELSE hp[d]
  BY <1>2, <1>3
<1>12. ASSUME NEW d \in CPU, d = c /\ hp[c] = t
       PROVE  /\ hp'[d] = NULL => Claims(d)' = {}
              /\ \A u \in Claims(d)' : u = hp'[d] \/ Precedes(hp'[d], u)
  <2> DEFINE Q == {u \in Range(wait) : Home[u] = c}
  <2>1. hp'[c] = take_ready(job, inh_task, Q)
    BY <1>11, <1>12 DEF edf_set_hp_cpu_task
  <2>2. \A u : u \in Q => u \in Task /\ u \in rt /\ inh_task[u] = NULL
    BY <1>5, <1>6, WaitersOfRealTime
  <2>3. Claims(c)' = Q
    <3>1. \A u \in Task : u \in Claims(c)' <=> u \in Q
      BY <1>7
    <3> QED BY <1>8, <2>2, <3>1
  <2> HIDE DEF Q
  <2>4. CASE Q = {}
    BY <1>12, <2>3, <2>4
  <2>5. CASE Q # {}
    <3>1. PICK x \in Q : x = hp'[c] /\ \A u \in Q : ~edf_higher_prio(job, inh_task, u, x)
      <4>1. Q \in SUBSET Task /\ \A u \in Q : u \in rt /\ (inh_task[u] # NULL => inh_task[u] \in rt)
        BY <2>2
      <4> QED BY <1>3, <2>1, <2>5, <4>1, TakeReady
    <3>2. ASSUME NEW u \in Q, u # x PROVE Precedes(x, u)
      <4>1. ~edf_higher_prio(job, inh_task, u, x)
        BY <3>1
      <4> QED BY <1>3, <2>2, <3>2, <4>1, OwnPriority
    <3>3. hp'[c] # NULL
      BY <1>3, <2>2, <3>1
    <3> QED BY <1>12, <2>3, <3>1, <3>2, <3>3
  <2> QED BY <2>4, <2>5
<1>13. ASSUME NEW d \in CPU, ~(d = c /\ hp[c] = t)
       PROVE  /\ hp'[d] = NULL => Claims(d)' = {}
              /\ \A u \in Claims(d)' : u = hp'[d] \/ Precedes(hp'[d], u)
  <2>1. hp'[d] = hp[d]
    BY <1>11, <1>13
  <2>2. Claims(d)' \subseteq Claims(d)
    BY <1>7, <1>8
  <2> QED BY <2>1, <2>2 DEF Leading
<1>14. ASSUME NEW d \in CPU, hp'[d] # NULL PROVE inh_task'[hp'[d]] \in {NULL, hp'[d]}
  <2>1. PICK x \in Task : x = hp'[d] /\ x # t /\ Home[x] = d
    <3>1. hp'[d] \in Claims(d)'
      BY <1>14 DEF IInv, Inherited
    <3> QED BY <1>6, <1>7, <1>8, <3>1
  <2>2. inh_task[x] = NULL
    BY <1>5, <2>1
  <2>3. inh_task'[x] = IF wakes /\ x = w THEN hp'[Home[w]] ELSE NULL
    BY <1>2, <1>3, <1>9, <2>1, <2>2
  <2> QED BY <2>1, <2>3
<1>15. Leading'
  <2>1. job' = job
    BY <1>2
  <2>2. \A d \in CPU : /\ hp'[d] = NULL => Claims(d)' = {}
                      /\ \A u \in Claims(d)' : u = hp'[d] \/ Precedes(hp'[d], u)
    BY <1>12, <1>13
  <2>3. \A d \in CPU : hp'[d] # NULL => inh_task'[hp'[d]] \in {NULL, hp'[d]}
    BY <1>14
  <2> QED BY <2>1, <2>2, <2>3 DEF Leading, Precedes
<1> QED BY <1>10, <1>15

LEMMA InitLeading == Init => Claimants /\ Leading
<1>1. SUFFICES ASSUME Init PROVE Claimants /\ Leading
  OBVIOUS
<1>2. /\ sec = [t \in Task |-> "no"] /\ wait = <<>> /\ ceil = [t \in Task |-> "no"]
      /\ hp = [c \in CPU |-> NULL] /\ waking = [c \in CPU |-> NULL] /\ setup \in Setups
  BY <1>1 DEF Init, psnInit, fmlpInit, srpInit
<1>3. \A c \in CPU : Claims(c) = {}
  BY <1>2 DEF Claims, Range
<1>4. Inside = {} /\ Waking = {}
  BY <1>2 DEF Inside, Waking
<1>5. setup.fmlp \subseteq Task
  BY <1>2, ConstantsAssumption DEF Setup
<1> QED BY <1>2, <1>3, <1>4, <1>5 DEF Claimants, Leading

LEMMA LeadingStep ==
  ASSUME Undisturbed, IInv, IInv', Claimants, Leading, [Next]_vars
  PROVE  Claimants' /\ Leading'
<1>1. CASE UNCHANGED vars
  BY <1>1, SignalsKeep, Kept DEF vars
<1>2. CASE setup' = setup /\ psnNext(Waking) /\ UNCHANGED <<fmlpVars, srpVars>>
  BY <1>2, PsnKeeps, Kept
<1>3. CASE setup' = setup /\ fmlpNext /\ UNCHANGED srpVars
  <2>1. PICK c \in CPU : \/ fmlp_down(c) \/ fmlp_suspend(c) \/ fmlp_got(c) \/ fmlp_up(c)
                         \/ fmlp_wake(c)
    BY <1>3 DEF fmlpNext
  <2>2. CASE fmlp_down(c)
    BY <1>3, <2>2, DownWaitsLeads, DownEntersLeads
  <2>3. CASE fmlp_suspend(c) \/ fmlp_got(c) \/ fmlp_wake(c)
    BY <1>3, <2>3, WaiterKeeps, Kept
  <2>4. CASE fmlp_up(c)
    BY <1>3, <2>4, UpLeads
  <2> QED BY <2>1, <2>2, <2>3, <2>4
<1>4. CASE setup' = setup /\ srpNext(Waking) /\ UNCHANGED fmlpVars
  BY <1>4, SrpKeeps, Kept
<1> QED BY <1>1, <1>2, <1>3, <1>4 DEF Next

\* The candidate that Leading describes is the one that take_ready() would find.
LEMMA LeadingIsHighest == ASSUME IInv, Leading PROVE HighestWaiter
<1> DEFINE none == [t \in Task |-> NULL]
<1>1. SUFFICES ASSUME NEW c \in CPU, Claims(c) # {}
               PROVE  hp[c] = take_ready(job, none, Claims(c))
  <2>1. \A c \in CPU : Claims(c) = {} => hp[c] = NULL
    BY DEF IInv, Inherited
  <2> QED BY <2>1 DEF HighestWaiter
<1>2. /\ hp[c] \in Claims(c) /\ Claims(c) \subseteq Task
      /\ job \in [Task -> Job] /\ none \in [Task -> Task \cup {NULL}]
  BY <1>1 DEF IInv, TypeOK, Job, Inherited, Leading, Claims
<1>3. \A t \in Claims(c) : t \in rt
  <2>1. \A t \in Claims(c) : t \in Task /\ Claimant(t)
    BY <1>2, ClaimsNow
  <2> QED BY <2>1 DEF IInv, Outside, Claimant
<1>4. \A t \in Claims(c) : none[t] = NULL
  BY <1>2
<1> HIDE DEF none
<1>5. PICK x \in Claims(c) : /\ x = take_ready(job, none, Claims(c))
                             /\ \A u \in Claims(c) : ~edf_higher_prio(job, none, u, x)
  BY <1>1, <1>2, <1>3, <1>4, TakeReady
<1>6. SUFFICES ASSUME x # hp[c] PROVE FALSE
  BY <1>5
<1>7. Precedes(hp[c], x)
  BY <1>6 DEF Leading
<1>8. ~edf_higher_prio(job, none, hp[c], x)
  BY <1>2, <1>5
<1> QED BY <1>2, <1>3, <1>4, <1>6, <1>7, <1>8, OwnPriority

\* hp.cpu_task is never stale, whatever the owner and the waiters do, in set-ups
\* where no claimant gets a new job: on a kernel that is not preemptible, on
\* processors without SRP semaphores.
THEOREM CandidateNeverStale ==
  ASSUME SeparateUse PROVE Spec => []HighestWaiter
<1>1. Spec => []IInv
  BY Invariance
<1>2. Init => (Undisturbed => Claimants /\ Leading)
  BY InitLeading
<1>3. ASSUME IInv, IInv', Undisturbed => Claimants /\ Leading, [Next]_vars, Undisturbed'
      PROVE  Claimants' /\ Leading'
  <2>1. setup' = setup
    BY <1>3 DEF Next, vars
  <2>2. Undisturbed
    BY <1>3, <2>1 DEF Undisturbed
  <2> QED BY <1>3, <2>2, LeadingStep
<1>4. IInv /\ (Undisturbed => Claimants /\ Leading) => HighestWaiter
  <2>1. ASSUME ~Undisturbed PROVE HighestWaiter
    BY <2>1 DEF HighestWaiter
  <2> QED BY <2>1, LeadingIsHighest
<1> QED BY <1>1, <1>2, <1>3, <1>4, PTL DEF Spec
=============================================================================
