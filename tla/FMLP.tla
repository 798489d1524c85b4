-------------------------------- MODULE FMLP --------------------------------
(***************************************************************************)
(* An FMLP semaphore (litmus/fmlp.c) under PSN-EDF, with the callbacks     *)
(* psnedf_pi_block(), psnedf_inherit_priority() and                        *)
(* psnedf_return_priority().                                               *)
(*                                                                         *)
(* Tasks queue in FIFO order; up() hands the semaphore to the first one by *)
(* waking it, and the woken task does not look whether it has it.  Between *)
(* down() dropping the lock of the wait queue and calling schedule(), the  *)
(* task may be woken or, with CONFIG_PREEMPT, preempted.  up() changes the *)
(* flags of the waiter before it takes any lock of its processor; these    *)
(* are two steps.                                                          *)
(***************************************************************************)
EXTENDS PSNEDF

VARIABLES
  count,    \* sem->count
  holder,   \* sem->holder
  wait,     \* sem->wait, oldest entry first
  hp,       \* sem->hp.cpu_task
  waking    \* waking[c]: the task that do_fmlp_up() on c is about to wake

fmlpVars == <<count, holder, wait, hp, waking>>

\* sem->wait.lock is held, with interrupts disabled, from the choice of a
\* waiter to its wake-up.
Waking == {c \in CPU : waking[c] # NULL}

\* Mutant: new waiters go to the front.
add_wait_queue_front(q, t) == <<t>> \o q

add_wait_queue_exclusive_locked(q, t) == Append(q, t)

\* Mutant: waiters of other processors count, too.
edf_set_hp_any_task(c) == take_ready(job, inh_task, Range(wait))

\* The waiter on c with the highest priority.
edf_set_hp_cpu_task(c) ==
  take_ready(job, inh_task, {t \in Range(wait) : Home[t] = c})

\* psnedf_inherit_priority(): new inherited priorities and np counters.
inherit_priority(t, hps) ==
  /\ inh_task' = [inh_task EXCEPT ![t] = hps[Home[t]]]
  /\ kernel_np' = make_np(kernel_np, t)

\* psnedf_pi_block(): a waiter of a higher priority than those of its
\* processor; the recorded holder inherits it.
pi_block(t) ==
  LET c     == Home[t]
      raise == edf_higher_prio(job, inh_task, t, hp[c])
      inh   == IF raise /\ holder # NULL /\ Home[holder] = c
               THEN [inh_task EXCEPT ![holder] = t] ELSE inh_task
  IN
  /\ hp' = IF raise THEN [hp EXCEPT ![c] = t] ELSE hp
  /\ inh_task' = inh
  /\ preempt(raise /\ edf_preemption_needed(job, inh, ready[c], t), c, c,
             kernel_np)

\* do_fmlp_down() up to the release of sem->wait.lock.
fmlp_down(c) ==
  LET t == curr[c] IN
  /\ InUser(t) /\ t \in setup.fmlp /\ sec[t] = "no" /\ Waking = {}
  /\ count' = count - 1
  /\ IF count' < 0 \/ wait # <<>>
     THEN /\ state' = state \ {t}
          /\ wait' = add_wait_queue_exclusive_locked(wait, t)
          /\ pi_block(t)
          /\ pos' = [pos EXCEPT ![t] = "down"]
          /\ UNCHANGED <<holder, sec, kernel_np>>
     ELSE /\ holder' = t
          /\ hp' = [hp EXCEPT ![c] = t]
          /\ inherit_priority(t, hp')
          /\ sec' = [sec EXCEPT ![t] = "fmlp"]
          /\ UNCHANGED <<wait, pos, state, sigVars>>
  /\ UNCHANGED <<now, rt, on_rq, jobVars, queueVars, scheduled, curr, tail,
                 active, ceil, waking, panic>>

\* The waiter calls schedule().
fmlp_suspend(c) ==
  LET t == curr[c] IN
  /\ t # NULL /\ pos[t] = "down" /\ active[t] = "no"
  /\ switch(c, FALSE, flags, state)
  /\ pos' = [pos EXCEPT ![t] = "got"]
  /\ tail' = tail \cup {t}
  /\ resume(c, active)
  /\ UNCHANGED <<ceil, sec, fmlpVars>>

\* "woke up, now owns PI lock": remove_wait_queue() and back to user mode.
fmlp_got(c) ==
  LET t == curr[c] IN
  /\ t # NULL /\ pos[t] = "got" /\ t \notin tail /\ active[t] = "no"
  /\ ceil[t] = "no" /\ Waking = {}
  /\ wait' = list_del(wait, t)
  /\ pos' = [pos EXCEPT ![t] = "user"]
  /\ sec' = [sec EXCEPT ![t] = "fmlp"]
  /\ UNCHANGED <<now, rt, state, on_rq, jobVars, prioVars, queueVars, scheduled,
                 curr, tail, active, ceil, sigVars, panic, count, holder, hp,
                 waking>>

\* rt_pi_wake_up() overwrites wait->private of the entry it wakes: nobody may
\* read the entry as a wq_pair again.
Converted(traversed, wakes) ==
  \/ traversed /\ \E u \in Range(wait) : kernel_np[u] > 0
  \/ wakes /\ kernel_np[Head(wait)] > 0

\* do_fmlp_up(): return_priority(), and what rt_pi_wake_up() does to the first
\* waiter before it wakes it.
fmlp_up(c) ==
  LET t     == curr[c]
      h     == IF hp[c] = t THEN [hp EXCEPT ![c] = edf_set_hp_cpu_task(c)] ELSE hp
      w     == IF wait = <<>> THEN NULL ELSE Head(wait)
      wakes == count + 1 < 1 /\ w # NULL
      np    == take_np(kernel_np, t)
      inh   == [inh_task EXCEPT ![t] = NULL]
  IN
  /\ InUser(t) /\ sec[t] = "fmlp" /\ Waking = {}
  /\ hp' = h
  /\ preempt(edf_preemption_needed(job, inh, ready[c], t), c, c, np)
  /\ BugOn(np[t] # 0 \/ Converted(hp[c] = t, wakes))
  /\ holder' = NULL
  /\ count' = count + 1
  /\ sec' = [sec EXCEPT ![t] = "no"]
  /\ flags' = IF wakes THEN [flags EXCEPT ![w] = "EXIT_SEM"] ELSE flags
  /\ inh_task' = IF wakes THEN [inh EXCEPT ![w] = h[Home[w]]] ELSE inh
  /\ kernel_np' = IF wakes THEN make_np(np, w) ELSE np
  /\ waking' = [waking EXCEPT ![c] = IF wakes THEN w ELSE NULL]
  /\ UNCHANGED <<now, rt, state, on_rq, job, spent, queueVars, scheduled, curr,
                 pos, tail, active, ceil, wait>>

\* default_wake_function() of rt_pi_wake_up().
fmlp_wake(c) ==
  /\ waking[c] # NULL
  /\ try_to_wake_up({waking[c]}, Home[waking[c]], c, FALSE)
  /\ waking' = [waking EXCEPT ![c] = NULL]
  /\ UNCHANGED <<now, rt, prioVars, scheduled, curr, posVars, count, holder,
                 wait, hp>>

fmlpInit ==
  /\ count = 1 /\ holder = NULL /\ wait = <<>>
  /\ hp = [c \in CPU |-> NULL] /\ waking = [c \in CPU |-> NULL]

fmlpNext ==
  \E c \in CPU :
    \/ /\ c \notin Waking
       /\ fmlp_down(c) \/ fmlp_suspend(c) \/ fmlp_got(c) \/ fmlp_up(c)
    \/ fmlp_wake(c)
=============================================================================
