------------------------------- MODULE PSNEDF -------------------------------
(***************************************************************************)
(* The partitioned plugin PSN-EDF (litmus/sched_psn_edf.c) under           *)
(* schedule() of kernel/sched.c, as far as the locking protocols build on  *)
(* it: modules FMLP and SRP add the semaphores, module PartSync composes   *)
(* the three.                                                              *)
(*                                                                         *)
(* A task never leaves its partition, so schedule() keeps the lock of its  *)
(* runqueue from the call of deactivate_task() to the context switch and   *)
(* is one step.  What matters is where in the kernel a task is when it is  *)
(* switched out: with CONFIG_PREEMPT it may be preempted between setting   *)
(* its state and calling schedule(), and every schedule() ends with the    *)
(* test of the SRP ceiling (SRP!srp_ceiling_block).  The background work   *)
(* of a processor is one entity, curr[c] = NULL.  Interrupts and time may  *)
(* be arbitrarily late.  Non-preemptive sections of user space are not     *)
(* modelled here (see GSNEDF), only those of semaphore holders.            *)
(***************************************************************************)
EXTENDS Integers, Sequences, FiniteSets, Functions

CONSTANTS
  Task,        \* tasks, named by their pid
  CPU,         \* online processors
  NULL,        \* no task
  Period,      \* Period[t]: period and relative deadline
  Home,        \* Home[t]: get_partition(t)
  SrpSem,      \* SRP semaphores
  Setups,      \* set-ups of kernel and tasks to choose from
  Leaving      \* tasks that leave real-time mode, for good

\* preempt: CONFIG_PREEMPT, is the kernel preemptible?  tasks: tasks that
\* become real-time.  enforced: tasks with budget enforcement.  fmlp: users of
\* the FMLP semaphore.  srp: users of the SRP semaphores.  suspending: tasks
\* that block outside of critical sections.  end: bound, the clock stops here.
Setup == [preempt : BOOLEAN, tasks : SUBSET Task, enforced : SUBSET Task,
          fmlp : SUBSET Task, srp : [SrpSem -> SUBSET Task],
          suspending : SUBSET Task, end : Nat]

ASSUME ConstantsAssumption ==
  /\ Task \subseteq Nat /\ CPU \cap Task = {}
  /\ NULL \notin Task \cup CPU
  /\ SrpSem \cap {"no", "fmlp"} = {}
  /\ Period \in [Task -> Nat \ {0}] /\ Home \in [Task -> CPU]
  /\ Setups \subseteq Setup
  /\ Leaving \subseteq Task

VARIABLES
  setup,      \* never changes
  now,        \* litmus_clock()
  rt,         \* tasks for which is_realtime() holds
  state,      \* tasks with state = TASK_RUNNING
  on_rq,      \* tasks that deactivate_task() has not removed
  flags,      \* RT_F_RUNNING, RT_F_SLEEP or RT_F_EXIT_SEM
  job,        \* job parameters: release and deadline
  spent,      \* tasks for which budget_exhausted() holds
  kernel_np,  \* kernel_np counter
  inh_task,   \* whose priority the task has inherited
  ready,      \* ready[c]: ready queue of the domain of c
  relq,       \* relq[c]: release queue
  scheduled,  \* pedf->scheduled
  curr,       \* rq->curr
  pos,        \* where the task is: "user", in do_fmlp_down(), or "gone"
  tail,       \* tasks in a schedule() that has not tested the ceiling yet
  active,     \* PREEMPT_ACTIVE: "no", "nest" if the preempting schedule()
              \* tests the ceiling, "hold" if it was called while blocking
  ceil,       \* in do_ceiling_block(): "no", "prep"aring or "ret"urned
  sec,        \* the critical section the task executes
  tif,        \* TIF_NEED_RESCHED: of tasks, and of the background of a CPU
  ipi,        \* processors with a pending reschedule interrupt
  panic       \* has a BUG_ON() or WARN_ON() fired?

jobVars   == <<flags, job, spent>>
queueVars == <<ready, relq>>
posVars   == <<pos, tail, active, ceil, sec>>
prioVars  == <<kernel_np, inh_task>>
sigVars   == <<tif, ipi>>

psnVars == <<now, rt, state, on_rq, jobVars, prioVars, queueVars, scheduled,
             curr, posVars, sigVars, panic>>

-----------------------------------------------------------------------------
(* Jobs and priorities                                                     *)

release_at(t, at) == [release |-> at, deadline |-> at + Period[t]]

prepare_for_next_period(t, j) == release_at(t, j.deadline)

is_released(j) == j.release <= now
is_tardy(j)    == j.deadline <= now

is_np(t) == kernel_np[t] > 0

\* Mutant: PREEMPT_ACTIVE is ignored.
is_running_state(t, st, act) == t \in st

\* With states st, and PREEMPT_ACTIVE of t.
is_running(t, st, act) == t \in st \/ act

make_np(np, t) == [np EXCEPT ![t] = @ + 1]
take_np(np, t) == [np EXCEPT ![t] = @ - 1]

is_queued(t) == \E c \in CPU : t \in ready[c] \cup relq[c]

\* With inherited priorities inh and jobs js.
edf_higher_prio(js, inh, a, b) ==
  LET first  == IF a # NULL /\ inh[a] # NULL THEN inh[a] ELSE a
      second == IF b # NULL /\ inh[b] # NULL THEN inh[b] ELSE b
  IN
  /\ a # b /\ a # NULL
  /\ second \in rt =>
       \/ js[first].deadline < js[second].deadline
       \/ /\ js[first].deadline = js[second].deadline
          /\ first < second \/ (first = second /\ inh[b] = NULL)

\* What __take_ready() takes from a queue.
take_ready(js, inh, queue) ==
  IF queue = {} THEN NULL
  ELSE CHOOSE t \in queue : \A u \in queue : ~edf_higher_prio(js, inh, u, t)

edf_preemption_needed(js, inh, queue, t) ==
  queue # {} /\ (t \in rt => edf_higher_prio(js, inh, take_ready(js, inh, queue), t))

Current(c) == IF curr[c] = NULL THEN c ELSE curr[c]

\* preempt() of the domain of c, on processor e, if `need' holds;
\* preempt_if_preemptable() does not disturb a holder of a semaphore.
preempt(need, c, e, np) ==
  LET t     == scheduled[c]
      yield == need /\ (t # NULL => np[t] = 0)
  IN /\ tif' = IF yield /\ c = e
               THEN tif \cup {IF t # NULL THEN t ELSE Current(c)} ELSE tif
     /\ ipi' = IF yield /\ c # e THEN ipi \cup {c} ELSE ipi

\* Tasks ts of the domain of c become ready, or wait for their release;
\* psnedf_check_resched() looks at the result.
requeue(ts, c, e, js, force) ==
  LET queue == ready[c] \cup {t \in ts : is_released(js[t])} IN
  /\ ready' = [ready EXCEPT ![c] = queue]
  /\ relq' = [relq EXCEPT ![c] = @ \cup {t \in ts : ~is_released(js[t])}]
  /\ preempt(\/ force
             \/ /\ queue # ready[c]
                /\ edf_preemption_needed(js, inh_task, queue, scheduled[c]),
             c, e, kernel_np)

BugOn(cond) == panic' = (panic \/ cond)

\* Removes an entry, if it is there, from a list.
list_del(l, x) ==
  IF x \in Range(l)
  THEN LET k == CHOOSE i \in 1 .. Len(l) : l[i] = x
       IN [i \in 1 .. (Len(l) - 1) |-> IF i < k THEN l[i] ELSE l[i + 1]]
  ELSE l

-----------------------------------------------------------------------------
(* The plugin                                                              *)

\* t becomes a real-time task; psnedf_task_new().
task_new(t, e) ==
  LET c  == Home[t]
      js == [job EXCEPT ![t] = release_at(t, now)]
  IN
  /\ t \in setup.tasks \ rt /\ pos[t] = "user" /\ now = 0
  /\ rt' = rt \cup {t}
  /\ job' = js
  /\ \/ /\ e = c /\ curr[c] = NULL
        /\ BugOn(scheduled[c] # NULL)
        /\ scheduled' = [scheduled EXCEPT ![c] = t]
        /\ curr' = [curr EXCEPT ![c] = t]
        /\ tif' = IF c \in tif THEN (tif \ {c}) \cup {t} ELSE tif
        /\ UNCHANGED <<queueVars, ipi, tail>>
     \/ /\ requeue({t}, c, e, js, TRUE)
        /\ tail' = tail \cup {t}
        /\ UNCHANGED <<scheduled, curr, panic>>
  /\ UNCHANGED <<now, state, on_rq, flags, spent, prioVars, pos, active, ceil,
                 sec>>

\* Is t executing user code, or a system call that has not done anything?
InUser(t) ==
  /\ t # NULL
  /\ pos[t] = "user" /\ t \notin tail /\ active[t] = "no" /\ ceil[t] = "no"

\* psnedf_task_exit() of the current task.
task_exit(c) ==
  LET t == curr[c] IN
  /\ InUser(t) /\ t \in Leaving /\ sec[t] = "no"
  /\ rt' = rt \ {t}
  /\ BugOn(is_queued(t))
  /\ scheduled' = [scheduled EXCEPT ![c] = NULL]
  /\ curr' = [curr EXCEPT ![c] = NULL]
  /\ tif' = (tif \ {t}) \cup {c}
  /\ job' = [job EXCEPT ![t] = [release |-> 0, deadline |-> 0]]
  /\ spent' = spent \ {t}
  /\ pos' = [pos EXCEPT ![t] = "gone"]
  /\ UNCHANGED <<now, state, on_rq, flags, prioVars, queueVars, tail, active,
                 ceil, sec, ipi>>

\* psnedf_task_wake_up() for tasks ts of the partition c, on processor e; `warn'
\* is a WARN_ON() of the caller.
task_wake_up(ts, c, e, warn) ==
  LET new == {t \in ts : is_tardy(job[t]) /\ flags[t] # "EXIT_SEM"}
      js  == [t \in Task |-> IF t \in new THEN release_at(t, now) ELSE job[t]]
  IN
  /\ job' = js
  /\ spent' = spent \ new
  /\ requeue(ts \ {scheduled[c]}, c, e, js, FALSE)
  /\ flags' = [t \in Task |-> IF t \in ts \ {scheduled[c]} THEN "RUNNING"
                              ELSE flags[t]]
  /\ BugOn(warn \/ \E t \in ts : is_queued(t))

\* try_to_wake_up() for tasks ts of the partition c: those that have not been
\* deactivated yet only change their state.
try_to_wake_up(ts, c, e, warn) ==
  /\ state' = state \cup ts
  /\ on_rq' = on_rq \cup ts
  /\ task_wake_up(ts \ on_rq, c, e, warn)

\* What a task waits for when it blocks outside of the locking protocols.
wake(t, e) ==
  /\ t \notin state /\ pos[t] = "user" /\ ceil[t] = "no"
  /\ try_to_wake_up({t}, Home[t], e, FALSE)
  /\ UNCHANGED <<now, rt, prioVars, scheduled, curr, posVars>>

\* on_release_timer() for the jobs of partition c released at r.
on_release_timer(c, e, r) ==
  LET heap  == {t \in relq[c] : job[t].release = r}
      queue == ready[c] \cup heap
  IN
  /\ r <= now /\ heap # {}
  /\ relq' = [relq EXCEPT ![c] = @ \ heap]
  /\ ready' = [ready EXCEPT ![c] = queue]
  /\ preempt(edf_preemption_needed(job, inh_task, queue, scheduled[c]), c, e,
             kernel_np)
  /\ UNCHANGED <<now, rt, state, on_rq, jobVars, prioVars, scheduled, curr,
                 posVars, panic>>

\* The budget of the current task has run out; psnedf_tick().
tick(c) ==
  LET t == curr[c] IN
  /\ t \in setup.enforced \ spent
  /\ BugOn(t # scheduled[c])
  /\ spent' = spent \cup {t}
  /\ tif' = IF is_np(t) THEN tif ELSE tif \cup {t}
  /\ UNCHANGED <<now, rt, state, on_rq, flags, job, prioVars, queueVars,
                 scheduled, curr, posVars, ipi>>

reschedule_interrupt(c) ==
  /\ c \in ipi
  /\ ipi' = ipi \ {c}
  /\ tif' = tif \cup {Current(c)}
  /\ UNCHANGED <<now, rt, state, on_rq, jobVars, prioVars, queueVars, scheduled,
                 curr, posVars, panic>>

clock ==
  /\ now < setup.end
  /\ now' = now + 1
  /\ UNCHANGED <<rt, state, on_rq, jobVars, prioVars, queueVars, scheduled, curr,
                 posVars, sigVars, panic>>

-----------------------------------------------------------------------------
(* schedule()                                                              *)

\* deactivate_task(), psnedf_schedule() and the context switch on c; `act' is
\* PREEMPT_ACTIVE of the current task, fl the flags, st the states with which
\* it is called.
switch(c, act, fl, st) ==
  LET t           == scheduled[c]
      exists      == t # NULL
      blocks      == exists /\ ~is_running(t, st, act)
      np          == exists /\ is_np(t)
      out_of_time == exists /\ t \in spent
      sleep       == exists /\ fl[t] = "SLEEP"
      preempts    == edf_preemption_needed(job, inh_task, ready[c], curr[c])
      completes   == ~np /\ (out_of_time \/ sleep) /\ ~blocks
      resched     == preempts \/ blocks \/ completes
      js          == IF completes
                     THEN [job EXCEPT ![t] = prepare_for_next_period(t, @)]
                     ELSE job
      choose      == (~np \/ blocks) /\ (resched \/ ~exists)
      again       == choose /\ exists /\ ~blocks
      queue       == IF again /\ is_released(js[t]) THEN ready[c] \cup {t}
                     ELSE ready[c]
      next        == IF choose THEN take_ready(js, inh_task, queue) ELSE t
      resumed     == IF queue # ready[c]
                        /\ edf_preemption_needed(js, inh_task, queue, t)
                     THEN {t} ELSE {}
  IN
  /\ state' = st
  /\ on_rq' = IF exists /\ t \notin st /\ ~act THEN on_rq \ {t} ELSE on_rq
  /\ job' = js
  /\ spent' = IF completes THEN spent \ {t} ELSE spent
  /\ ready' = [ready EXCEPT ![c] = queue \ (IF choose THEN {next} ELSE {})]
  /\ relq' = IF again /\ ~is_released(js[t])
             THEN [relq EXCEPT ![c] = @ \cup {t}] ELSE relq
  /\ flags' = [u \in Task |-> IF u = next \/ (u = t /\ again) THEN "RUNNING"
                              ELSE fl[u]]
  /\ scheduled' = [scheduled EXCEPT ![c] = next]
  /\ curr' = [curr EXCEPT ![c] = next]
  /\ tif' = (tif \ {Current(c)}) \cup resumed
  /\ BugOn(\/ exists /\ (t # curr[c] \/ t \notin rt)
           \/ blocks /\ is_queued(t))
  /\ UNCHANGED <<now, rt, prioVars, ipi>>

\* A task that was preempted while it was about to block just goes on: its
\* srp_non_recurse is set.
resume(c, act) ==
  active' = IF curr'[c] # NULL /\ act[curr'[c]] = "hold"
            THEN [act EXCEPT ![curr'[c]] = "no"] ELSE act

\* schedule() on the way to user mode, and its loop `while need_resched()'.
schedule(c) ==
  LET t == curr[c]
      looping == t # NULL /\ ceil[t] = "no" /\ (t \in tail \/ active[t] = "nest")
  IN
  /\ Current(c) \in tif
  /\ t = NULL \/ InUser(t) \/ looping
  /\ switch(c, looping /\ active[t] = "nest", flags, state)
  /\ tail' = IF t = NULL \/ looping THEN tail ELSE tail \cup {t}
  /\ resume(c, active)
  /\ UNCHANGED <<pos, ceil, sec>>

\* preempt_schedule() and preempt_schedule_irq(): the state of the task is
\* ignored.
preempt_schedule(c) ==
  LET t == curr[c] IN
  /\ setup.preempt /\ t # NULL /\ t \in tif /\ active[t] = "no"
  /\ switch(c, TRUE, flags, state)
  /\ resume(c, [active EXCEPT ![t] = IF ceil[t] = "no" THEN "nest" ELSE "hold"])
  /\ UNCHANGED <<pos, tail, ceil, sec>>

complete_job(c) ==
  LET t == curr[c] IN
  /\ InUser(t) /\ sec[t] = "no"
  /\ switch(c, FALSE, [flags EXCEPT ![t] = "SLEEP"], state)
  /\ tail' = tail \cup {t}
  /\ resume(c, active)
  /\ UNCHANGED <<pos, ceil, sec>>

\* The task suspends itself; psnedf_task_block().
block(c) ==
  LET t == curr[c] IN
  /\ InUser(t) /\ t \in setup.suspending /\ sec[t] = "no"
  /\ switch(c, FALSE, flags, state \ {t})
  /\ tail' = tail \cup {t}
  /\ resume(c, active)
  /\ UNCHANGED <<pos, ceil, sec>>

-----------------------------------------------------------------------------
psnInit ==
  /\ setup \in Setups
  /\ now = 0
  /\ rt = {} /\ state = Task /\ on_rq = Task
  /\ flags = [t \in Task |-> "RUNNING"]
  /\ job = [t \in Task |-> [release |-> 0, deadline |-> 0]]
  /\ spent = {}
  /\ kernel_np = [t \in Task |-> 0]
  /\ inh_task = [t \in Task |-> NULL]
  /\ ready = [c \in CPU |-> {}] /\ relq = [c \in CPU |-> {}]
  /\ scheduled = [c \in CPU |-> NULL] /\ curr = [c \in CPU |-> NULL]
  /\ pos = [t \in Task |-> "user"]
  /\ tail = {}
  /\ active = [t \in Task |-> "no"]
  /\ ceil = [t \in Task |-> "no"]
  /\ sec = [t \in Task |-> "no"]
  /\ tif = {} /\ ipi = {}
  /\ panic = FALSE

\* busy: processors with interrupts disabled.
psnNext(busy) ==
  \/ \E t \in Task, e \in CPU \ busy : task_new(t, e) \/ wake(t, e)
  \/ \E c \in CPU, e \in CPU \ busy, r \in 0 .. now : on_release_timer(c, e, r)
  \/ \E c \in CPU \ busy :
       \/ task_exit(c)
       \/ tick(c)
       \/ reschedule_interrupt(c)
       \/ schedule(c)
       \/ preempt_schedule(c)
       \/ complete_job(c)
       \/ block(c)
  \/ clock
=============================================================================
