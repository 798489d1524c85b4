------------------------------ MODULE SemiPart ------------------------------
(***************************************************************************)
(* The semi-partitioned plugins EDF-WM, C=D and HIME of LITMUS^RT          *)
(* (litmus/sched_edf_wm.c, sched_cd.c, sched_hime.c) under the LITMUS      *)
(* scheduling class (litmus/sched_litmus.c), with the budget enforcement   *)
(* timers (litmus/budget.c) they depend on.                                *)
(*                                                                         *)
(* Every processor has a domain of its own.  A sliced task executes on     *)
(* one processor until the budget of its current slice is exhausted and    *)
(* then migrates to the processor of the next slice.  The plugins do this  *)
(* by overwriting the job parameters with those of the slice, and hand a   *)
(* task over to another domain only after they have dropped the lock of    *)
(* their own.  The three plugins share their code except for the           *)
(* parameters of a slice; which one is active is chosen initially.         *)
(*                                                                         *)
(* A critical section under the lock of a domain is one step.  All         *)
(* background work of a processor is one entity, curr[c] = NULL.  The      *)
(* release queue of a domain and its timers are a set (their detail is the *)
(* subject of module RtDomain).  Not modelled: the 10ms limit of           *)
(* litmus_schedule(), QUANTUM_ENFORCEMENT, interrupted waits for a         *)
(* synchronous release.                                                    *)
(***************************************************************************)
EXTENDS Naturals, Sequences

CONSTANTS
  Plugins,     \* the plugins to choose from
  Task,        \* tasks that may become real-time, named by their pid
  CPU,         \* online processors
  NULL,        \* no task, or no timer
  NO_CPU,      \* no processor
  Period,      \* Period[t]: period and relative deadline
  Cost,        \* Cost[t]: execution cost of a job
  Home,        \* Home[t]: the partition the task is admitted to
  Slices,      \* Slices[t]: its slices, none for a regular task
  Precise,     \* tasks with PRECISE_ENFORCEMENT, the others have none
  Completing,  \* tasks that end their jobs with complete_job()
  Suspending,  \* tasks that block and are woken
  Yielding,    \* who calls schedule() without need (NULL: the background)
  Synched,     \* tasks that wait for a synchronous release when they start
  Leaving,     \* tasks that leave real-time mode
  Queued,      \* tasks that wait for a processor when they become real-time
  MIN_SLICE,   \* MIN_EDF_WM_SLICE_SIZE, MIN_CD_SLICE_SIZE, MIN_HIME_SLICE_SIZE
  MaxTime,     \* bound: the clock stops here
  AdmitUntil,  \* bound: no task becomes real-time after this time
  Latency,     \* does time pass in the scheduler and before interrupts?
  BlockExhausted \* may a task block when its budget has just run out?

Slice == [cpu : CPU, budget : Nat \ {0}, offset : Nat, deadline : Nat]

ASSUME ConstantsAssumption ==
  /\ Plugins \subseteq {"EDF-WM", "C=D", "HIME"} /\ Plugins # {}
  /\ Task \subseteq Nat /\ NULL \notin Task \cup Nat
  /\ NO_CPU \notin CPU /\ CPU \cap Task = {}
  /\ Period \in [Task -> Nat \ {0}] /\ Cost \in [Task -> Nat \ {0}]
  /\ Home \in [Task -> CPU] /\ Slices \in [Task -> Seq(Slice)]
  /\ Precise \subseteq Task /\ Completing \subseteq Task
  /\ Suspending \subseteq Task /\ Synched \subseteq Task
  /\ Leaving \subseteq Task /\ Yielding \subseteq Task \cup {NULL}
  /\ Queued \subseteq Task
  /\ MIN_SLICE \in Nat /\ MaxTime \in Nat /\ AdmitUntil \in Nat
  /\ Latency \in BOOLEAN /\ BlockExhausted \in BOOLEAN

VARIABLES
  plugin,       \* the active plugin
  now,          \* litmus_clock()
  rt,           \* tasks for which is_realtime() holds
  running,      \* tasks for which is_running() holds
  flags,        \* RT_F_RUNNING or RT_F_SLEEP
  job,          \* job parameters, cpu and exec_cost, and semi_part
  sync,         \* where a task is with respect to the synchronous release
  ready,        \* ready[d]: ready queue of the domain of d
  relq,         \* relq[d]: release queue of the domain of d
  scheduled,    \* dom->scheduled
  hand,         \* hand[c]: task that c will add to another domain
  curr,         \* rq->curr
  task_cpu,     \* runqueue a task belongs to
  stack_in_use, \* rt_param.stack_in_use
  phase,        \* where a processor is in schedule()
  next,         \* the task it has picked
  was_running,  \* did prev run when the runqueue lock was dropped?
  rqclock,      \* rqclock[c]: rq->clock when schedule() was entered
  start,        \* start[c]: se.exec_start of the task that c executes
  timer,        \* timer[c]: expiry of the enforcement timer
  tif,          \* TIF_NEED_RESCHED: of tasks, and of the background of a CPU
  ipi,          \* processors with a pending reschedule interrupt
  panic         \* has a BUG_ON() fired, or a queue been corrupted?

taskVars   == <<rt, running, sync>>
queueVars  == <<ready, relq>>
switchVars == <<curr, task_cpu, stack_in_use, next, was_running>>
clockVars  == <<now, rqclock, start, timer>>
sigVars    == <<tif, ipi>>

vars == <<plugin, taskVars, flags, job, queueVars, scheduled, hand,
          switchVars, phase, clockVars, sigVars, panic>>

-----------------------------------------------------------------------------
(* Slices                                                                  *)

is_sliced_task(t) == Slices[t] # <<>>

Count(t) == Len(Slices[t])

\* Budget of the first n slices of t.
Sum(t, n) ==
  LET f[i \in 0 .. n] == IF i = 0 THEN 0 ELSE f[i - 1] + Slices[t][i].budget
  IN f[n]

\* The tests of check_params(); EDF-WM also checks the windows of the slices.
check_params(t) ==
  is_sliced_task(t) =>
    LET s == Slices[t] IN
    /\ Len(s) > 1
    /\ Home[t] = s[1].cpu
    /\ Cost[t] = Sum(t, Len(s))
    /\ plugin = "EDF-WM" =>
         /\ \A i \in 1 .. Len(s) - 1 : s[i].deadline <= s[i + 1].offset
         /\ \A i \in 1 .. Len(s) : s[i].offset + s[i].budget <= s[i].deadline
    /\ \A i \in 1 .. Len(s) : s[i].budget >= MIN_SLICE
    /\ \A i \in 1 .. Len(s) - 1 : s[i].cpu # s[i + 1].cpu
    /\ t \in Precise

\* litmus_admit_task() and the plugin's admit_task().
admissible(t) ==
  Cost[t] <= Period[t] /\ task_cpu[t] = Home[t] /\ check_params(t)

\* The job number is only compared with 2.
JOB_CAP == 3

prepare_for_next_period(t, j) ==
  [j EXCEPT !.release = j.deadline, !.deadline = j.deadline + Period[t],
            !.exec_time = 0, !.no = IF @ < JOB_CAP THEN @ + 1 ELSE @]

release_at(t, j, s) == prepare_for_next_period(t, [j EXCEPT !.deadline = s])

slice_budget(t, j) == Slices[t][j.slice].budget
slice_exec_time(j) == j.exec_time - j.slice_start
slice_budget_exhausted(t, j) == slice_exec_time(j) >= slice_budget(t, j)
slice_budget_remaining(t, j) == slice_budget(t, j) - slice_exec_time(j)

budget_exhausted(j) == j.exec_time >= j.exec_cost

\* wm_budget_exhausted(), cd_budget_exhausted(), hime_budget_exhausted()
out_of_budget(t, j) ==
  IF is_sliced_task(t) THEN slice_budget_exhausted(t, j) ELSE budget_exhausted(j)

\* Release and deadline of the current slice.
slice_window_wm(t, j) ==
  LET s == Slices[t][j.slice] IN
  [j EXCEPT !.deadline = j.job_release + s.deadline,
            !.release = j.job_release + s.offset]

slice_window_cd(t, j) ==
  [j EXCEPT !.deadline = j.release + Slices[t][j.slice].deadline]

slice_window(t, j) ==
  CASE plugin = "EDF-WM" -> slice_window_wm(t, j)
    [] plugin = "C=D"    -> slice_window_cd(t, j)
    [] plugin = "HIME"   -> j

\* Mutant: the budget is that of the slice alone, not the cumulative one.
compute_slice_params_alone(t, j) ==
  [slice_window(t, j) EXCEPT
     !.exec_cost = slice_budget(t, j),
     !.cpu = Slices[t][j.slice].cpu, !.slice_start = j.exec_time]

\* exec_cost is the budget of all slices up to the current one.
compute_slice_params(t, j) ==
  [slice_window(t, j) EXCEPT
     !.exec_cost = @ + slice_budget(t, j),
     !.cpu = Slices[t][j.slice].cpu, !.slice_start = j.exec_time]

\* EDF-WM restores the release of the job, the others never changed it.
complete_sliced_job(t, j) ==
  LET k == prepare_for_next_period(t,
             [j EXCEPT !.release = IF plugin = "EDF-WM" THEN j.job_release ELSE @,
                       !.deadline = j.job_deadline, !.exec_cost = Cost[t]])
  IN [k EXCEPT !.job_release = IF plugin = "EDF-WM" THEN k.release ELSE @,
               !.job_deadline = k.deadline]

\* The field that the test for a depleted job reads: semi_part.cd.job_exec_cost,
\* which in EDF-WM's part of the union is the place of job_deadline.
depleted(t, j) ==
  j.exec_time >= IF plugin = "EDF-WM" THEN j.job_deadline ELSE Cost[t]

\* HIME gives migratory jobs the highest priority.
top_priority(j) == IF plugin = "HIME" THEN [j EXCEPT !.deadline = 0] ELSE j

\* The next slice, or the first slice of the next job.
advance_next_slice(t, j, signaled) ==
  LET last == signaled \/ depleted(t, j) \/ j.slice = Count(t)
      k    == [j EXCEPT !.slice = IF last THEN 1 ELSE @ + 1]
  IN compute_slice_params(t,
       IF last THEN [top_priority(complete_sliced_job(t, k)) EXCEPT !.exec_cost = 0]
       ELSE k)

\* job_or_slice_completion()
job_or_slice_completion(t, j, signaled) ==
  IF is_sliced_task(t) THEN advance_next_slice(t, j, signaled)
  ELSE prepare_for_next_period(t, j)

\* The loop of fast_forward_slices(), from job j with `left' time to account
\* for; it advances at most once per slice, and not from the last slice.
FastForward(t, j, left) ==
  LET more(s) == s.left > 0 /\ s.left >= slice_budget_remaining(t, s.job)
      step(s) ==
        LET r == slice_budget_remaining(t, s.job)
            k == [s.job EXCEPT !.exec_time = @ + r]
        IN IF s.job.slice = Count(t) THEN [s EXCEPT !.bug = TRUE]
           ELSE [job |-> advance_next_slice(t, k, FALSE),
                 left |-> s.left - r, bug |-> s.bug]
      f[n \in 0 .. Count(t)] ==
        IF n = 0 THEN [job |-> j, left |-> left, bug |-> FALSE]
        ELSE IF more(f[n - 1]) /\ ~f[n - 1].bug THEN step(f[n - 1]) ELSE f[n - 1]
  IN f[Count(t)]

\* fast_forward_slices(): the time asleep counts as execution.
fast_forward_slices(t, j, time) ==
  LET k == IF out_of_budget(t, j) THEN advance_next_slice(t, j, FALSE) ELSE j
      s == FastForward(t, k, time)
  IN [job |-> [s.job EXCEPT !.exec_time = @ + s.left],
      bug |-> s.bug \/ j.exec_cost <= j.exec_time + time]

\* wm_release_at(), cd_release_at(), hime_release_at()
ReleaseAt(t, j, from) ==
  IF is_sliced_task(t)
  THEN advance_next_slice(t, [j EXCEPT !.job_deadline = from,
                                       !.slice = Count(t)], FALSE)
  ELSE release_at(t, j, from)

\* What a task has before it is admitted.
NoJob(t) ==
  [release |-> 0, deadline |-> 0, exec_time |-> 0, exec_cost |-> 0, no |-> 0,
   cpu |-> Home[t], slice |-> 1, slice_start |-> 0, suspend_time |-> 0,
   job_release |-> 0, job_deadline |-> 0]

\* "first job is not really tardy in this sense"
NewRelease(j) == j.no # 2 /\ j.exec_time = 0

\* The job of t when t is woken at `now'.
woken(t) ==
  LET j     == job[t]
      sleep == now - j.suspend_time
      at    == IF is_sliced_task(t) THEN j.job_deadline ELSE j.deadline
      from  == IF at < now THEN now ELSE at
  IN IF j.exec_time + sleep >= j.exec_cost
     THEN [job |-> IF NewRelease(j) THEN ReleaseAt(t, j, from) ELSE j,
           bug |-> FALSE]
     ELSE IF is_sliced_task(t)
     THEN LET f == fast_forward_slices(t, j, sleep)
          IN [f EXCEPT !.bug = @ \/ out_of_budget(t, f.job)]
     ELSE [job |-> [j EXCEPT !.exec_time = @ + sleep], bug |-> FALSE]

-----------------------------------------------------------------------------
(* Processors, locks and priorities                                        *)

\* c executes ordinary code with interrupts enabled.
Open(c) == phase[c] = "run" /\ hand[c] = NULL

\* The runqueue lock of c is held: by schedule(), except while it spins on a
\* stack, by a processor that migrates a task, or by one that wakes a task.
RqLocked(c) ==
  \/ phase[c] \in {"sched", "resim", "attach", "switch"}
  \/ phase[c] = "wait" /\ hand[c] # NULL
  \/ \E d \in CPU : phase[d] \in {"resim", "attach"} /\ task_cpu[next[d]] = c
  \/ \E d \in CPU : phase[d] = "run" /\ hand[d] # NULL /\ task_cpu[hand[d]] = c

\* Who owns the TIF_NEED_RESCHED flag that schedule() on c looks at.
Current(c) == IF curr[c] = NULL THEN c ELSE curr[c]

is_queued(t) == \E d \in CPU : t \in ready[d] \cup relq[d]

\* With the job parameters js.
edf_higher_prio(js, a, b) ==
  /\ a # b
  /\ b \in rt => \/ js[a].deadline < js[b].deadline
                 \/ js[a].deadline = js[b].deadline /\ a < b

\* The task that __take_ready() takes from a queue.
first_ready(js, queue) ==
  CHOOSE t \in queue : \A u \in queue \ {t} : edf_higher_prio(js, t, u)

edf_preemption_needed(js, queue, t) ==
  \E u \in queue : edf_higher_prio(js, u, t)

is_released(j) == j.release <= now

\* BUG_ON(cond), and conditions under which a heap would be corrupted.
BugOn(cond) == panic' = (panic \/ cond)

\* Mutant: other processors are not interrupted.
preempt_local(need, d, e) ==
  /\ tif' = IF need /\ d = e THEN tif \cup {Current(e)} ELSE tif
  /\ ipi' = ipi

\* preempt(dom) for the domain of d, called on e, if `need' holds.
preempt(need, d, e) ==
  /\ tif' = IF need /\ d = e THEN tif \cup {Current(e)} ELSE tif
  /\ ipi' = IF need /\ d # e THEN ipi \cup {d} ELSE ipi

\* Mutant: a job whose release is in the future is not queued.
requeue_released(t, d, js, force, e) ==
  LET queue == IF is_released(js[t]) THEN ready[d] \cup {t} ELSE ready[d] IN
  /\ ready' = [ready EXCEPT ![d] = queue]
  /\ relq' = relq
  /\ flags' = [flags EXCEPT ![t] = "RUNNING"]
  /\ preempt(\/ force
             \/ edf_preemption_needed(js, queue, scheduled[d]), d, e)

\* t becomes ready in the domain of d, or waits for its release there;
\* check_resched() looks at the result.  Called on e; `force' is a preemption
\* in any case.
requeue(t, d, js, force, e) ==
  LET queue == IF is_released(js[t]) THEN ready[d] \cup {t} ELSE ready[d] IN
  /\ ready' = [ready EXCEPT ![d] = queue]
  /\ relq' = IF is_released(js[t]) THEN relq
             ELSE [relq EXCEPT ![d] = @ \cup {t}]
  /\ flags' = [flags EXCEPT ![t] = "RUNNING"]
  /\ preempt(\/ force
             \/ /\ is_released(js[t])
                /\ edf_preemption_needed(js, queue, scheduled[d]), d, e)

-----------------------------------------------------------------------------
(* Handlers                                                                *)

\* sched_setscheduler(t, SCHED_LITMUS), carried out on e; task_new().
task_new(t, e) ==
  LET c == Home[t]
      j == [release |-> now, deadline |-> now + Period[t], exec_time |-> 0,
            exec_cost |-> Cost[t], no |-> 1, cpu |-> c, slice |-> 1,
            slice_start |-> 0, suspend_time |-> 0,
            job_release |->
              IF is_sliced_task(t) /\ plugin = "EDF-WM" THEN now ELSE 0,
            job_deadline |-> IF is_sliced_task(t) THEN now + Period[t] ELSE 0]
      js == [job EXCEPT ![t] = j]
  IN
  /\ t \notin rt /\ admissible(t) /\ now <= AdmitUntil
  /\ Open(e) /\ ~RqLocked(c)
  /\ rt' = rt \cup {t}
  /\ running' = running \cup {t}
  /\ sync' = [sync EXCEPT ![t] = IF t \in Synched THEN "new" ELSE "done"]
  /\ job' = js
  /\ \/ /\ t \notin Queued /\ e = c /\ curr[c] = NULL
        /\ scheduled' = [scheduled EXCEPT ![c] = t]
        /\ curr' = [curr EXCEPT ![c] = t]
        /\ stack_in_use' = [stack_in_use EXCEPT ![t] = c]
        /\ start' = [start EXCEPT ![c] = now]
        /\ tif' = IF c \in tif THEN (tif \ {c}) \cup {t} ELSE tif
        /\ flags' = [flags EXCEPT ![t] = "RUNNING"]
        /\ BugOn(scheduled[c] # NULL)
        /\ UNCHANGED <<queueVars, ipi>>
     \/ /\ t \in Queued
        /\ requeue(t, c, js, TRUE, e)
        /\ BugOn(is_queued(t))
        /\ stack_in_use' = [stack_in_use EXCEPT ![t] = NO_CPU]
        /\ UNCHANGED <<scheduled, curr, start>>
  /\ UNCHANGED <<plugin, hand, task_cpu, next, was_running, phase, now,
                 rqclock, timer>>

\* task_exit() of the task itself, or of a dead task by whoever reaps it.
task_exit(t, e) ==
  LET self == curr[e] = t
      d    == job[t].cpu
  IN
  /\ t \in rt \cap Leaving /\ sync[t] = "done"
  /\ Open(e)
  /\ self \/ (t \notin running /\ stack_in_use[t] = NO_CPU)
  /\ rt' = rt \ {t}
  /\ running' = running \cup {t}
  /\ ready' = [ready EXCEPT ![d] = @ \ {t}]
  /\ scheduled' = [scheduled EXCEPT ![d] = IF @ = t THEN NULL ELSE @]
  /\ BugOn(is_queued(t) /\ t \notin ready[d])
  /\ stack_in_use' = [stack_in_use EXCEPT ![t] = NO_CPU]
  /\ curr' = IF self THEN [curr EXCEPT ![e] = NULL] ELSE curr
  /\ start' = IF self THEN [start EXCEPT ![e] = 0] ELSE start
  /\ tif' = (tif \ {t}) \cup
              (IF self /\ (d = e \/ t \in tif) THEN {e}
               ELSE IF d = e THEN {Current(e)} ELSE {})
  /\ ipi' = IF d = e THEN ipi ELSE ipi \cup {d}
  /\ flags' = [flags EXCEPT ![t] = "RUNNING"]
  /\ job' = [job EXCEPT ![t] = NoJob(t)]
  /\ UNCHANGED <<plugin, sync, relq, hand, task_cpu, next, was_running, phase,
                 now, rqclock, timer>>

\* Bound: how far ahead a synchronous release may be set.
MAX_DELAY == 1

\* do_release_ts(): all waiting tasks are released at `from' and may then be
\* woken.  Without latency, nobody calls it while a task is being switched.
release_ts(from) ==
  LET waiting == {t \in Task : sync[t] = "wait"} IN
  /\ waiting # {} /\ from >= now
  /\ Latency \/ \A c \in CPU : Open(c)
  /\ job' = [t \in Task |-> IF t \in waiting THEN ReleaseAt(t, job[t], from)
                            ELSE job[t]]
  /\ sync' = [t \in Task |-> IF t \in waiting THEN "done" ELSE sync[t]]
  /\ flags' = [t \in Task |-> IF t \in waiting THEN "RUNNING" ELSE flags[t]]
  /\ BugOn(\E t \in waiting : is_sliced_task(t) /\ is_queued(t))
  /\ UNCHANGED <<plugin, rt, running, queueVars, scheduled, hand, switchVars,
                 phase, clockVars, sigVars>>

\* task_wake_up(), executed on e: under the lock of the domain t belonged to;
\* a task that has moved on to another slice is added to the other domain
\* after the lock is dropped.  suspend_time is not needed any more.
task_wake_up(t, e) ==
  LET d     == job[t].cpu
      w     == woken(t)
      js    == [job EXCEPT ![t] = [w.job EXCEPT !.suspend_time = 0]]
      local == w.job.cpu = d
  IN
  /\ job' = js
  /\ BugOn(is_queued(t) \/ w.bug)
  /\ IF scheduled[d] # t /\ local
     THEN requeue(t, d, js, FALSE, e)
     ELSE UNCHANGED <<queueVars, flags, sigVars>>
  /\ hand' = [hand EXCEPT ![e] = IF scheduled[d] # t /\ ~local THEN t ELSE @]

\* try_to_wake_up() of a blocked task, on e.
wake(t, e) ==
  /\ t \in rt \ running /\ sync[t] = "done"
  /\ Open(e) /\ ~RqLocked(task_cpu[t])
  /\ running' = running \cup {t}
  /\ task_wake_up(t, e)
  /\ UNCHANGED <<plugin, rt, sync, scheduled, switchVars, phase, clockVars>>

\* wm_requeue_remote(), cd_requeue_remote(), hime_requeue_remote(): c adds the
\* task it has taken out of a domain to the domain of its new slice.
requeue_remote(c) ==
  LET t == hand[c] IN
  /\ t # NULL
  /\ requeue(t, job[t].cpu, job, FALSE, c)
  /\ BugOn(is_queued(t))
  /\ hand' = [hand EXCEPT ![c] = NULL]
  /\ UNCHANGED <<plugin, taskVars, job, scheduled, switchVars, phase,
                 clockVars>>

\* on_release_timer() and merge_ready() for the jobs of the domain of d that
\* are released at r, on processor c.
on_release_timer(c, d, r) ==
  LET heap  == {t \in relq[d] : job[t].release = r}
      queue == ready[d] \cup heap
  IN
  /\ Open(c) /\ r <= now /\ heap # {}
  /\ relq' = [relq EXCEPT ![d] = @ \ heap]
  /\ ready' = [ready EXCEPT ![d] = queue]
  /\ preempt(edf_preemption_needed(job, queue, scheduled[d]), d, c)
  /\ UNCHANGED <<plugin, taskVars, flags, job, scheduled, hand, switchVars,
                 phase, clockVars, panic>>

\* The job of the task that executes on c after update_time_litmus().
charged(c) ==
  IF curr[c] = NULL THEN job
  ELSE [job EXCEPT ![curr[c]].exec_time = @ + (now - start[c])]

\* litmus_tick() that finds the budget exhausted; wm_tick()
tick(c) ==
  LET t == curr[c] IN
  /\ Open(c) /\ t \in Precise /\ out_of_budget(t, charged(c)[t])
  /\ job' = charged(c)
  /\ start' = [start EXCEPT ![c] = now]
  /\ tif' = tif \cup {t}
  /\ BugOn(t # scheduled[c])
  /\ UNCHANGED <<plugin, taskVars, flags, queueVars, scheduled, hand,
                 switchVars, phase, now, rqclock, timer, ipi>>

on_enforcement_timeout(c) ==
  /\ Open(c) /\ timer[c] # NULL /\ timer[c] <= now
  /\ timer' = [timer EXCEPT ![c] = NULL]
  /\ tif' = tif \cup {Current(c)}
  /\ UNCHANGED <<plugin, taskVars, flags, job, queueVars, scheduled, hand,
                 switchVars, phase, now, rqclock, start, ipi, panic>>

\* smp_reschedule_interrupt()
reschedule_interrupt(c) ==
  /\ Open(c) /\ c \in ipi
  /\ ipi' = ipi \ {c}
  /\ tif' = tif \cup {Current(c)}
  /\ UNCHANGED <<plugin, taskVars, flags, job, queueVars, scheduled, hand,
                 switchVars, phase, clockVars, panic>>

\* An interrupt, or a processor in the scheduler, that time must wait for
\* unless there is latency.
Urgent(c) ==
  \/ ~Open(c)
  \/ c \in ipi \/ Current(c) \in tif
  \/ timer[c] # NULL /\ timer[c] <= now

clock ==
  /\ now < MaxTime
  /\ Latency \/ \A c \in CPU : ~Urgent(c)
  /\ now' = now + 1
  /\ UNCHANGED <<plugin, taskVars, flags, job, queueVars, scheduled, hand,
                 switchVars, phase, rqclock, start, timer, sigVars, panic>>

-----------------------------------------------------------------------------
(* schedule()                                                              *)

\* schedule() takes the runqueue lock, charges the current task, and clears
\* its TIF_NEED_RESCHED.
enter(c) ==
  /\ phase' = [phase EXCEPT ![c] = "sched"]
  /\ rqclock' = [rqclock EXCEPT ![c] = now]
  /\ tif' = tif \ {Current(c)}
  /\ UNCHANGED <<plugin, rt, relq, scheduled, hand, switchVars, now, start,
                 timer, ipi>>

\* It may be called without need, as in sched_yield().
schedule(c) ==
  /\ Open(c)
  /\ Current(c) \in tif \/ curr[c] \in Yielding
  /\ enter(c)
  /\ job' = charged(c)
  /\ UNCHANGED <<running, sync, flags, ready, panic>>

complete_job(c) ==
  /\ Open(c) /\ curr[c] \in Completing /\ sync[curr[c]] = "done"
  /\ enter(c)
  /\ job' = charged(c)
  /\ flags' = [flags EXCEPT ![curr[c]] = "SLEEP"]
  /\ UNCHANGED <<running, sync, ready, panic>>

\* task_block(): remove() deletes from the ready queue whatever heap the task
\* is in.
task_block(t) ==
  LET d == job[t].cpu IN
  /\ ready' = [ready EXCEPT ![d] = @ \ {t}]
  /\ BugOn(is_queued(t) /\ t \notin ready[d])

\* The task on c blocks, possibly to wait for a synchronous release, and
\* schedule() calls deactivate_task().
block(c) ==
  LET t == curr[c]
      j == [charged(c)[t] EXCEPT !.suspend_time = now]
  IN
  /\ Open(c) /\ t # NULL
  /\ sync[t] = "new" \/ (t \in Suspending /\ sync[t] = "done")
  /\ BlockExhausted \/ t \notin Precise \/ ~out_of_budget(t, j)
  /\ enter(c)
  /\ task_block(t)
  /\ job' = [job EXCEPT ![t] = j]
  /\ running' = running \ {t}
  /\ sync' = [sync EXCEPT ![t] = IF @ = "new" THEN "wait" ELSE @]
  /\ UNCHANGED flags

\* wm_schedule(), cd_schedule(), hime_schedule() under the lock of the domain,
\* and the test of litmus_schedule() for a task of another runqueue.
plugin_schedule(c) ==
  LET t           == scheduled[c]
      exists      == t # NULL
      blocks      == exists /\ t \notin running
      out_of_time == t \in Precise /\ out_of_budget(t, job[t])
      sleep       == exists /\ flags[t] = "SLEEP"
      completes   == (out_of_time \/ sleep) /\ ~blocks
      preempts    == edf_preemption_needed(job, ready[c], curr[c])
      wrong_cpu   == exists /\ job[t].cpu # c
      resched     == preempts \/ blocks \/ wrong_cpu \/ completes
      js          == IF completes
                     THEN [job EXCEPT ![t] =
                             job_or_slice_completion(t, job[t], sleep)]
                     ELSE job
      goes        == resched /\ exists /\ ~blocks
      local       == goes /\ js[t].cpu = c
      queue       == IF local /\ is_released(js[t]) THEN ready[c] \cup {t}
                     ELSE ready[c]
      pick        == IF ~resched /\ exists THEN curr[c]
                     ELSE IF queue = {} THEN NULL ELSE first_ready(js, queue)
  IN
  /\ phase[c] = "sched"
  /\ job' = js
  /\ ready' = [ready EXCEPT ![c] = IF resched \/ ~exists THEN queue \ {pick}
                                   ELSE queue]
  /\ relq' = IF local /\ ~is_released(js[t])
             THEN [relq EXCEPT ![c] = @ \cup {t}] ELSE relq
  /\ flags' = [u \in Task |->
                 IF u = pick \/ (u = t /\ local) THEN "RUNNING" ELSE flags[u]]
  /\ preempt(queue # ready[c] /\ edf_preemption_needed(js, queue, t), c, c)
  /\ scheduled' = [scheduled EXCEPT ![c] = pick]
  /\ hand' = [hand EXCEPT ![c] = IF goes /\ ~local THEN t ELSE NULL]
  /\ next' = [next EXCEPT ![c] = pick]
  /\ was_running' = [was_running EXCEPT ![c] = curr[c] \in running]
  /\ phase' = [phase EXCEPT ![c] =
                 IF pick # NULL /\ task_cpu[pick] # c THEN "wait" ELSE "switch"]
  /\ BugOn(\/ exists /\ t # curr[c]
           \/ exists /\ t \notin rt
           \/ (completes \/ local) /\ is_queued(t))
  /\ UNCHANGED <<plugin, taskVars, curr, task_cpu, stack_in_use, clockVars, ipi>>

-----------------------------------------------------------------------------
(* litmus_schedule(): migration of the picked task                         *)

\* Mutant: any prev that can run counts as woken.
PrevRunning(c) == curr[c] \in rt \cap running

\* prev was woken while the runqueue lock was not held.
PrevUnblocked(c) == curr[c] \in rt \cap running /\ ~was_running[c]

\* The stack of next is free and both runqueue locks are taken.
StackFree(c) ==
  /\ phase[c] = "wait" /\ hand[c] = NULL
  /\ stack_in_use[next[c]] = NO_CPU
  /\ ~RqLocked(task_cpu[next[c]])

\* litmus->task_block(prev)
resim_block(c) ==
  /\ StackFree(c) /\ PrevUnblocked(c)
  /\ task_block(curr[c])
  /\ job' = [job EXCEPT ![curr[c]].suspend_time = now]
  /\ phase' = [phase EXCEPT ![c] = "resim"]
  /\ UNCHANGED <<plugin, taskVars, flags, relq, scheduled, hand, switchVars,
                 clockVars, sigVars>>

\* litmus->task_wake_up(prev)
resim_wake_up(c) ==
  /\ phase[c] = "resim"
  /\ task_wake_up(curr[c], c)
  /\ phase' = [phase EXCEPT ![c] = "attach"]
  /\ UNCHANGED <<plugin, taskVars, scheduled, switchVars, clockVars>>

\* set_task_cpu(next), and the task is dropped if it cannot run any more.
attach(c) ==
  /\ \/ StackFree(c) /\ ~PrevUnblocked(c)
     \/ phase[c] = "attach" /\ hand[c] = NULL
  /\ task_cpu' = [task_cpu EXCEPT ![next[c]] = c]
  /\ next' = [next EXCEPT ![c] = IF @ \in rt \cap running THEN @ ELSE NULL]
  /\ phase' = [phase EXCEPT ![c] = "switch"]
  /\ UNCHANGED <<plugin, taskVars, flags, job, queueVars, scheduled, hand, curr,
                 stack_in_use, was_running, clockVars, sigVars, panic>>

\* Mutant: the timer is set for the execution cost of the task.
update_timer_total(n) ==
  IF n \in Precise THEN now + (Cost[n] - job[n].exec_time) ELSE NULL

\* update_enforcement_timer(next), executed on c: the new expiry.
update_enforcement_timer(n) ==
  IF n \in Precise THEN now + (job[n].exec_cost - job[n].exec_time) ELSE NULL

\* Mutant: the stack of prev stays marked.
mark_stack_only(c) ==
  [t \in Task |-> IF t = next[c] THEN c ELSE stack_in_use[t]]

\* stack_in_use after the switch: marked for next, then free for prev.
switch_stacks(c) ==
  [t \in Task |-> IF t = next[c] THEN c
                  ELSE IF t = curr[c] THEN NO_CPU ELSE stack_in_use[t]]

\* The end of litmus_schedule() and the context switch.
finish_switch(c) ==
  LET n == next[c] IN
  /\ phase[c] = "switch" /\ hand[c] = NULL
  /\ BugOn(n \in Precise /\ budget_exhausted(job[n]))
  /\ timer' = [timer EXCEPT ![c] = update_enforcement_timer(n)]
  /\ start' = [start EXCEPT ![c] = IF n = NULL THEN 0 ELSE rqclock[c]]
  /\ rqclock' = [rqclock EXCEPT ![c] = 0]
  /\ stack_in_use' = switch_stacks(c)
  /\ curr' = [curr EXCEPT ![c] = n]
  /\ phase' = [phase EXCEPT ![c] = "run"]
  /\ next' = [next EXCEPT ![c] = NULL]
  /\ was_running' = [was_running EXCEPT ![c] = FALSE]
  /\ UNCHANGED <<plugin, taskVars, flags, job, queueVars, scheduled, hand,
                 task_cpu, now, sigVars>>

-----------------------------------------------------------------------------
Init ==
  /\ plugin \in Plugins
  /\ now = 0
  /\ rt = {} /\ running = Task
  /\ sync = [t \in Task |-> "done"]
  /\ flags = [t \in Task |-> "RUNNING"]
  /\ job = [t \in Task |-> NoJob(t)]
  /\ ready = [d \in CPU |-> {}] /\ relq = [d \in CPU |-> {}]
  /\ scheduled = [c \in CPU |-> NULL] /\ hand = [c \in CPU |-> NULL]
  /\ curr = [c \in CPU |-> NULL]
  /\ task_cpu = Home
  /\ stack_in_use = [t \in Task |-> NO_CPU]
  /\ phase = [c \in CPU |-> "run"] /\ next = [c \in CPU |-> NULL]
  /\ was_running = [c \in CPU |-> FALSE]
  /\ rqclock = [c \in CPU |-> 0] /\ start = [c \in CPU |-> 0]
  /\ timer = [c \in CPU |-> NULL]
  /\ tif = {} /\ ipi = {}
  /\ panic = FALSE

Handler ==
  \/ \E t \in Task, e \in CPU :
       \/ task_new(t, e)
       \/ task_exit(t, e)
       \/ wake(t, e)
  \/ \E from \in now .. now + MAX_DELAY : release_ts(from)
  \/ \E c, d \in CPU, r \in 0 .. now : on_release_timer(c, d, r)
  \/ \E c \in CPU :
       \/ requeue_remote(c)
       \/ tick(c)
       \/ on_enforcement_timeout(c)
       \/ reschedule_interrupt(c)

Schedule ==
  \E c \in CPU :
     \/ schedule(c)
     \/ complete_job(c)
     \/ block(c)
     \/ plugin_schedule(c)
     \/ resim_block(c)
     \/ resim_wake_up(c)
     \/ attach(c)
     \/ finish_switch(c)

\* Nothing follows a BUG().
Next ==
  /\ ~panic
  /\ \/ Handler
     \/ Schedule
     \/ clock

Spec == Init /\ [][Next]_vars

-----------------------------------------------------------------------------
(* Properties                                                              *)

Job == [release : Nat, deadline : Nat, exec_time : Nat, exec_cost : Nat,
        no : 0 .. JOB_CAP, cpu : CPU, slice : Nat \ {0}, slice_start : Nat,
        suspend_time : Nat, job_release : Nat, job_deadline : Nat]

\* Types of the variables.
TypeOK ==
  /\ plugin \in Plugins
  /\ now \in Nat
  /\ rt \subseteq Task /\ running \subseteq Task
  /\ sync \in [Task -> {"new", "wait", "done"}]
  /\ flags \in [Task -> {"RUNNING", "SLEEP"}]
  /\ job \in [Task -> Job]
  /\ ready \in [CPU -> SUBSET Task] /\ relq \in [CPU -> SUBSET Task]
  /\ scheduled \in [CPU -> Task \cup {NULL}]
  /\ hand \in [CPU -> Task \cup {NULL}]
  /\ curr \in [CPU -> Task \cup {NULL}]
  /\ task_cpu \in [Task -> CPU]
  /\ stack_in_use \in [Task -> CPU \cup {NO_CPU}]
  /\ phase \in [CPU -> {"run", "sched", "wait", "resim", "attach", "switch"}]
  /\ next \in [CPU -> Task \cup {NULL}]
  /\ was_running \in [CPU -> BOOLEAN]
  /\ rqclock \in [CPU -> Nat] /\ start \in [CPU -> Nat]
  /\ timer \in [CPU -> Nat \cup {NULL}]
  /\ tif \subseteq Task \cup CPU /\ ipi \subseteq CPU
  /\ panic \in BOOLEAN

\* Where the plugin keeps a task: a queue of a domain, dom->scheduled, or on
\* its way from one domain to another.
Places(t) ==
  {<<"ready", d>> : d \in {c \in CPU : t \in ready[c]}} \cup
  {<<"relq", d>> : d \in {c \in CPU : t \in relq[c]}} \cup
  {<<"scheduled", d>> : d \in {c \in CPU : scheduled[c] = t}} \cup
  {<<"hand", d>> : d \in {c \in CPU : hand[c] = t}}

\* The variables have their types and a task is in at most one place, although
\* schedule() and wake_up() take it out of one domain and add it to another
\* without a common lock; a runnable real-time task that does not execute is
\* in some place; and tasks are queued, and scheduled unless they have just
\* blocked, only in the domain of their current slice.
OnePlace ==
  /\ TypeOK
  /\ \A t \in Task :
       /\ \A p, q \in Places(t) : p = q
       /\ t \in rt \cap running /\ Places(t) = {} => \E c \in CPU : curr[c] = t
  /\ \A t \in running, d \in CPU :
       t \in ready[d] \cup relq[d] \/ scheduled[d] = t => job[t].cpu = d

\* No BUG_ON() of the plugins or of the enforcement timer fires, and no heap
\* operation is applied to the wrong heap.
NoPanic == ~panic

SpinsOn(c, d) == phase[c] = "wait" /\ stack_in_use[next[c]] = d

\* Processors that exchange tasks do not spin for each other's stacks.
NoSpinDeadlock ==
  \A c, d \in CPU : SpinsOn(c, d) =>
     phase[d] \in {"wait", "resim", "attach", "switch"} /\ ~SpinsOn(d, c)

\* After the first job of a sliced task, exec_cost and slice_start are the
\* budgets of the slices before the current one with and without it.
SliceAccounting ==
  \A t \in rt : is_sliced_task(t) /\ job[t].no >= 2 =>
     /\ job[t].exec_cost = Sum(t, job[t].slice)
     /\ job[t].slice_start = Sum(t, job[t].slice - 1)
     /\ job[t].cpu = Slices[t][job[t].slice].cpu

\* Without latency, no job but the first executes longer than its budget, or
\* that of its slices so far, allows: the timer of the right processor is
\* armed with the right time across preemptions, suspensions and migrations.
BudgetEnforced ==
  \A c \in CPU :
     phase[c] = "run" /\ curr[c] \in Precise /\ job[curr[c]].no >= 2 =>
       charged(c)[curr[c]].exec_time <= job[curr[c]].exec_cost

\* c is inside schedule() or has been told to call it.
WillSchedule(c) == phase[c] # "run" \/ Current(c) \in tif \/ c \in ipi

\* A processor that executes a task of lower priority than a ready one will
\* call schedule(), unless the request was recorded on the ready task while
\* that task was being switched out.
PreemptionRequested ==
  \A c \in CPU : edf_preemption_needed(job, ready[c], scheduled[c]) =>
                   WillSchedule(c) \/ first_ready(job, ready[c]) \in tif

-----------------------------------------------------------------------------
(* The inductive invariant                                                 *)

\* The use of the plugins the theorems are about: interrupts are not delayed, a
\* task does not block when its budget has just run out, and sliced tasks that
\* block begin with a synchronous release.
SupportedUse ==
  /\ ~Latency /\ ~BlockExhausted
  /\ \A t \in Suspending : is_sliced_task(t) => t \in Synched

\* The first job of a sliced task, for which no timer may be armed, ends within
\* its execution cost.  (The other plugins notice by themselves if it does not.)
FirstJobShort ==
  plugin = "EDF-WM" =>
    \A c \in CPU :
       /\ phase[c] = "run" /\ curr[c] # NULL
       /\ is_sliced_task(curr[c]) /\ job[curr[c]].no < 2
       => charged(c)[curr[c]].exec_time <= job[curr[c]].exec_cost

Deciding(c) == phase[c] \in {"run", "sched"}

\* t is neither queued, nor scheduled, nor on its way.
Nowhere(t) ==
  \A d \in CPU : t \notin ready[d] /\ t \notin relq[d] /\ scheduled[d] # t /\ hand[d] # t

\* The stack in use is that of the task that executes; it is in its runqueue.
Executing ==
  /\ \A c \in CPU, t \in Task : curr[c] = t <=> stack_in_use[t] = c
  /\ \A c \in CPU, t \in Task : curr[c] = t => task_cpu[t] = c /\ t \in rt

\* dom->scheduled is what executes, and then what was picked, whose stack
\* remains free once it has been found free.
Following ==
  \A c \in CPU :
     /\ Deciding(c) => scheduled[c] = curr[c] /\ next[c] = NULL
     /\ ~Deciding(c) => scheduled[c] = next[c]
     /\ phase[c] \in {"wait", "resim", "attach"} => next[c] # NULL
     /\ phase[c] = "wait" => task_cpu[next[c]] # c
     /\ phase[c] \in {"resim", "attach"} => stack_in_use[next[c]] = NO_CPU
     /\ phase[c] = "switch" /\ next[c] # NULL => task_cpu[next[c]] = c

\* A domain has only tasks of its own, each in one place, and their jobs have
\* been released unless they are in the release queue.
InDomain ==
  \A d \in CPU, t \in Task :
     /\ t \in ready[d] \/ t \in relq[d] \/ scheduled[d] = t =>
          job[t].cpu = d /\ t \in rt
     /\ t \in ready[d] \/ t \in relq[d] => t \in running
     /\ scheduled[d] = t /\ phase[d] # "sched" => t \in running
     /\ t \in ready[d] => t \notin relq[d] /\ scheduled[d] # t
     /\ t \in relq[d] => scheduled[d] # t
     /\ t \in ready[d] \/ scheduled[d] = t => job[t].release <= now

\* A task on its way is in no domain, and not on its way to where it came from.
HandOver ==
  \A c \in CPU, t \in Task : hand[c] = t =>
     /\ t \in rt /\ t \in running
     /\ phase[c] \in {"run", "wait", "switch"}
     /\ phase[c] # "run" => job[t].cpu # c
     /\ \A d \in CPU : /\ t \notin ready[d] /\ t \notin relq[d] /\ scheduled[d] # t
                       /\ hand[d] = t => c = d

\* Only a task whose wake-up is being simulated is nowhere.
Kept ==
  /\ \A t \in Task : t \in rt /\ t \in running /\ Nowhere(t) =>
                       \E c \in CPU : phase[c] = "resim" /\ curr[c] = t
  /\ \A c \in CPU : phase[c] = "resim" =>
                      curr[c] \in rt /\ curr[c] \in running /\ Nowhere(curr[c])

\* A task that has blocked and is not switched out yet has just blocked; if it
\* has been woken it is in the ready queue it came from.
JustBlocked ==
  \A c \in CPU, t \in Task : curr[c] = t /\ phase[c] # "run" =>
     /\ t \notin running \/ phase[c] = "resim" =>
          job[t].suspend_time = now /\ job[t].cpu = c /\ job[t].release <= now
     /\ phase[c] = "wait" /\ ~was_running[c] /\ t \in running => t \in ready[c]

\* Time stands still while a processor is in schedule().
Clocks ==
  /\ \A c \in CPU : start[c] <= now /\ (phase[c] # "run" => rqclock[c] = now)
  /\ \A t \in Task : job[t].suspend_time <= now

\* Who waits for the synchronous release, and who has had one.
Released ==
  \A t \in Task :
     /\ sync[t] # "done" => t \in rt /\ t \in Synched
     /\ sync[t] = "wait" => t \notin running
     /\ t \in rt /\ t \notin running => t \in Suspending \/ t \in Synched
     /\ t \in rt /\ t \in Synched /\ sync[t] = "done" => job[t].no >= 2

\* The accounts of job j of t.  In the first job of a sliced task exec_cost is
\* not that of the slices.
Accounts(t, j) ==
  /\ j.no >= 1
  /\ ~is_sliced_task(t) => j.exec_cost = Cost[t]
  /\ is_sliced_task(t) =>
       /\ t \in Precise /\ j.slice <= Count(t) /\ j.cpu = Slices[t][j.slice].cpu
       /\ j.no >= 2 => /\ j.exec_cost = Sum(t, j.slice)
                       /\ j.slice_start = Sum(t, j.slice - 1)
       /\ j.no < 2 => /\ j.exec_cost >= Cost[t]
                      /\ j.slice_start + slice_budget(t, j) <= j.exec_cost

\* The budget of job j of t has not run out.
Fresh(t, j) == t \in Precise => ~out_of_budget(t, j)

\* Every real-time task has its accounts in order and budget left, except that
\* the budget of the scheduled task may have run out.
Budgets ==
  \A t \in rt :
     /\ Accounts(t, job[t])
     /\ \/ \E c \in CPU : scheduled[c] = t /\ Deciding(c) /\ t \in running
        \/ Fresh(t, job[t])

\* A slice has not been exceeded when schedule() is entered.
Within(t, j) ==
  is_sliced_task(t) /\ (j.no >= 2 \/ plugin = "EDF-WM") => j.exec_time <= j.exec_cost

\* The timer expires when the budget of the executing job is used up, and until
\* then time goes on; or it has expired and the task is about to be rescheduled.
Enforced ==
  \A c \in CPU, t \in Task : curr[c] = t =>
     /\ phase[c] = "sched" => Within(t, job[t])
     /\ phase[c] = "run" /\ t \in Precise /\ job[t].no >= 2 =>
          \/ /\ timer[c] # NULL /\ now <= timer[c]
             /\ timer[c] + job[t].exec_time = start[c] + job[t].exec_cost
          \/ /\ job[t].exec_time + now <= start[c] + job[t].exec_cost
             /\ t \in tif

\* A processor will call schedule(), or the request was recorded on the tasks
\* that should preempt.
Requested ==
  \A c \in CPU : phase[c] # "sched" =>
     \/ c \in ipi
     \/ phase[c] = "run" /\ Current(c) \in tif
     \/ \A u \in ready[c] : edf_higher_prio(job, u, scheduled[c]) => u \in tif

IInv ==
  /\ TypeOK /\ ~panic
  /\ Executing /\ Following /\ InDomain /\ HandOver /\ Kept /\ JustBlocked
  /\ Clocks /\ Released /\ Budgets /\ Enforced
  /\ Requested /\ NoSpinDeadlock
=============================================================================
