------------------------------- MODULE GSNEDF -------------------------------
(***************************************************************************)
(* The global EDF plugin of LITMUS^RT (litmus/sched_gsn_edf.c) running     *)
(* under the LITMUS scheduling class (litmus/sched_litmus.c) and the       *)
(* schedule() function of the kernel (kernel/sched.c).                     *)
(*                                                                         *)
(* The plugin separates two mappings.  linked[c] is the task that ought to *)
(* run on processor c; it is changed under gsnedf_lock, by any processor.  *)
(* scheduled[c] is the task that does run on c; it only follows when c     *)
(* itself goes through schedule() and completes the context switch.        *)
(* Everything that is hard about the plugin happens between the two.       *)
(*                                                                         *)
(* A critical section under gsnedf_lock is one step, except that every     *)
(* iteration of check_for_preemptions() and the stages of                  *)
(* gsnedf_schedule() are steps of their own, taken while `lock' is held.   *)
(*                                                                         *)
(* Abstractions.  A task's execution time is reduced to whether its budget *)
(* is exhausted.  The release queue and its timers are a set (their detail *)
(* is the subject of module RtDomain).  All background work of a processor is one      *)
(* entity, curr[c] = NULL.  Not configured: RELEASE_MASTER, FMLP.          *)
(***************************************************************************)
EXTENDS Naturals

CONSTANTS
  Task,        \* tasks that may become real-time, named by their pid
  CPU,         \* online processors
  NULL,        \* no task
  NO_CPU,      \* no processor
  Period,      \* Period[t]: period and relative deadline of t
  MaxTime,     \* bound: the clock stops here
  Enforced,    \* tasks with budget enforcement
  Completing,  \* tasks that end their jobs with complete_job()
  Suspending,  \* tasks that block and are woken
  NPTask,      \* tasks that enter non-preemptive sections
  Leaving,     \* tasks that leave real-time mode
  AdmitModes,  \* how a task may be when it becomes real-time
  RemoteExit,  \* may a task be made non-real-time by another task?
  SpinTimeout  \* may the 10ms spin limit of litmus_schedule() expire?

ASSUME ConstantsAssumption ==
  /\ Task \subseteq Nat
  /\ NULL \notin Task
  /\ NO_CPU \notin CPU
  /\ Task \cap CPU = {}
  /\ Period \in [Task -> Nat \ {0}]
  /\ MaxTime \in Nat
  /\ Enforced \subseteq Task /\ Completing \subseteq Task
  /\ Suspending \subseteq Task /\ NPTask \subseteq Task
  /\ Leaving \subseteq Task
  /\ AdmitModes \subseteq {"running", "runnable", "blocked"}
  /\ RemoteExit \in BOOLEAN /\ SpinTimeout \in BOOLEAN

VARIABLES
  now,          \* litmus_clock()
  rt,           \* tasks for which is_realtime() holds
  running,      \* tasks for which is_running() holds
  np,           \* tasks whose np_flag is set
  delayed,      \* tasks whose delayed_preemption flag is set
  flags,        \* RT_F_RUNNING or RT_F_SLEEP
  release,      \* release time of the current job
  deadline,     \* absolute deadline of the current job
  exhausted,    \* tasks for which budget_exhausted() holds
  owed,         \* history: called complete_job(), next period not prepared yet
  ready,        \* ready queue of the domain
  relq,         \* release queue of the domain
  irq,          \* irq[c]: release heap the timer interrupt on c has dequeued
  linked,       \* entry->linked
  linked_on,    \* rt_param.linked_on
  scheduled,    \* entry->scheduled
  scheduled_on, \* rt_param.scheduled_on
  curr,         \* rq->curr
  task_cpu,     \* runqueue a task belongs to
  stack_in_use, \* rt_param.stack_in_use
  phase,        \* where a processor is in schedule()
  next,         \* the task it has picked
  was_running,  \* did prev run when the runqueue lock was dropped?
  tif,          \* TIF_NEED_RESCHED: of tasks, and of the background of a CPU
  ipi,          \* processors with a pending reschedule interrupt
  resimulated,  \* history: simulated a wake-up since they entered schedule()
  lock,         \* gsnedf_lock: stage and processor of the holder
  panic         \* has a BUG_ON() fired, or a queue been corrupted?

jobVars    == <<flags, release, deadline, exhausted, owed>>
taskVars   == <<rt, running, np>>
queueVars  == <<ready, relq>>
linkVars   == <<linked, linked_on>>
schedVars  == <<scheduled, scheduled_on>>
switchVars == <<curr, task_cpu, stack_in_use, phase, next, was_running>>
sigVars    == <<tif, ipi, delayed, resimulated>>

vars == <<now, jobVars, taskVars, queueVars, irq, linkVars, schedVars,
          switchVars, sigVars, lock, panic>>

-----------------------------------------------------------------------------
(* Processors, locks and priorities                                        *)

Free == [pc |-> "free", cpu |-> NO_CPU, go |-> FALSE]

\* The thread or interrupt handler on c is in the middle of a handler.
Busy(c) == lock.cpu = c \/ irq[c] # {}

\* c executes ordinary code with interrupts enabled.
Open(c) == phase[c] = "run" /\ ~Busy(c)

\* The runqueue lock of c is held: schedule() holds it except while it spins
\* on a stack, and a processor that migrates a task holds both locks.
RqLocked(c) ==
  \/ phase[c] \in {"sched", "resim", "attach", "switch"}
  \/ \E d \in CPU : phase[d] \in {"resim", "attach"} /\ task_cpu[next[d]] = c

\* Who owns the TIF_NEED_RESCHED flag that schedule() on c looks at.
Current(c) == IF curr[c] = NULL THEN c ELSE curr[c]

edf_higher_prio(a, b) ==
  /\ a # NULL /\ a # b
  /\ b \in rt => \/ deadline[a] < deadline[b]
                 \/ deadline[a] = deadline[b] /\ a < b

\* t is what __take_ready() returns.
next_ready(t) == t \in ready /\ \A u \in ready : ~edf_higher_prio(u, t)

\* c may be on top of gsnedf_cpu_heap.
lowest_prio_cpu(c) == \A d \in CPU : ~edf_higher_prio(linked[c], linked[d])

\* Mutant: only idle processors are considered.
preemption_needed_idle(t, c) == next_ready(t) /\ linked[c] = NULL

edf_preemption_needed(t, c) == next_ready(t) /\ edf_higher_prio(t, linked[c])

\* A job with release time r is released.
is_released(r) == r <= now

is_queued(t) == t \in ready \/ t \in relq \/ \E c \in CPU : t \in irq[c]

-----------------------------------------------------------------------------
(* Sub-actions, each applied at most once per step                         *)

\* BUG_ON(cond), and conditions under which a heap would be corrupted.
BugOn(cond) == panic' = (panic \/ cond)

\* Mutant: a task that is scheduled elsewhere is linked to c all the same.
link_without_swap(t, c) ==
  /\ linked' = [linked EXCEPT ![c] = t]
  /\ linked_on' = [u \in Task |-> IF u = t THEN c
                                  ELSE IF u = linked[c] THEN NO_CPU
                                  ELSE linked_on[u]]
  /\ flags' = [flags EXCEPT ![t] = "RUNNING"]

\* t becomes linked to c, or, if it is still scheduled on another processor
\* s, to s, and c takes over what was linked to s.
link_task_to_cpu(t, c) ==
  LET s     == scheduled_on[t]
      swap  == s # NO_CPU /\ s # c
      moved == IF swap THEN linked[s] ELSE t
  IN /\ linked' = [d \in CPU |-> IF d = c THEN moved
                                 ELSE IF swap /\ d = s THEN t ELSE linked[d]]
     /\ linked_on' = [u \in Task |-> IF u = moved THEN c
                                     ELSE IF u = t THEN s
                                     ELSE IF u = linked[c] THEN NO_CPU
                                     ELSE linked_on[u]]
     /\ flags' = [flags EXCEPT ![t] = "RUNNING"]

\* BUG_ON(sched->linked == linked) of link_task_to_cpu().
AlreadyLinked(t) == scheduled_on[t] # NO_CPU /\ linked[scheduled_on[t]] = t

\* entry->linked and linked_on are both reset.
unlinked(t) ==
  /\ linked' = [c \in CPU |-> IF c = linked_on[t] THEN NULL ELSE linked[c]]
  /\ linked_on' = [linked_on EXCEPT ![t] = NO_CPU]

\* remove() deletes from the ready queue whatever heap the task is in.
removesFromWrongHeap(t) ==
  linked_on[t] = NO_CPU /\ is_queued(t) /\ t \notin ready

\* Mutant: an unlinked task stays in the ready queue.
unlink_keeps_queued(t) ==
  /\ unlinked(t)
  /\ UNCHANGED <<ready, relq>>

unlink(t) ==
  /\ unlinked(t)
  /\ ready' = IF linked_on[t] = NO_CPU THEN ready \ {t} ELSE ready
  /\ UNCHANGED relq

\* Mutant: no interrupt is sent to a processor that runs background work.
preempt_only_tasks(c, e) ==
  LET t == scheduled[c] IN
  /\ delayed' = IF t \in np THEN delayed \cup {t} ELSE delayed
  /\ tif' = IF c = e /\ t \notin np
            THEN tif \cup {IF t = NULL THEN Current(c) ELSE t} ELSE tif
  /\ ipi' = IF c # e /\ t \notin np \cup {NULL} THEN ipi \cup {c} ELSE ipi

\* Mutant: a non-preemptive task is not asked to yield.
preempt_without_request(c, e) ==
  LET t == scheduled[c] IN
  /\ tif' = IF c = e /\ t \notin np
            THEN tif \cup {IF t = NULL THEN Current(c) ELSE t} ELSE tif
  /\ ipi' = IF c # e /\ t \notin np THEN ipi \cup {c} ELSE ipi
  /\ UNCHANGED delayed

\* What preempt_if_preemptable(scheduled[c], c) does when called on cpu e.
preempt(c, e) ==
  LET t == scheduled[c] IN
  /\ delayed' = IF t \in np THEN delayed \cup {t} ELSE delayed
  /\ tif' = IF c = e /\ t \notin np
            THEN tif \cup {IF t = NULL THEN Current(c) ELSE t} ELSE tif
  /\ ipi' = IF c # e /\ t \notin np THEN ipi \cup {c} ELSE ipi

\* prepare_for_next_period() for a job whose deadline field reads d.
prepare_for_next_period(t, d) ==
  /\ release'  = [release EXCEPT ![t] = d]
  /\ deadline' = [deadline EXCEPT ![t] = d + Period[t]]
  /\ exhausted' = exhausted \ {t}
  /\ owed' = owed \ {t}

release_at(t, start) ==
  /\ prepare_for_next_period(t, start)
  /\ flags' = [flags EXCEPT ![t] = "RUNNING"]

\* Mutant: the job is not requeued before the loop.
job_arrival_unqueued(t, r, e) ==
  /\ BugOn(is_queued(t))
  /\ lock' = [pc |-> "check", cpu |-> e, go |-> FALSE]
  /\ UNCHANGED queueVars

\* gsnedf_job_arrival() of a job with release time r, up to its loop over the
\* CPUs, which the processor e runs next.
job_arrival(t, r, e) ==
  /\ BugOn(is_queued(t))
  /\ ready' = IF is_released(r) THEN ready \cup {t} ELSE ready
  /\ relq' = IF is_released(r) THEN relq ELSE relq \cup {t}
  /\ lock' = [pc |-> "check", cpu |-> e, go |-> FALSE]

-----------------------------------------------------------------------------
(* check_for_preemptions()                                                 *)

\* One iteration: the task linked to the lowest-priority processor gives way
\* to the first ready task.
check_for_preemptions ==
  /\ lock.pc \in {"check", "schedcheck"}
  /\ \E c \in CPU, t \in ready :
       LET victim == linked[c]
           late   == victim # NULL /\ ~is_released(release[victim])
       IN /\ lowest_prio_cpu(c)
          /\ edf_preemption_needed(t, c)
          /\ ready' = (ready \ {t}) \cup
                        (IF victim = NULL \/ late THEN {} ELSE {victim})
          /\ relq' = relq \cup (IF late THEN {victim} ELSE {})
          /\ link_task_to_cpu(t, c)
          /\ preempt(c, lock.cpu)
          /\ BugOn(AlreadyLinked(t) \/ (victim # NULL /\ is_queued(victim)))
  /\ UNCHANGED <<now, taskVars, release, deadline, exhausted, owed, irq,
                 schedVars, switchVars, resimulated, lock>>

\* The loop ends; a handler drops the lock, gsnedf_schedule() goes on.
check_done ==
  /\ lock.pc \in {"check", "schedcheck"}
  /\ ~ \E c \in CPU, t \in ready :
         lowest_prio_cpu(c) /\ edf_preemption_needed(t, c)
  /\ lock' = IF lock.pc = "check" THEN Free ELSE [lock EXCEPT !.pc = "link"]
  /\ UNCHANGED <<now, taskVars, jobVars, queueVars, irq, linkVars, schedVars,
                 switchVars, sigVars, panic>>

-----------------------------------------------------------------------------
(* Entering and leaving real-time mode                                     *)

\* sched_setscheduler(t, SCHED_LITMUS), carried out on e, for a task of the
\* runqueue of c; gsnedf_task_new().
task_new(t, mode, c, e) ==
  /\ t \notin rt /\ mode \in AdmitModes
  /\ Open(e) /\ lock = Free /\ ~RqLocked(c)
  /\ mode = "running" => e = c /\ curr[c] = NULL
  /\ rt' = rt \cup {t}
  /\ running' = IF mode = "blocked" THEN running \ {t} ELSE running \cup {t}
  /\ task_cpu' = [task_cpu EXCEPT ![t] = c]
  /\ release_at(t, now)
  /\ linked_on' = [linked_on EXCEPT ![t] = NO_CPU]
  /\ IF mode = "running"
     THEN /\ curr' = [curr EXCEPT ![c] = t]
          /\ scheduled' = [scheduled EXCEPT ![c] = t]
          /\ scheduled_on' = [scheduled_on EXCEPT ![t] = c]
          /\ stack_in_use' = [stack_in_use EXCEPT ![t] = c]
          /\ tif' = IF c \in tif THEN (tif \ {c}) \cup {t} ELSE tif
     ELSE /\ scheduled_on' = [scheduled_on EXCEPT ![t] = NO_CPU]
          /\ stack_in_use' = [stack_in_use EXCEPT ![t] = NO_CPU]
          /\ UNCHANGED <<curr, scheduled, tif>>
  /\ ready' = ready \cup {t}
  /\ lock' = [pc |-> "check", cpu |-> e, go |-> FALSE]
  /\ BugOn(is_queued(t) \/ (mode = "running" /\ scheduled[c] # NULL))
  /\ UNCHANGED <<now, np, relq, irq, linked, phase, next, was_running, ipi,
                 delayed, resimulated>>

\* gsnedf_task_exit(): t itself, a task that reaps the dead t, or (RemoteExit)
\* sched_setscheduler() called on t by another task.
task_exit(t, e) ==
  LET self == curr[e] = t IN
  /\ t \in rt \cap Leaving
  /\ Open(e) /\ lock = Free
  /\ \/ self
     \/ t \notin running /\ stack_in_use[t] = NO_CPU
     \/ RemoteExit /\ (\A c \in CPU : curr[c] # t) /\ ~RqLocked(task_cpu[t])
  /\ rt' = rt \ {t}
  /\ running' = running \cup {t}
  /\ np' = np \ {t}
  /\ delayed' = delayed \ {t}
  /\ unlink(t)
  /\ BugOn(removesFromWrongHeap(t))
  /\ scheduled' = [c \in CPU |-> IF c = scheduled_on[t] THEN NULL
                                 ELSE scheduled[c]]
  /\ scheduled_on' = [scheduled_on EXCEPT ![t] = NO_CPU]
  /\ stack_in_use' = [stack_in_use EXCEPT ![t] = NO_CPU]
  /\ curr' = IF self THEN [curr EXCEPT ![e] = NULL] ELSE curr
  /\ tif' = IF self THEN (tif \ {t}) \cup {e} ELSE tif \ {t}
  /\ flags' = [flags EXCEPT ![t] = "RUNNING"]
  /\ release' = [release EXCEPT ![t] = 0]
  /\ deadline' = [deadline EXCEPT ![t] = 0]
  /\ exhausted' = exhausted \ {t}
  /\ owed' = owed \ {t}
  /\ UNCHANGED <<now, irq, task_cpu, phase, next, was_running, ipi,
                 resimulated, lock>>

-----------------------------------------------------------------------------
(* Release timer, wake-up, tick and other events                           *)

\* Mutant: the timer leaves the jobs in the release queue.
on_release_timer_keeps(c, r) ==
  LET heap == {t \in relq : release[t] = r} IN
  /\ Open(c) /\ r <= now /\ heap # {}
  /\ irq' = [irq EXCEPT ![c] = heap]
  /\ UNCHANGED <<now, taskVars, jobVars, queueVars, linkVars, schedVars,
                 switchVars, sigVars, lock, panic>>

\* on_release_timer(): the heap of the jobs released at r leaves the release
\* queue; the interrupt handler then goes for gsnedf_lock.
on_release_timer(c, r) ==
  LET heap == {t \in relq : release[t] = r} IN
  /\ Open(c) /\ r <= now /\ heap # {}
  /\ relq' = relq \ heap
  /\ irq' = [irq EXCEPT ![c] = heap]
  /\ UNCHANGED <<now, taskVars, jobVars, ready, linkVars, schedVars,
                 switchVars, sigVars, lock, panic>>

\* gsnedf_release_jobs(): __merge_ready() and check_for_preemptions().
release_jobs(c) ==
  /\ irq[c] # {} /\ lock = Free
  /\ ready' = ready \cup irq[c]
  /\ irq' = [irq EXCEPT ![c] = {}]
  /\ lock' = [pc |-> "check", cpu |-> c, go |-> FALSE]
  /\ UNCHANGED <<now, taskVars, jobVars, relq, linkVars, schedVars,
                 switchVars, sigVars, panic>>

\* gsnedf_task_wake_up(), without the part after a semaphore.
task_wake_up(t, e) ==
  /\ IF deadline[t] <= now
     THEN release_at(t, now)
     ELSE /\ flags' = [flags EXCEPT ![t] = "RUNNING"]
          /\ UNCHANGED <<release, deadline, exhausted, owed>>
  /\ job_arrival(t, IF deadline[t] <= now THEN now ELSE release[t], e)

\* try_to_wake_up() of a blocked task, on e.
wake(t, e) ==
  /\ t \in rt \ running
  /\ Open(e) /\ lock = Free /\ ~RqLocked(task_cpu[t])
  /\ running' = running \cup {t}
  /\ task_wake_up(t, e)
  /\ UNCHANGED <<now, rt, np, irq, linkVars, schedVars, switchVars, sigVars>>

\* The budget of the task running on c runs out.
exhaust(c) ==
  /\ Open(c) /\ curr[c] \in Enforced \ exhausted
  /\ exhausted' = exhausted \cup {curr[c]}
  /\ UNCHANGED <<now, taskVars, flags, release, deadline, owed, queueVars, irq,
                 linkVars, schedVars, switchVars, sigVars, lock, panic>>

\* gsnedf_tick()
tick(c) ==
  /\ Open(c) /\ curr[c] \in Enforced \cap exhausted
  /\ tif' = IF curr[c] \in np THEN tif ELSE tif \cup {curr[c]}
  /\ delayed' = IF curr[c] \in np THEN delayed \cup {curr[c]} ELSE delayed
  /\ UNCHANGED <<now, taskVars, jobVars, queueVars, irq, linkVars, schedVars,
                 switchVars, ipi, resimulated, lock, panic>>

\* smp_reschedule_interrupt()
reschedule_interrupt(c) ==
  /\ Open(c) /\ c \in ipi
  /\ ipi' = ipi \ {c}
  /\ tif' = tif \cup {Current(c)}
  /\ UNCHANGED <<now, taskVars, jobVars, queueVars, irq, linkVars, schedVars,
                 switchVars, delayed, resimulated, lock, panic>>

\* enter_np() of liblitmus, by the task running on c
enter_np(c) ==
  /\ Open(c) /\ curr[c] \in NPTask \ np
  /\ np' = np \cup {curr[c]}
  /\ UNCHANGED <<now, rt, running, jobVars, queueVars, irq, linkVars,
                 schedVars, switchVars, sigVars, lock, panic>>

\* exit_np() of liblitmus; yield_task_litmus() when a preemption was delayed
exit_np(c) ==
  LET t == curr[c] IN
  /\ Open(c) /\ t \in np
  /\ np' = np \ {t}
  /\ delayed' = delayed \ {t}
  /\ tif' = IF t \in delayed THEN tif \cup {t} ELSE tif
  /\ UNCHANGED <<now, rt, running, jobVars, queueVars, irq, linkVars,
                 schedVars, switchVars, ipi, resimulated, lock, panic>>

clock ==
  /\ now < MaxTime
  /\ now' = now + 1
  /\ UNCHANGED <<taskVars, jobVars, queueVars, irq, linkVars, schedVars,
                 switchVars, sigVars, lock, panic>>

-----------------------------------------------------------------------------
(* schedule()                                                              *)

\* schedule() is entered and takes the runqueue lock.  It may be called at
\* any time, for reasons the plugin does not know.
schedule(c) ==
  /\ Open(c)
  /\ phase' = [phase EXCEPT ![c] = "sched"]
  /\ tif' = tif \ {Current(c)}
  /\ resimulated' = resimulated \ {c}
  /\ UNCHANGED <<now, taskVars, jobVars, queueVars, irq, linkVars, schedVars,
                 curr, task_cpu, stack_in_use, next, was_running, ipi,
                 delayed, lock, panic>>

\* complete_job(): flags the current job and calls schedule().
complete_job(c) ==
  LET t == curr[c] IN
  /\ Open(c) /\ t \in Completing
  /\ flags' = [flags EXCEPT ![t] = "SLEEP"]
  /\ owed' = owed \cup {t}
  /\ phase' = [phase EXCEPT ![c] = "sched"]
  /\ tif' = tif \ {t}
  /\ resimulated' = resimulated \ {c}
  /\ UNCHANGED <<now, taskVars, release, deadline, exhausted, queueVars, irq,
                 linkVars, schedVars, curr, task_cpu, stack_in_use, next,
                 was_running, ipi, delayed, lock, panic>>

\* The task on c blocks: schedule() calls deactivate_task(), which ends up in
\* gsnedf_task_block().
block(c) ==
  LET t == curr[c] IN
  /\ Open(c) /\ t \in Suspending /\ lock = Free
  /\ running' = running \ {t}
  /\ unlink(t)
  /\ BugOn(removesFromWrongHeap(t))
  /\ phase' = [phase EXCEPT ![c] = "sched"]
  /\ tif' = tif \ {t}
  /\ resimulated' = resimulated \ {c}
  /\ UNCHANGED <<now, rt, np, jobVars, irq, schedVars, curr, task_cpu,
                 stack_in_use, next, was_running, ipi, delayed, lock>>

\* gsnedf_schedule() up to and including job_completion().
gsnedf_schedule(c) ==
  LET s           == scheduled[c]
      prev        == curr[c]
      exists      == s # NULL
      blocks      == exists /\ s \notin running
      out_of_time == s \in Enforced \cap exhausted
      isnp        == s \in np
      sleep       == exists /\ flags[s] = "SLEEP"
      preempts    == s # linked[c]
      unlinks     == blocks \/ (isnp /\ (out_of_time \/ preempts \/ sleep))
      completes   == ~isnp /\ (out_of_time \/ sleep) /\ ~blocks /\ ~preempts
      sane        == (exists => s = prev) /\ (prev # NULL => exists)
      stage(pc)   == [pc |-> pc, cpu |-> c, go |-> ~isnp \/ blocks]
  IN
  /\ phase[c] = "sched" /\ lock = Free
  /\ \/ /\ unlinks
        /\ unlink(s)
        /\ BugOn(~sane \/ removesFromWrongHeap(s))
        /\ delayed' = IF isnp THEN delayed \cup {s} ELSE delayed
        /\ lock' = stage("link")
        /\ UNCHANGED jobVars
     \/ /\ completes
        /\ flags' = [flags EXCEPT ![s] = "SLEEP"]
        /\ prepare_for_next_period(s, deadline[s])
        /\ unlinked(s)
        /\ ready' = IF is_released(deadline[s]) THEN ready \cup {s} ELSE ready
        /\ relq' = IF is_released(deadline[s]) THEN relq ELSE relq \cup {s}
        /\ BugOn(~sane \/ is_queued(s))
        /\ lock' = stage("schedcheck")
        /\ UNCHANGED delayed
     \/ /\ ~unlinks /\ ~completes
        /\ BugOn(~sane)
        /\ lock' = stage("link")
        /\ UNCHANGED <<jobVars, queueVars, linkVars, delayed>>
  /\ UNCHANGED <<now, taskVars, irq, schedVars, switchVars, tif, ipi,
                 resimulated>>

\* "Link pending task if we became unlinked."
link_pending ==
  LET c == lock.cpu IN
  /\ lock.pc = "link"
  /\ lock' = [lock EXCEPT !.pc = "decide"]
  /\ \/ /\ linked[c] = NULL
        /\ \E t \in ready :
             /\ next_ready(t)
             /\ ready' = ready \ {t}
             /\ link_task_to_cpu(t, c)
             /\ BugOn(AlreadyLinked(t))
     \/ /\ linked[c] # NULL \/ ready = {}
        /\ UNCHANGED <<ready, linkVars, flags, panic>>
  /\ UNCHANGED <<now, taskVars, release, deadline, exhausted, owed, relq, irq,
                 schedVars, switchVars, sigVars>>

\* "The final scheduling decision", the unlock, and the test of
\* litmus_schedule() for a task of another runqueue.
decide ==
  LET c      == lock.cpu
      l      == linked[c]
      s      == scheduled[c]
      switch == lock.go /\ l # s
      pick   == IF switch THEN l ELSE IF s # NULL THEN curr[c] ELSE NULL
  IN
  /\ lock.pc = "decide"
  /\ scheduled_on' = IF ~switch THEN scheduled_on
                     ELSE [t \in Task |-> IF t = s THEN NO_CPU
                                          ELSE IF t = l THEN c
                                          ELSE scheduled_on[t]]
  /\ next' = [next EXCEPT ![c] = pick]
  /\ was_running' = [was_running EXCEPT ![c] = curr[c] \in running]
  /\ phase' = [phase EXCEPT ![c] =
                 IF pick # NULL /\ task_cpu[pick] # c THEN "wait" ELSE "switch"]
  /\ lock' = Free
  /\ UNCHANGED <<now, taskVars, jobVars, queueVars, irq, linkVars, scheduled,
                 curr, task_cpu, stack_in_use, sigVars, panic>>

-----------------------------------------------------------------------------
(* litmus_schedule(): migration of the picked task                         *)

\* prev was woken while the runqueue lock was not held.
PrevUnblocked(c) ==
  curr[c] \in rt \cap running /\ ~was_running[c]

\* Mutant: litmus_schedule() does not wait for the stack of next.
StackIgnored(c) == phase[c] = "wait" /\ ~RqLocked(task_cpu[next[c]])

\* The stack of next is free and both runqueue locks are taken.
StackFree(c) ==
  /\ phase[c] = "wait"
  /\ stack_in_use[next[c]] = NO_CPU
  /\ ~RqLocked(task_cpu[next[c]])

\* litmus->task_block(prev)
resim_block(c) ==
  /\ StackFree(c) /\ PrevUnblocked(c) /\ lock = Free
  /\ unlink(curr[c])
  /\ BugOn(removesFromWrongHeap(curr[c]))
  /\ phase' = [phase EXCEPT ![c] = "resim"]
  /\ UNCHANGED <<now, taskVars, jobVars, irq, schedVars, curr, task_cpu,
                 stack_in_use, next, was_running, sigVars, lock>>

\* litmus->task_wake_up(prev)
resim_wake_up(c) ==
  /\ phase[c] = "resim" /\ lock = Free
  /\ task_wake_up(curr[c], c)
  /\ phase' = [phase EXCEPT ![c] = "attach"]
  /\ resimulated' = resimulated \cup {c}
  /\ UNCHANGED <<now, taskVars, irq, linkVars, schedVars, curr, task_cpu,
                 stack_in_use, next, was_running, tif, ipi, delayed>>

\* set_task_cpu(next), and the task is dropped if it cannot run any more.
attach(c) ==
  /\ \/ StackFree(c) /\ ~PrevUnblocked(c)
     \/ phase[c] = "attach" /\ lock.cpu # c
  /\ task_cpu' = [task_cpu EXCEPT ![next[c]] = c]
  /\ next' = [next EXCEPT ![c] = IF @ \in rt \cap running THEN @ ELSE NULL]
  /\ phase' = [phase EXCEPT ![c] = "switch"]
  /\ UNCHANGED <<now, taskVars, jobVars, queueVars, irq, linkVars, schedVars,
                 curr, stack_in_use, was_running, sigVars, lock, panic>>

\* "We've been spinning for 10ms."
spin_timeout(c) ==
  /\ SpinTimeout /\ phase[c] = "wait" /\ stack_in_use[next[c]] # NO_CPU
  /\ next' = [next EXCEPT ![c] = NULL]
  /\ phase' = [phase EXCEPT ![c] = "switch"]
  /\ UNCHANGED <<now, taskVars, jobVars, queueVars, irq, linkVars, schedVars,
                 curr, task_cpu, stack_in_use, was_running, sigVars, lock,
                 panic>>

\* context_switch() and finish_task_switch(), with gsnedf_finish_switch().
finish_switch(c) ==
  LET prev == curr[c]
      n    == next[c]
  IN
  /\ phase[c] = "switch"
  /\ stack_in_use' = [t \in Task |-> IF t = n THEN c
                                     ELSE IF t = prev THEN NO_CPU
                                     ELSE stack_in_use[t]]
  /\ curr' = [curr EXCEPT ![c] = n]
  /\ scheduled' = [scheduled EXCEPT ![c] =
                     IF prev = n THEN @ ELSE IF n \in rt THEN n ELSE NULL]
  /\ phase' = [phase EXCEPT ![c] = "run"]
  /\ next' = [next EXCEPT ![c] = NULL]
  /\ was_running' = [was_running EXCEPT ![c] = FALSE]
  /\ UNCHANGED <<now, taskVars, jobVars, queueVars, irq, linkVars,
                 scheduled_on, task_cpu, sigVars, lock, panic>>

-----------------------------------------------------------------------------
Init ==
  /\ now = 0
  /\ rt = {} /\ running = Task /\ np = {} /\ delayed = {}
  /\ flags = [t \in Task |-> "RUNNING"]
  /\ release = [t \in Task |-> 0] /\ deadline = [t \in Task |-> 0]
  /\ exhausted = {} /\ owed = {}
  /\ ready = {} /\ relq = {} /\ irq = [c \in CPU |-> {}]
  /\ linked = [c \in CPU |-> NULL] /\ linked_on = [t \in Task |-> NO_CPU]
  /\ scheduled = [c \in CPU |-> NULL]
  /\ scheduled_on = [t \in Task |-> NO_CPU]
  /\ curr = [c \in CPU |-> NULL]
  /\ \E c \in CPU : task_cpu = [t \in Task |-> c]
  /\ stack_in_use = [t \in Task |-> NO_CPU]
  /\ phase = [c \in CPU |-> "run"] /\ next = [c \in CPU |-> NULL]
  /\ was_running = [c \in CPU |-> FALSE]
  /\ tif = {} /\ ipi = {} /\ resimulated = {}
  /\ lock = Free
  /\ panic = FALSE

Handler ==
  \/ \E t \in Task, e \in CPU :
       \/ \E m \in AdmitModes, c \in CPU : task_new(t, m, c, e)
       \/ task_exit(t, e)
       \/ wake(t, e)
  \/ \E c \in CPU :
       \/ \E r \in 0 .. now : on_release_timer(c, r)
       \/ release_jobs(c)
       \/ exhaust(c)
       \/ tick(c)
       \/ reschedule_interrupt(c)
       \/ enter_np(c)
       \/ exit_np(c)

Schedule ==
  \E c \in CPU :
     \/ schedule(c)
     \/ complete_job(c)
     \/ block(c)
     \/ gsnedf_schedule(c)
     \/ resim_block(c)
     \/ resim_wake_up(c)
     \/ attach(c)
     \/ spin_timeout(c)
     \/ finish_switch(c)

\* Nothing follows a BUG().
Next ==
  /\ ~panic
  /\ \/ Handler
     \/ Schedule
     \/ check_for_preemptions
     \/ check_done
     \/ link_pending
     \/ decide
     \/ clock

Spec == Init /\ [][Next]_vars

\* What a processor does next once it is inside schedule() or a handler.
LockStep == check_for_preemptions \/ check_done \/ link_pending \/ decide

Continue(c) ==
  \/ release_jobs(c)
  \/ gsnedf_schedule(c)
  \/ resim_block(c)
  \/ resim_wake_up(c)
  \/ attach(c)
  \/ finish_switch(c)

\* Handlers and schedule() run to completion.  Strong fairness where a lock
\* or enabled interrupts are needed: the spinlocks are ticket locks, and a
\* pending interrupt or need_resched flag is acted upon as soon as interrupts
\* are enabled.  Nobody has to call schedule() without a reason.
Fairness ==
  /\ WF_vars(LockStep)
  /\ SF_vars(\E c \in CPU, r \in 0 .. now : on_release_timer(c, r))
  /\ \A c \in CPU :
       /\ SF_vars(Continue(c))
       /\ SF_vars(reschedule_interrupt(c))
       /\ SF_vars(Current(c) \in tif /\ schedule(c))

FairSpec == Spec /\ Fairness

-----------------------------------------------------------------------------
(* Properties                                                              *)

\* Types of the variables.
TypeOK ==
  /\ now \in Nat
  /\ rt \subseteq Task /\ running \subseteq Task
  /\ np \subseteq Task /\ delayed \subseteq Task
  /\ flags \in [Task -> {"RUNNING", "SLEEP"}]
  /\ release \in [Task -> Nat] /\ deadline \in [Task -> Nat]
  /\ exhausted \subseteq Task /\ owed \subseteq Task
  /\ ready \subseteq Task /\ relq \subseteq Task
  /\ irq \in [CPU -> SUBSET Task]
  /\ linked \in [CPU -> Task \cup {NULL}]
  /\ linked_on \in [Task -> CPU \cup {NO_CPU}]
  /\ scheduled \in [CPU -> Task \cup {NULL}]
  /\ scheduled_on \in [Task -> CPU \cup {NO_CPU}]
  /\ curr \in [CPU -> Task \cup {NULL}]
  /\ task_cpu \in [Task -> CPU]
  /\ stack_in_use \in [Task -> CPU \cup {NO_CPU}]
  /\ phase \in [CPU -> {"run", "sched", "wait", "resim", "attach", "switch"}]
  /\ next \in [CPU -> Task \cup {NULL}]
  /\ was_running \in [CPU -> BOOLEAN]
  /\ tif \subseteq Task \cup CPU /\ ipi \subseteq CPU
  /\ resimulated \subseteq CPU
  /\ lock \in [pc : {"free", "check", "schedcheck", "link", "decide"},
                cpu : CPU \cup {NO_CPU}, go : BOOLEAN]
  /\ panic \in BOOLEAN

\* entry->linked and rt_param.linked_on are inverse to each other, through
\* every swap of link_task_to_cpu() and every unlink().
LinksAgree ==
  \A t \in Task, c \in CPU : linked_on[t] = c <=> linked[c] = t

\* A task is in at most one of the ready queue, the release queue and the
\* heaps dequeued by timer interrupts, and it is not linked meanwhile.
OnePlace ==
  \A t \in Task :
    /\ t \in ready => t \notin relq
    /\ \A c \in CPU : t \in irq[c] => t \notin ready \cup relq
    /\ \A c, d \in CPU : t \in irq[c] /\ t \in irq[d] => c = d
    /\ is_queued(t) => linked_on[t] = NO_CPU

\* A task that is scheduled on a processor, or about to be switched in by it,
\* is linked to no other one: link_task_to_cpu() redirects the link.
LinkedWhereScheduled ==
  \A t \in Task : scheduled_on[t] # NO_CPU /\ linked_on[t] # NO_CPU
                   => linked_on[t] = scheduled_on[t]

\* A task executes on one processor at a time, the one that owns its stack,
\* although the plugin may hand it to a second processor before the first
\* has switched away from it.
OneStack ==
  \A t \in Task, c \in CPU : curr[c] = t => stack_in_use[t] = c

\* No BUG_ON() of the plugin fires and no heap operation is applied to the
\* wrong heap.
NoPanic == ~panic

\* A runnable real-time task that does not execute is linked or queued.
NoLostTask ==
  \A t \in rt \cap running :
     \/ linked_on[t] # NO_CPU
     \/ is_queued(t)
     \/ \E c \in CPU : curr[c] = t

\* c is inside schedule() or has been told to call it.
WillSchedule(c) ==
  phase[c] # "run" \/ Current(c) \in tif \/ c \in ipi \/ irq[c] # {}

\* The task on c executes non-preemptively and will yield at the end.
Delayed(c) == curr[c] \in np \cap delayed

\* A processor that does not run what is linked to it will call schedule():
\* preempt() asks the task that is scheduled while the processor may already be
\* switching to another one.  The exception is a processor that simulated a
\* wake-up in its last schedule(): that wake-up asks the task that is leaving.
PreemptionRequested ==
  lock = Free =>
    \A c \in CPU :
       linked[c] \notin {NULL, scheduled[c]} =>
         WillSchedule(c) \/ Delayed(c) \/ c \in resimulated

\* Some processor is between the simulated block of prev and its wake-up.
Resimulating == \E c \in CPU : phase[c] = "resim"

\* Whenever gsnedf_lock is free, no ready job has a higher priority than a
\* linked one, although links are also changed without going through
\* check_for_preemptions(), and no processor is left without a link while jobs
\* are ready, unless it is about to look for one in gsnedf_schedule() or a
\* simulated wake-up is about to assign one.
EDFOrder ==
  lock = Free => \A t \in ready, c \in CPU :
                   IF linked[c] = NULL
                   THEN WillSchedule(c) \/ Delayed(c) \/ Resimulating
                   ELSE ~edf_higher_prio(t, linked[c])

\* A job is linked only after its release.
ReleasedBeforeRun ==
  \A c \in CPU : linked[c] # NULL => release[linked[c]] <= now

\* A job that called complete_job() is marked so until its successor has
\* been prepared.
CompletionHonoured == \A t \in owed : flags[t] = "SLEEP"

-----------------------------------------------------------------------------
(* An inductive invariant, for tasks that are not admitted while they sleep *)
(* and that only leave by themselves or when dead.                          *)

\* c has decided, and dropped gsnedf_lock, but not completed the switch.
Switching(c) == phase[c] \in {"wait", "resim", "attach", "switch"}

\* Only runnable real-time tasks are linked or queued.
PlacedRuns ==
  \A t \in Task : linked_on[t] # NO_CPU \/ is_queued(t) => t \in rt \cap running

\* entry->scheduled follows rq->curr; the current task belongs to its
\* runqueue and can run unless schedule() has already been entered.
EntryFollows ==
  \A c \in CPU :
    /\ scheduled[c] = curr[c]
    /\ curr[c] # NULL => curr[c] \in rt /\ task_cpu[curr[c]] = c
    /\ phase[c] = "run" /\ curr[c] # NULL => curr[c] \in running

\* A stack is in use exactly where its task is current.
StackOwner ==
  \A t \in Task, c \in CPU : stack_in_use[t] = c <=> curr[c] = t

\* scheduled_on changes with the decision, not with the switch.
ScheduledOnFollows ==
  \A t \in Task, c \in CPU :
    scheduled_on[t] = c <=> (IF Switching(c) THEN next[c] = t ELSE curr[c] = t)

\* What is known of the task picked by c on the way to the context switch.
NextReadyAt(c) ==
  /\ ~Switching(c) => next[c] = NULL
  /\ phase[c] \in {"wait", "resim", "attach"} => next[c] # NULL
  /\ next[c] # NULL =>
       /\ next[c] \in rt \cap running
       /\ next[c] \notin relq
       /\ \A d \in CPU : next[c] \notin irq[d]
       /\ phase[c] \in {"resim", "attach"} => stack_in_use[next[c]] = NO_CPU
       /\ phase[c] = "switch" =>
            /\ task_cpu[next[c]] = c
            /\ next[c] # curr[c] => stack_in_use[next[c]] = NO_CPU

\* A picked task stays runnable and released until the switch.
NextReady == \A c \in CPU : NextReadyAt(c)

\* Stages of the lock holder.
LockOwner ==
  /\ lock.pc = "free" => lock = Free
  /\ lock.pc # "free" => lock.cpu \in CPU
  /\ lock.pc \in {"schedcheck", "link", "decide"} =>
       /\ phase[lock.cpu] = "sched"
       /\ curr[lock.cpu] \in Task \ running => lock.go

\* prev is nowhere between its simulated block and wake-up.
ResimUnplaced ==
  \A c \in CPU : phase[c] = "resim" =>
    /\ curr[c] \in rt \cap running
    /\ linked_on[curr[c]] = NO_CPU
    /\ ~is_queued(curr[c])

\* A current task waits for its next release only if it is being switched out.
WaitingLeaves ==
  \A c \in CPU, t \in Task :
    curr[c] = t /\ (t \in relq \/ \E d \in CPU : t \in irq[d]) =>
      \/ /\ phase[c] = "sched" /\ lock.cpu = c /\ lock.go
         /\ lock.pc \in {"schedcheck", "link", "decide"}
      \/ Switching(c) /\ next[c] # t /\ was_running[c]

\* Jobs that are not in the release queue are released.
Released == \A t \in rt : t \in relq \/ release[t] <= now

\* The inductive invariant.
IInv ==
  /\ TypeOK
  /\ LinksAgree
  /\ OnePlace
  /\ LinkedWhereScheduled
  /\ NoPanic
  /\ PlacedRuns
  /\ EntryFollows
  /\ StackOwner
  /\ ScheduledOnFollows
  /\ NextReady
  /\ LockOwner
  /\ ResimUnplaced
  /\ WaitingLeaves
  /\ Released

\* Without non-preemptive sections a runnable real-time task is linked or
\* queued even while it executes, except between the simulated block and
\* wake-up of litmus_schedule().
Placed ==
  /\ np = {}
  /\ \A t \in rt \cap running :
       \/ linked_on[t] # NO_CPU
       \/ is_queued(t)
       \/ \E c \in CPU : phase[c] = "resim" /\ curr[c] = t

\* No ready job precedes a linked one, except in check_for_preemptions().
Ordered ==
  lock.pc \notin {"check", "schedcheck"} =>
    \A t \in ready, c \in CPU :
       linked[c] # NULL => ~edf_higher_prio(t, linked[c])

\* c has no link because its task has blocked or left, and it is about to look
\* for another one.
LooksForTask(c) ==
  \/ phase[c] = "run" /\ curr[c] = NULL /\ c \in tif
  \/ /\ phase[c] = "sched" /\ curr[c] \notin running
     /\ lock.pc = "decide" => lock.cpu # c
  \/ lock.pc = "link" /\ lock.cpu = c

\* While jobs are ready, processors without a link look for one.
Assigned ==
  /\ lock.pc \notin {"check", "schedcheck"} /\ ready # {}
  /\ ~Resimulating
  => \A c \in CPU : linked[c] = NULL => LooksForTask(c)

\* A task does not block in its non-preemptive section; gsnedf_schedule() lets
\* it go on, with a request to yield if its link is gone.
NonPreemptive ==
  /\ np \subseteq NPTask /\ rt \ running \subseteq Suspending
  /\ lock.pc \in {"schedcheck", "link", "decide"} =>
       LET s == curr[lock.cpu]
       IN  IF lock.go THEN s \notin np
           ELSE s \in np /\ lock.pc # "schedcheck" /\ (s \in delayed \/ linked[lock.cpu] = s)
  /\ \A c \in CPU : Switching(c) /\ next[c] # curr[c] => curr[c] \notin np

\* Interrupt handlers and system calls run outside of schedule(); the simulated
\* wake-up is the only one that checks for preemptions within a switch.
OutsideSwitch ==
  /\ lock.pc = "check" => phase[lock.cpu] = "run" \/ lock.cpu \in resimulated
  /\ \A c \in CPU : irq[c] # {} => phase[c] = "run"

\* c has been asked to reschedule if it runs, or has decided to run, something
\* else than what is linked to it.
AskedAt(c) ==
  /\ phase[c] = "run" /\ linked[c] \notin {NULL, curr[c]} =>
       c \in ipi \/ Current(c) \in tif \/ Delayed(c) \/ c \in resimulated
  /\ Switching(c) /\ linked[c] \notin {NULL, next[c]} =>
       \/ c \in ipi \/ c \in resimulated
       \/ next[c] = curr[c] /\ curr[c] \in np \cap delayed

Asked == \A c \in CPU : AskedAt(c)

\* A linked task eventually executes, unless its link is withdrawn: requests
\* to reschedule are not lost between preempt() and gsnedf_finish_switch().
LinkedTaskRuns ==
  \A t \in Task :
     linked_on[t] # NO_CPU ~> (linked_on[t] = NO_CPU \/ \E c \in CPU : curr[c] = t)

=============================================================================
