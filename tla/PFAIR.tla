------------------------------- MODULE PFAIR --------------------------------
(***************************************************************************)
(* The PFAIR plugin of LITMUS^RT (litmus/sched_pfair.c) under the LITMUS   *)
(* scheduling class (litmus/sched_litmus.c).                               *)
(*                                                                         *)
(* Time is divided into quanta.  At each boundary the first processor that *)
(* takes its timer interrupt links a task to each processor by PD^2, for   *)
(* all of them; the others wait and copy what is linked to them.           *)
(*                                                                         *)
(* Time is counted in quanta; wake-ups and system calls happen within the  *)
(* quantum `now'.  Ticks are aligned.  A critical section under pfair_lock *)
(* is one step, except schedule_next_quantum(), beside which other         *)
(* processors copy `linked' without the lock: it is a step up to the first *)
(* link, one for each iteration of schedule_subtasks(), and one to         *)
(* announce the quantum.  The copy is a load and a store.  All background  *)
(* work of a processor is one entity, curr[c] = NULL.  Not modelled: the   *)
(* 10ms limit of litmus_schedule(), the limit of 10 retries in the tick,   *)
(* EARLY_RELEASE, and statistics (local_tick, missed_quanta).              *)
(***************************************************************************)
EXTENDS Naturals, FiniteSetsExt

CONSTANTS
  Task,              \* tasks, named by their pid
  NULL,              \* no task
  NO_CPU,            \* no processor
  PFAIR_MAX_PERIOD,  \* size of the release wheel
  Setups             \* systems to choose from

ASSUME ConstantsAssumption ==
  /\ Task \subseteq Nat /\ NULL \notin Nat /\ NO_CPU \notin Nat
  /\ PFAIR_MAX_PERIOD \in Nat \ {0}

VARIABLES
  setup,         \* what does not change, see Setup
  now,           \* litmus_clock(), in quanta
  pfair_time,    \* the official clock
  merge_time,    \* the quantum whose releases were polled last
  cur_tick,      \* the quantum announced to all processors
  rt,            \* tasks for which is_realtime() holds
  running,       \* tasks for which is_running() holds
  present,       \* tasks with the flag `present'
  flags,         \* RT_F_RUNNING or RT_F_SLEEP
  pfair,         \* pfair[t]: struct pfair_param
  sync,          \* synchronous release: "new", "wait", "done"
  start,         \* the release time of do_release_ts()
  ready,         \* ready queue
  relq,          \* release wheel
  linked,        \* linked[c]: the task c should be executing
  local,         \* local[c]: the local copy of it
  linked_on,     \* rt_param.linked_on
  scheduled_on,  \* rt_param.scheduled_on
  curr,          \* rq->curr
  task_cpu,      \* runqueue a task belongs to
  stack_in_use,  \* rt_param.stack_in_use
  phase,         \* where a processor is in the tick or in schedule()
  cur,           \* cur[c]: the quantum that the last tick of c found
  quantum,       \* quantum[c]: the quantum that c advances to
  catching,      \* processors in catchup_quanta()
  at,            \* the processor that schedule_subtasks() deals with
  loaded,        \* loaded[c]: `linked' as c has read it
  next,          \* next[c]: the task that schedule() has picked
  was_running,   \* processors whose prev ran when their lock was dropped
  tif,           \* TIF_NEED_RESCHED: of tasks and of the background of a CPU
  ipi,           \* processors with a pending reschedule interrupt
  panic          \* has a BUG_ON() fired, or a queue been corrupted?

clockVars  == <<pfair_time, merge_time, cur_tick>>
taskVars   == <<rt, running, present>>
jobVars    == <<flags, pfair>>
syncVars   == <<sync, start>>
queueVars  == <<ready, relq>>
linkVars   == <<linked, linked_on>>
switchVars == <<curr, task_cpu, stack_in_use>>
tickVars   == <<cur, quantum, catching, at, loaded>>
pickVars   == <<next, was_running>>
sigVars    == <<tif, ipi>>

vars == <<setup, now, clockVars, taskVars, jobVars, syncVars, queueVars,
          linkVars, local, scheduled_on, switchVars, phase, tickVars, pickVars,
          sigVars, panic>>

\* cpus: number of processors.  quanta, period: parameters of the tasks.
\* started: tasks that have been released together, for quantum 1.  queued:
\* tasks that wait for a processor when they become real-time.  synched: tasks
\* that wait for a synchronous release.  completing, blocking, leaving: tasks
\* that end their jobs early, suspend, leave real-time mode.  lag: does time
\* pass during a tick, in the scheduler and before interrupts?  exact: may a
\* task be woken at the very beginning of a quantum?  admit: bound, no task
\* becomes real-time after this time.  end: bound, the clock stops here.
Setup ==
  [cpus : Nat \ {0}, quanta : [Task -> Nat], period : [Task -> Nat],
   started : SUBSET Task, tasks : SUBSET Task, queued : SUBSET Task,
   synched : SUBSET Task, completing : SUBSET Task, blocking : SUBSET Task,
   leaving : SUBSET Task, lag : BOOLEAN, exact : BOOLEAN, admit : Nat,
   end : Nat]

CPU == 0 .. setup.cpus - 1

-----------------------------------------------------------------------------
(* Subtasks and their priorities                                           *)

ceil(a, b) == (a + b - 1) \div b

\* pfair_admit_task(): a task of weight 1 has one subtask per quantum.
Quanta(t) == IF setup.quanta[t] = setup.period[t] THEN 1 ELSE setup.quanta[t]
Period(t) == IF setup.quanta[t] = setup.period[t] THEN 1 ELSE setup.period[t]

\* Subtask i of a job of q quanta every p, relative to the release of the job.
init_subtask(i, q, p) ==
  LET deadline == ceil(p * (i + 1), q)
      tmp      == (deadline - (i + 1)) * p
  IN
  [release  |-> (p * i) \div q,
   deadline |-> deadline,
   overlap  |-> deadline - (p * (i + 1)) \div q,
   group_deadline |-> IF 2 * q < p THEN 0
                      ELSE IF p > q THEN ceil(tmp, p - q) ELSE tmp]

subtasks ==
  [q \in 1 .. PFAIR_MAX_PERIOD |-> [p \in 1 .. PFAIR_MAX_PERIOD |->
     [i \in 0 .. q - 1 |-> init_subtask(i, q, p)]]]

\* Of the current subtask of a task with parameters a.
cur_sub(t, a) == subtasks[Quanta(t)][Period(t)][a.cur]
cur_release(t, a) == a.release + cur_sub(t, a).release
cur_deadline(t, a) == a.release + cur_sub(t, a).deadline
cur_overlap(t, a) == cur_sub(t, a).overlap
cur_group_deadline(t, a) ==
  LET gdl == cur_sub(t, a).group_deadline IN IF gdl = 0 THEN 0 ELSE gdl + a.release

\* Mutant: ties are broken by pid only.
pfair_higher_prio_edf(first, second) ==
  LET a == pfair[first]
      b == pfair[second]
  IN
  first # NULL /\
    \/ second \notin rt
    \/ cur_deadline(first, a) < cur_deadline(second, b)
    \/ cur_deadline(first, a) = cur_deadline(second, b) /\ first < second

\* second may be NULL.
pfair_higher_prio(first, second) ==
  LET a == pfair[first]
      b == pfair[second]
  IN
  first # NULL /\
    \/ second \notin rt
    \/ cur_deadline(first, a) < cur_deadline(second, b)
    \/ /\ cur_deadline(first, a) = cur_deadline(second, b)
       /\ \/ cur_overlap(first, a) > cur_overlap(second, b)
          \/ /\ cur_overlap(first, a) = cur_overlap(second, b)
             /\ \/ cur_group_deadline(first, a) > cur_group_deadline(second, b)
                \/ /\ cur_group_deadline(first, a) = cur_group_deadline(second, b)
                   /\ first < second

\* What __peek_ready() finds.
peek_ready ==
  IF ready = {} THEN NULL
  ELSE CHOOSE t \in ready : \A u \in ready \ {t} : pfair_higher_prio(t, u)

Slot(time) == time % PFAIR_MAX_PERIOD

in_heap(t) == t \in ready \/ \E s \in DOMAIN relq : t \in relq[s]

\* prepare_release(), which ends a wait for a sporadic release.
prepare_release(t, time) ==
  [pfair EXCEPT ![t].release = time, ![t].cur = 0, ![t].sporadic_release = FALSE]

\* BUG_ON(cond), and conditions under which a heap would be corrupted.
BugOn(cond) == panic' = (panic \/ cond)

\* Who owns the TIF_NEED_RESCHED flag that schedule() on c looks at.
Current(c) == IF curr[c] = NULL THEN <<"cpu", c>> ELSE <<"task", curr[c]>>

Open(c) == phase[c] = "run"

\* pfair_lock is held across steps.
Locked == \E c \in CPU : phase[c] = "link"

\* The runqueue lock of c is held: by a tick, by schedule(), except while it
\* spins on a stack, or by a processor that migrates a task.
RqLocked(c) == phase[c] \notin {"run", "wait", "release"}

\* check_preempt() on e of a task that is present, linked on lo and scheduled
\* on so; `current' executes on e, and fl are the flags before.
check_preempt(lo, so, e, current, fl) ==
  LET cpu == IF lo # NO_CPU THEN lo ELSE so IN
  /\ tif' = IF lo # so /\ cpu = e THEN fl \cup {current} ELSE fl
  /\ ipi' = IF lo # so /\ cpu # e THEN ipi \cup {cpu} ELSE ipi

\* drop_all_references(): the queue is inferred from the release time.
dropped_heap(t) ==
  LET r == cur_release(t, pfair[t]) IN
  IF r <= merge_time THEN <<ready \ {t}, relq>>
  ELSE <<ready, [relq EXCEPT ![Slot(r)] = @ \ {t}]>>

corrupts(t) ==
  /\ in_heap(t)
  /\ IF cur_release(t, pfair[t]) <= merge_time THEN t \notin ready
     ELSE t \notin relq[Slot(cur_release(t, pfair[t]))]

without(f, ts) == [c \in CPU |-> IF f[c] \in ts THEN NULL ELSE f[c]]
-----------------------------------------------------------------------------
(* The tick                                                                *)

\* Mutant: the test is off by one.
wait_for_quantum_after(q) == cur_tick > q

\* wait_for_quantum() returns.
wait_for_quantum(q) == cur_tick >= q

tick(c) ==
  /\ Open(c) /\ cur[c] < now
  /\ cur' = [cur EXCEPT ![c] = now]
  /\ phase' = [phase EXCEPT ![c] = "adv"]
  /\ UNCHANGED <<setup, now, clockVars, taskVars, jobVars, syncVars, queueVars,
                 linkVars, local, scheduled_on, switchVars, quantum, catching,
                 at, loaded, pickVars, sigVars, panic>>

\* pfair_tick() compares pfair_time with the previous quantum, and exchanges
\* it: c prepares the quantum, or the system has missed a tick, or c has read
\* the clock too early and reads it again, or another processor is preparing
\* the quantum.
exchange(c) ==
  /\ phase[c] = "adv"
  /\ \/ /\ pfair_time + 1 = cur[c]
        /\ pfair_time' = cur[c]
        /\ quantum' = [quantum EXCEPT ![c] = cur[c]]
        /\ phase' = [phase EXCEPT ![c] = "turn"]
        /\ UNCHANGED <<cur, catching>>
     \/ /\ pfair_time + 1 < cur[c]
        /\ quantum' = [quantum EXCEPT ![c] = pfair_time]
        /\ catching' = catching \cup {c}
        /\ phase' = [phase EXCEPT ![c] = "catch"]
        /\ UNCHANGED <<cur, pfair_time>>
     \/ /\ pfair_time > cur[c]
        /\ cur' = [cur EXCEPT ![c] = now]
        /\ UNCHANGED <<pfair_time, quantum, catching, phase>>
     \/ /\ pfair_time = cur[c]
        /\ phase' = [phase EXCEPT ![c] = "copy"]
        /\ UNCHANGED <<cur, pfair_time, quantum, catching>>
  /\ UNCHANGED <<setup, now, merge_time, cur_tick, taskVars, jobVars, syncVars,
                 queueVars, linkVars, local, scheduled_on, switchVars, at,
                 loaded, pickVars, sigVars, panic>>

\* An iteration of catchup_quanta(), or its end: then the tick starts over.
catchup(c) ==
  LET q == quantum[c] IN
  /\ phase[c] = "catch"
  /\ \/ /\ q < cur[c] /\ wait_for_quantum(q)
        /\ quantum' = [quantum EXCEPT ![c] = q + 1]
        /\ IF pfair_time = q
           THEN /\ pfair_time' = q + 1
                /\ phase' = [phase EXCEPT ![c] = "turn"]
           ELSE UNCHANGED <<pfair_time, phase>>
        /\ UNCHANGED <<cur, catching>>
     \/ /\ q >= cur[c]
        /\ cur' = [cur EXCEPT ![c] = now]
        /\ catching' = catching \ {c}
        /\ phase' = [phase EXCEPT ![c] = "adv"]
        /\ UNCHANGED <<pfair_time, quantum>>
  /\ UNCHANGED <<setup, now, merge_time, cur_tick, taskVars, jobVars, syncVars,
                 queueVars, linkVars, local, scheduled_on, switchVars, at,
                 loaded, pickVars, sigVars, panic>>

\* Parameters of t, linked on c, after advance_subtask() for quantum `time'.
advanced(time, t, c) ==
  LET last == pfair[t].cur + 1 = Quanta(t) IN
  [cur              |-> (pfair[t].cur + 1) % Quanta(t),
   release          |-> pfair[t].release
                        + (IF last /\ t \in present THEN Period(t) ELSE 0),
   last_quantum     |-> time,
   last_cpu         |-> c,
   sporadic_release |-> pfair[t].sporadic_release \/ (last /\ t \notin present)]

\* schedule_next_quantum() up to schedule_subtasks(), once the previous quantum
\* has been announced.  Linked tasks advance to their next subtask: it may have
\* to wait for its release, and a blocked task leaves at the end of its job.
advance_subtasks(c) ==
  LET time == quantum[c]
      L    == {linked[d] : d \in CPU} \ {NULL}
      on(t) == CHOOSE d \in CPU : linked[d] = t
      gone == {t \in L : pfair'[t].sporadic_release}
      to_relq == {t \in L \ gone : cur_release(t, pfair'[t]) > time}
      to_slot(s) == {t \in to_relq : Slot(cur_release(t, pfair'[t])) = s}
  IN
  /\ phase[c] = "turn" /\ wait_for_quantum(time - 1) /\ ~Locked
  /\ pfair' = [t \in Task |-> IF t \in L THEN advanced(time, t, on(t)) ELSE pfair[t]]
  /\ flags' = [t \in Task |-> IF t \in L \ gone /\ pfair'[t].cur = 0
                              THEN "RUNNING" ELSE flags[t]]
  /\ linked' = without(linked, gone \cup to_relq)
  /\ local' = without(local, gone)
  /\ ready' = ready \cup relq[Slot(time)] \cup to_slot(Slot(time))
  /\ relq' = [s \in DOMAIN relq |-> IF s = Slot(time) THEN {}
                                    ELSE relq[s] \cup to_slot(s)]
  /\ merge_time' = time
  /\ BugOn(\E t \in to_relq : in_heap(t))
  /\ phase' = [phase EXCEPT ![c] = "link"]
  /\ at' = 0
  /\ UNCHANGED <<setup, now, pfair_time, cur_tick, taskVars, syncVars, linked_on,
                 scheduled_on, switchVars, cur, quantum, catching, loaded,
                 pickVars, sigVars>>

\* Mutant: tasks are linked away from where they execute.
target_cpu_default(time, t, default_cpu) == default_cpu

target_cpu(time, t, default_cpu) ==
  LET cpu == pfair[t].last_cpu IN
  IF scheduled_on[t] # NO_CPU THEN scheduled_on[t]
  ELSE IF /\ pfair[t].last_quantum + 1 = time
          /\ linked[cpu] # NULL => scheduled_on[linked[cpu]] # cpu
       THEN cpu
  ELSE default_cpu

\* Mutant: only what was linked to cpu.
pushed_back_prev(cpu, target) == {linked[cpu]} \ {NULL}

\* The tasks that a link returns to the ready queue.
pushed_back(cpu, target) ==
  {IF target > cpu \/ linked[target] = NULL THEN linked[target]
   ELSE linked[cpu]} \ {NULL}

\* pfair_link(): t, from the ready queue, is linked to its target.  A task that
\* was linked there moves to this processor if that had been dealt with, and
\* otherwise returns to the ready queue; then this processor is not done.
pfair_link(time, cpu, t) ==
  LET target == target_cpu(time, t, cpu)
      prev   == linked[cpu]
      other  == linked[target]
      swap   == target < cpu /\ other # NULL
      back   == pushed_back(cpu, target)
  IN
  /\ linked' = [linked EXCEPT ![target] = t,
                              ![cpu] = IF target = cpu THEN t
                                       ELSE IF swap THEN other ELSE prev]
  /\ linked_on' = [u \in Task |-> IF u = t THEN target
                                  ELSE IF u \in back THEN NO_CPU
                                  ELSE IF swap /\ u = other THEN cpu
                                  ELSE linked_on[u]]
  /\ ready' = (ready \ {t}) \cup back
  /\ at' = IF target = cpu \/ swap THEN cpu + 1 ELSE cpu

\* An iteration of schedule_subtasks().
schedule_subtasks(c) ==
  /\ phase[c] = "link" /\ at < setup.cpus
  /\ \E t \in {peek_ready} :
       IF pfair_higher_prio(t, linked[at])
       THEN pfair_link(quantum[c], at, t)
       ELSE at' = at + 1 /\ UNCHANGED <<linkVars, ready>>
  /\ UNCHANGED <<setup, now, clockVars, taskVars, jobVars, syncVars, relq, local,
                 scheduled_on, switchVars, phase, cur, quantum, catching,
                 loaded, pickVars, sigVars, panic>>

\* The end of schedule_next_quantum().
announce(c) ==
  /\ phase[c] = "link" /\ at = setup.cpus
  /\ cur_tick' = quantum[c]
  /\ at' = 0
  /\ phase' = [phase EXCEPT ![c] = IF c \in catching THEN "catch" ELSE "copy"]
  /\ UNCHANGED <<setup, now, pfair_time, merge_time, taskVars, jobVars, syncVars,
                 queueVars, linkVars, local, scheduled_on, switchVars, cur,
                 quantum, catching, loaded, pickVars, sigVars, panic>>

\* When the quantum has been announced, c reads what is linked to it ...
load_linked(c) ==
  /\ phase[c] = "copy" /\ wait_for_quantum(cur[c])
  /\ loaded' = [loaded EXCEPT ![c] = linked[c]]
  /\ phase' = [phase EXCEPT ![c] = "store"]
  /\ UNCHANGED <<setup, now, clockVars, taskVars, jobVars, syncVars, queueVars,
                 linkVars, local, scheduled_on, switchVars, cur, quantum,
                 catching, at, pickVars, sigVars, panic>>

\* ... and keeps it, and reschedules if it executes something else.
store_local(c) ==
  LET l == loaded[c] IN
  /\ phase[c] = "store"
  /\ local' = [local EXCEPT ![c] = l]
  /\ loaded' = [loaded EXCEPT ![c] = NULL]
  /\ quantum' = [quantum EXCEPT ![c] = 0]
  /\ tif' = IF l # curr[c] /\ (curr[c] \in rt \/ l \in present)
            THEN tif \cup {Current(c)} ELSE tif
  /\ phase' = [phase EXCEPT ![c] = "run"]
  /\ UNCHANGED <<setup, now, clockVars, taskVars, jobVars, syncVars, queueVars,
                 linkVars, scheduled_on, switchVars, cur, catching, at,
                 pickVars, ipi, panic>>

-----------------------------------------------------------------------------
(* Handlers                                                                *)

\* sched_setscheduler(t, SCHED_LITMUS) on e, pfair_admit_task() and
\* pfair_task_new(): only a task that is executing is present, and linked_on is
\* 0, since nothing initialises it.
task_new(t, e) ==
  LET pf   == prepare_release(t, pfair_time + 1)
      slot == Slot(pfair_time + 1)
  IN
  /\ t \in setup.tasks \ rt /\ now <= setup.admit
  /\ Open(e) /\ ~Locked
  /\ rt' = rt \cup {t}
  /\ pfair' = pf
  /\ BugOn(in_heap(t))
  /\ relq' = [relq EXCEPT ![slot] = @ \cup {t}]
  /\ \/ /\ t \notin setup.queued /\ curr[e] = NULL
        /\ present' = present \cup {t}
        /\ scheduled_on' = [scheduled_on EXCEPT ![t] = e]
        /\ curr' = [curr EXCEPT ![e] = t]
        /\ task_cpu' = [task_cpu EXCEPT ![t] = e]
        /\ stack_in_use' = [stack_in_use EXCEPT ![t] = e]
        /\ check_preempt(0, e, e, <<"task", t>>,
                         IF Current(e) \in tif
                         THEN (tif \ {Current(e)}) \cup {<<"task", t>>} ELSE tif)
     \/ /\ t \in setup.queued /\ ~RqLocked(task_cpu[t])
        /\ UNCHANGED <<present, scheduled_on, switchVars, sigVars>>
  /\ UNCHANGED <<setup, now, clockVars, running, flags, syncVars, ready, linkVars,
                 local, phase, tickVars, pickVars>>

\* pfair_task_exit() of the task itself, or of a dead task by whoever reaps it.
task_exit(t, e) ==
  LET self == curr[e] = t IN
  /\ t \in rt \cap setup.leaving /\ Open(e) /\ ~Locked
  /\ self \/ (t \notin running /\ stack_in_use[t] = NO_CPU /\ sync[t] # "wait")
  /\ ready' = dropped_heap(t)[1] /\ relq' = dropped_heap(t)[2]
  /\ BugOn(corrupts(t))
  /\ linked' = without(linked, {t}) /\ local' = without(local, {t})
  /\ rt' = rt \ {t}
  /\ running' = running \cup {t} /\ present' = present \ {t}
  /\ flags' = [flags EXCEPT ![t] = "RUNNING"]
  /\ linked_on' = [linked_on EXCEPT ![t] = 0]
  /\ scheduled_on' = [scheduled_on EXCEPT ![t] = NO_CPU]
  /\ stack_in_use' = [stack_in_use EXCEPT ![t] = NO_CPU]
  /\ curr' = IF self THEN [curr EXCEPT ![e] = NULL] ELSE curr
  /\ tif' = IF self THEN (tif \ {<<"task", t>>}) \cup {<<"cpu", e>>} ELSE tif
  /\ UNCHANGED <<setup, now, clockVars, pfair, syncVars, task_cpu, phase,
                 tickVars, pickVars, ipi>>

\* pfair_task_wake_up() on e; the clock reads r, rounded up.
task_wake_up(t, e, r) ==
  /\ IF pfair[t].sporadic_release
     THEN /\ pfair' = prepare_release(t, r)
          /\ flags' = [flags EXCEPT ![t] = "RUNNING"]
          /\ relq' = [relq EXCEPT ![Slot(r)] = @ \cup {t}]
          /\ BugOn(in_heap(t))
     ELSE UNCHANGED <<pfair, flags, relq, panic>>
  /\ check_preempt(linked_on[t], scheduled_on[t], e, Current(e), tif)

Ceil(time) == IF setup.exact THEN {time, time + 1} ELSE {time + 1}

\* try_to_wake_up() of a blocked task, on e.
wake(t, e) ==
  /\ t \in rt \ running /\ sync[t] # "wait"
  /\ Open(e) /\ ~RqLocked(task_cpu[t]) /\ ~Locked
  /\ running' = running \cup {t} /\ present' = present \cup {t}
  /\ \E r \in Ceil(now) : task_wake_up(t, e, r)
  /\ UNCHANGED <<setup, now, clockVars, rt, syncVars, ready, linkVars, local,
                 scheduled_on, switchVars, phase, tickVars, pickVars>>

\* do_release_ts() takes its lock, with interrupts disabled; the release is in
\* the next quantum.
release_ts(e) ==
  /\ Open(e) /\ (\E t \in Task : sync[t] = "wait")
  /\ \A d \in CPU : phase[d] # "release"
  /\ start' = now + 1
  /\ phase' = [phase EXCEPT ![e] = "release"]
  /\ UNCHANGED <<setup, now, clockVars, taskVars, jobVars, sync, queueVars,
                 linkVars, local, scheduled_on, switchVars, tickVars, pickVars,
                 sigVars, panic>>

\* pfair_release_at() for one of the waiting tasks.  The difference is unsigned:
\* a release that has passed is put off to the end of the wheel.
release_at(t, e) ==
  LET r    == IF start < pfair_time \/ start - pfair_time >= PFAIR_MAX_PERIOD
              THEN pfair_time + PFAIR_MAX_PERIOD ELSE start
      heap == dropped_heap(t)
  IN
  /\ phase[e] = "release" /\ sync[t] = "wait" /\ ~Locked
  /\ linked' = without(linked, {t}) /\ local' = without(local, {t})
  /\ ready' = heap[1]
  /\ relq' = [heap[2] EXCEPT ![Slot(r)] = @ \cup {t}]
  /\ BugOn(corrupts(t))
  /\ pfair' = prepare_release(t, r)
  /\ flags' = [flags EXCEPT ![t] = "RUNNING"]
  /\ sync' = [sync EXCEPT ![t] = "done"]
  /\ UNCHANGED <<setup, now, clockVars, taskVars, start, linked_on, scheduled_on,
                 switchVars, phase, tickVars, pickVars, sigVars>>

release_ts_end(e) ==
  /\ phase[e] = "release" /\ \A t \in Task : sync[t] # "wait"
  /\ start' = 0
  /\ phase' = [phase EXCEPT ![e] = "run"]
  /\ UNCHANGED <<setup, now, clockVars, taskVars, jobVars, sync, queueVars,
                 linkVars, local, scheduled_on, switchVars, tickVars, pickVars,
                 sigVars, panic>>

\* smp_reschedule_interrupt()
reschedule_interrupt(c) ==
  /\ Open(c) /\ c \in ipi
  /\ ipi' = ipi \ {c}
  /\ tif' = tif \cup {Current(c)}
  /\ UNCHANGED <<setup, now, clockVars, taskVars, jobVars, syncVars, queueVars,
                 linkVars, local, scheduled_on, switchVars, phase, tickVars,
                 pickVars, panic>>

\* c has taken its tick and all interrupts, and executes what it has to.
Quiet(c) ==
  /\ Open(c) /\ cur[c] = now
  /\ c \notin ipi /\ Current(c) \notin tif

clock ==
  /\ now < setup.end
  /\ setup.lag \/ \A c \in CPU : Quiet(c)
  /\ now' = now + 1
  /\ UNCHANGED <<setup, clockVars, taskVars, jobVars, syncVars, queueVars,
                 linkVars, local, scheduled_on, switchVars, phase, tickVars,
                 pickVars, sigVars, panic>>

-----------------------------------------------------------------------------
(* schedule()                                                              *)

\* schedule() takes the runqueue lock and clears TIF_NEED_RESCHED.
enter(c) == phase' = [phase EXCEPT ![c] = "sched"]

schedule(c) ==
  /\ Open(c) /\ Current(c) \in tif
  /\ enter(c)
  /\ tif' = tif \ {Current(c)}
  /\ UNCHANGED <<setup, now, clockVars, taskVars, jobVars, syncVars, queueVars,
                 linkVars, local, scheduled_on, switchVars, tickVars, pickVars,
                 ipi, panic>>

complete_job(c) ==
  /\ Open(c) /\ curr[c] \in setup.completing /\ Current(c) \notin tif
  /\ enter(c)
  /\ flags' = [flags EXCEPT ![curr[c]] = "SLEEP"]
  /\ UNCHANGED <<setup, now, clockVars, taskVars, pfair, syncVars, queueVars,
                 linkVars, local, scheduled_on, switchVars, tickVars, pickVars,
                 sigVars, panic>>

\* The task on c blocks, perhaps in wait_for_ts_release().
block(c) ==
  LET t == curr[c] IN
  /\ Open(c) /\ t # NULL /\ Current(c) \notin tif
  /\ \/ /\ t \in setup.synched /\ sync[t] = "new"
        /\ \A d \in CPU : phase[d] # "release"
        /\ sync' = [sync EXCEPT ![t] = "wait"]
     \/ t \in setup.blocking /\ UNCHANGED sync
  /\ enter(c)
  /\ running' = running \ {t} /\ present' = present \ {t}
  /\ UNCHANGED <<setup, now, clockVars, rt, jobVars, start, queueVars, linkVars,
                 local, scheduled_on, switchVars, tickVars, pickVars, sigVars,
                 panic>>

safe_to_schedule(t, cpu) ==
  /\ scheduled_on[t] \in {NO_CPU, cpu}
  /\ t \in present /\ flags[t] = "RUNNING"

\* pfair_schedule(), and litmus_schedule() tests for a task of another runqueue.
pfair_schedule(c) ==
  LET prev == curr[c]
      n    == IF local[c] # NULL /\ safe_to_schedule(local[c], c)
              THEN local[c] ELSE NULL
  IN
  /\ phase[c] = "sched" /\ ~Locked
  /\ scheduled_on' = [t \in Task |-> IF prev = n THEN scheduled_on[t]
                                     ELSE IF t = n THEN c
                                     ELSE IF t = prev THEN NO_CPU
                                     ELSE scheduled_on[t]]
  /\ next' = [next EXCEPT ![c] = n]
  /\ was_running' = IF prev \in running THEN was_running \cup {c}
                    ELSE was_running \ {c}
  /\ phase' = [phase EXCEPT ![c] =
                 IF n # NULL /\ task_cpu[n] # c THEN "wait" ELSE "switch"]
  /\ UNCHANGED <<setup, now, clockVars, taskVars, jobVars, syncVars, queueVars,
                 linkVars, local, switchVars, tickVars, sigVars, panic>>

\* The stack of next is free, so that both runqueue locks are taken, and next
\* gets a new runqueue; if prev was woken meanwhile, the plugin is told.  next
\* is dropped if it cannot run any more.
migrate(c) ==
  LET n    == next[c]
      prev == curr[c]
  IN
  /\ phase[c] = "wait"
  /\ stack_in_use[n] = NO_CPU /\ ~RqLocked(task_cpu[n])
  /\ IF prev \in rt \cap running /\ c \notin was_running
     THEN ~Locked /\ \E r \in Ceil(now) : task_wake_up(prev, c, r)
     ELSE UNCHANGED <<jobVars, relq, sigVars, panic>>
  /\ task_cpu' = [task_cpu EXCEPT ![n] = c]
  /\ next' = [next EXCEPT ![c] = IF @ \in rt \cap running THEN @ ELSE NULL]
  /\ phase' = [phase EXCEPT ![c] = "switch"]
  /\ UNCHANGED <<setup, now, clockVars, taskVars, syncVars, ready, linkVars,
                 local, scheduled_on, curr, stack_in_use, tickVars, was_running>>

\* The end of litmus_schedule() and the context switch.
finish_switch(c) ==
  LET n == next[c] IN
  /\ phase[c] = "switch"
  /\ stack_in_use' = [t \in Task |-> IF t = n THEN c
                                     ELSE IF t = curr[c] THEN NO_CPU
                                     ELSE stack_in_use[t]]
  /\ curr' = [curr EXCEPT ![c] = n]
  /\ phase' = [phase EXCEPT ![c] = "run"]
  /\ next' = [next EXCEPT ![c] = NULL]
  /\ was_running' = was_running \ {c}
  /\ UNCHANGED <<setup, now, clockVars, taskVars, jobVars, syncVars, queueVars,
                 linkVars, local, scheduled_on, task_cpu, tickVars, sigVars,
                 panic>>

-----------------------------------------------------------------------------
\* pfair_activate_plugin() at time 0; the tasks in setup.started have become
\* real-time before, and a synchronous release for quantum 1 has woken them.
Init ==
  /\ setup \in Setups
  /\ now = 0 /\ pfair_time = 0 /\ merge_time = 0 /\ cur_tick = 0
  /\ rt = setup.started /\ running = Task /\ present = setup.started
  /\ flags = [t \in Task |-> "RUNNING"]
  /\ pfair = [t \in Task |-> [cur |-> 0, release |-> 1, last_quantum |-> 0,
                              last_cpu |-> 0, sporadic_release |-> FALSE]]
  /\ sync = [t \in Task |-> IF t \in setup.started THEN "done" ELSE "new"]
  /\ start = 0
  /\ ready = {}
  /\ relq = [s \in 0 .. PFAIR_MAX_PERIOD - 1 |->
               IF s = Slot(1) THEN setup.started ELSE {}]
  /\ linked = [c \in CPU |-> NULL] /\ local = [c \in CPU |-> NULL]
  /\ linked_on = [t \in Task |-> 0]
  /\ scheduled_on = [t \in Task |-> NO_CPU]
  /\ curr = [c \in CPU |-> NULL]
  /\ task_cpu = [t \in Task |-> t % setup.cpus]
  /\ stack_in_use = [t \in Task |-> NO_CPU]
  /\ phase = [c \in CPU |-> "run"]
  /\ cur = [c \in CPU |-> 0] /\ quantum = [c \in CPU |-> 0]
  /\ catching = {} /\ at = 0
  /\ loaded = [c \in CPU |-> NULL] /\ next = [c \in CPU |-> NULL]
  /\ was_running = {} /\ tif = {} /\ ipi = {}
  /\ panic = FALSE

\* Steps of a processor in the tick, of other handlers, and in schedule().
Tick(c) ==
  \/ exchange(c)
  \/ catchup(c)
  \/ advance_subtasks(c)
  \/ schedule_subtasks(c)
  \/ announce(c)
  \/ load_linked(c)
  \/ store_local(c)

Handler ==
  \/ \E t \in Task, e \in CPU :
       \/ task_new(t, e)
       \/ task_exit(t, e)
       \/ wake(t, e)
       \/ release_at(t, e)
  \/ \E c \in CPU :
       \/ release_ts(c)
       \/ release_ts_end(c)
       \/ reschedule_interrupt(c)

Schedule ==
  \E c \in CPU :
     \/ schedule(c)
     \/ complete_job(c)
     \/ block(c)
     \/ pfair_schedule(c)
     \/ migrate(c)
     \/ finish_switch(c)

\* Nothing follows a BUG().
Next ==
  /\ ~panic
  /\ \/ \E c \in CPU : tick(c) \/ Tick(c)
     \/ Handler
     \/ Schedule
     \/ clock

Spec == Init /\ [][Next]_vars

-----------------------------------------------------------------------------
(* Properties                                                              *)

\* Types of the variables.
TypeOK ==
  /\ setup \in Setups
  /\ {now, pfair_time, merge_time, cur_tick, start} \subseteq Nat
  /\ rt \subseteq Task /\ running \subseteq Task /\ present \subseteq Task
  /\ flags \in [Task -> {"RUNNING", "SLEEP"}]
  /\ \A t \in Task : pfair[t].cur \in 0 .. Quanta(t) - 1
  /\ sync \in [Task -> {"new", "wait", "done"}]
  /\ ready \subseteq Task
  /\ relq \in [0 .. PFAIR_MAX_PERIOD - 1 -> SUBSET Task]
  /\ linked \in [CPU -> Task \cup {NULL}] /\ local \in [CPU -> Task \cup {NULL}]
  /\ linked_on \in [Task -> CPU \cup {NO_CPU}]
  /\ scheduled_on \in [Task -> CPU \cup {NO_CPU}]
  /\ curr \in [CPU -> Task \cup {NULL}] /\ task_cpu \in [Task -> CPU]
  /\ stack_in_use \in [Task -> CPU \cup {NO_CPU}]
  /\ phase \in [CPU -> {"run", "adv", "turn", "catch", "link", "copy", "store",
                        "sched", "wait", "switch", "release"}]
  /\ cur \in [CPU -> Nat] /\ quantum \in [CPU -> Nat]
  /\ catching \subseteq CPU /\ at \in 0 .. setup.cpus
  /\ loaded \in [CPU -> Task \cup {NULL}] /\ next \in [CPU -> Task \cup {NULL}]
  /\ was_running \subseteq CPU /\ ipi \subseteq CPU
  /\ panic \in BOOLEAN

Places(t) ==
  {<<"linked", c>> : c \in {d \in CPU : linked[d] = t}} \cup
  {<<"ready", 0>> : u \in ready \cap {t}} \cup
  {<<"relq", s>> : s \in {r \in DOMAIN relq : t \in relq[r]}}

\* Every task is linked to one processor, ready, or waits for its release, and
\* only there; a task that blocked until the end of its job is nowhere.  It is
\* in the queue where drop_all_references() looks for it, and will be polled
\* when its subtask is released, not a turn of the wheel later.
Queued ==
  /\ \A t \in rt :
       /\ Cardinality(Places(t)) = IF pfair[t].sporadic_release THEN 0 ELSE 1
       /\ t \in ready => cur_release(t, pfair[t]) <= merge_time
       /\ \A s \in DOMAIN relq : t \in relq[s] =>
             LET r == cur_release(t, pfair[t]) IN
             s = Slot(r) /\ r \in merge_time + 1 .. merge_time + PFAIR_MAX_PERIOD
  /\ \A c \in CPU : linked[c] # NULL => linked[c] \in rt /\ linked_on[linked[c]] = c

\* A task executes on one processor at a time, and has its scheduled_on, unless
\* that processor is about to switch.
OneStack ==
  \A c \in CPU : curr[c] # NULL =>
    /\ stack_in_use[curr[c]] = c
    /\ \A d \in CPU \ {c} : curr[d] # curr[c]
    /\ Open(c) => scheduled_on[curr[c]] = c

\* The variables have their types, no BUG_ON() fires, and every task is in one
\* queue and on one stack, although processors that lag behind copy their
\* assignment while the next one is being made.
OnePlace == TypeOK /\ ~panic /\ Queued /\ OneStack

\* The tasks do not need more than the processors, and none leaves.
Feasible ==
  LET ts == setup.started \cup setup.tasks
      H  == ProductSet({Period(t) : t \in ts})
      demand(t) == Quanta(t) * (H \div Period(t))
  IN MapThenSumSet(demand, ts) <= setup.cpus * H /\ setup.leaving = {}

\* PD^2: unless the system is overloaded, every subtask is linked in its window,
\* although tasks block and wake and processors lag behind.  The quantum that
\* has just been announced is the last one for a subtask whose deadline is next.
WindowsMet ==
  Feasible /\ ~Locked /\ cur_tick = merge_time =>
    \A t \in rt :
      /\ (\E c \in CPU : linked[c] = t) => cur_deadline(t, pfair[t]) > cur_tick
      /\ t \in ready => cur_deadline(t, pfair[t]) > cur_tick + 1

\* When all is quiet in a quantum, every processor executes the task that is
\* linked to it if that can run: assignments are not lost between the processor
\* that makes them and the one that carries them out.
Delivered ==
  (\A c \in CPU : Quiet(c)) =>
    \A c \in CPU : linked[c] \in present /\ flags[linked[c]] = "RUNNING"
                    => curr[c] = linked[c]

\* Systems where no task arrives or wakes up, which could race with a tick, and
\* no processor is late by a quantum.
Plain ==
  ~setup.lag /\ setup.blocking \cup setup.synched \cup setup.tasks = {}

\* It holds in such systems: tasks complete and leave, and processors take their
\* ticks and reschedule in any order.
QuantumDelivered == Plain => Delivered

\* "ensure that it is not the scheduled task for ANY CPU": no processor keeps a
\* task that has left real-time mode as its assignment.
NoDangling == \A c \in CPU : local[c] \in rt \cup {NULL}

AllCPU == UNION {0 .. s.cpus - 1 : s \in Setups}

\* Handlers and schedule() run to completion, and spinlocks are fair.
Steps(c) ==
  c \in CPU /\ (Tick(c) \/ pfair_schedule(c) \/ migrate(c) \/ finish_switch(c)
                \/ (\E t \in Task : release_at(t, c)) \/ release_ts_end(c))

FairSpec ==
  /\ Spec
  /\ \A c \in AllCPU : WF_vars(Steps(c))
  /\ SF_vars(\E c \in CPU : migrate(c))

\* Every tick and every schedule() ends: nobody spins for ever on a quantum that
\* nobody announces, or on a stack that is not given up.
HandlersEnd ==
  \A c \in AllCPU : []<>(c \in CPU => Open(c))

-----------------------------------------------------------------------------
(* An inductive invariant                                                  *)

\* struct pfair_param
Params ==
  pfair \in [Task -> [cur : Nat, release : Nat, last_quantum : Nat,
                      last_cpu : CPU, sporadic_release : BOOLEAN]]

\* Processors take turns: each quantum between the announced one and the
\* official clock is in the hands of one of them.
Turns ==
  /\ cur_tick <= merge_time /\ merge_time <= pfair_time /\ pfair_time <= now
  /\ ~Locked => merge_time = cur_tick
  /\ \A c \in CPU :
       /\ cur[c] <= now
       /\ phase[c] \in {"turn", "link"} =>
            /\ cur_tick < quantum[c] /\ quantum[c] <= pfair_time
            /\ \A d \in CPU \ {c} : phase[d] \in {"turn", "link"} => quantum[d] # quantum[c]
       /\ phase[c] = "link" => quantum[c] = cur_tick + 1 /\ merge_time = quantum[c]

Linked(t) == \E c \in CPU : linked[c] = t
Waiting(t) == \E s \in DOMAIN relq : t \in relq[s]

\* t is where the release of its subtask says.
InPlace(t) ==
  LET r == cur_release(t, pfair[t]) IN
  /\ t \in ready => r <= merge_time /\ ~Waiting(t) /\ ~Linked(t)
  /\ \A s \in DOMAIN relq : t \in relq[s] =>
       s = Slot(r) /\ merge_time < r /\ r <= merge_time + PFAIR_MAX_PERIOD /\ ~Linked(t)
  /\ \A c \in CPU : linked[c] = t => linked_on[t] = c /\ r <= merge_time
  /\ pfair[t].sporadic_release <=> t \notin ready /\ ~Waiting(t) /\ ~Linked(t)

\* Real-time tasks are in place, and others are nowhere.
Wheel ==
  \A t \in Task :
    IF t \in rt THEN InPlace(t) ELSE t \notin ready /\ ~Waiting(t) /\ ~Linked(t)

\* c has picked a task and not switched yet.
Switching(c) == phase[c] \in {"wait", "switch"}

\* What is known of the task that c executes and of the one it has picked.
Execution(c) ==
  /\ curr[c] # NULL =>
       /\ curr[c] \in rt /\ task_cpu[curr[c]] = c
       /\ phase[c] # "sched" /\ ~Switching(c) => curr[c] \in running
  /\ ~Switching(c) => next[c] = NULL
  /\ phase[c] = "wait" => next[c] # NULL
  /\ next[c] # NULL =>
       /\ next[c] \in rt \cap running
       /\ phase[c] = "switch" =>
            /\ task_cpu[next[c]] = c
            /\ next[c] # curr[c] => stack_in_use[next[c]] = NO_CPU

\* Stacks follow the context switch, scheduled_on follows the decision.
Stacks ==
  /\ present \subseteq rt \cap running /\ Task \ rt \subseteq running
  /\ \A c \in CPU : Execution(c)
  /\ \A t \in Task, c \in CPU :
       /\ stack_in_use[t] = c <=> curr[c] = t
       /\ scheduled_on[t] = c <=> (IF Switching(c) THEN next[c] = t ELSE curr[c] = t)

\* A synchronous release is for the quantum that follows.
Releasing ==
  /\ \A t \in Task : sync[t] = "wait" => t \in setup.synched /\ t \in rt \ running
  /\ \A c \in CPU : phase[c] = "release" =>
       /\ setup.lag \/ start = now + 1
       /\ \A d \in CPU \ {c} : phase[d] # "release"

\* The inductive invariant.
IInv ==
  /\ TypeOK /\ ~panic
  /\ Params /\ Turns /\ Wheel /\ Stacks /\ Releasing

\* The ticks are not late by a turn of the release wheel.
InTime == now < merge_time + PFAIR_MAX_PERIOD

\* A processor that is out of the tick, or about to store its assignment, has
\* seen its quantum announced; without lag the clock waits for the ticks.
CaughtUp ==
  /\ \A c \in CPU : phase[c] \notin {"adv", "turn", "catch", "link", "copy"}
                     => cur[c] <= cur_tick
  /\ setup.lag \/ now <= merge_time + 1

-----------------------------------------------------------------------------
(* Assignments in plain systems                                            *)

Ticking(c) == phase[c] \in {"adv", "turn", "catch", "link", "copy", "store"}

\* c has taken the tick of this quantum.
Taken(c) == cur[c] = now /\ ~Ticking(c)

Runnable(t) == t \in present /\ flags[t] = "RUNNING"

\* t is what c is to execute, or nothing is and its assignment cannot run.
Serves(c, t) == t = local[c] \/ (t = NULL /\ ~Runnable(local[c]))

\* No task blocks, and no processor interrupts another.
Settled == running = Task /\ present = rt /\ ipi = {}

\* c is not in a system call, its tick is that of this quantum, and its schedule()
\* looks for no wake-up; the flag of its background is set only when that runs.
Calm(c) ==
  /\ phase[c] # "release"
  /\ Ticking(c) => cur[c] = now
  /\ Switching(c) /\ curr[c] # NULL => c \in was_running
  /\ <<"cpu", c>> \in tif => curr[c] = NULL /\ (Open(c) \/ Ticking(c))

\* After its tick, c has the assignment of this quantum, and executes it or is
\* about to.
After(c) ==
  /\ local[c] = linked[c]
  /\ Open(c) /\ Current(c) \notin tif => Serves(c, curr[c])
  /\ Switching(c) => Serves(c, next[c])

\* Before, it executes the assignment of the last one or nothing, and picks
\* nothing else.
Before(c) ==
  /\ curr[c] \in {local[c], NULL}
  /\ Switching(c) => next[c] \in {curr[c], NULL}
  /\ curr[c] = NULL /\ (phase[c] = "sched" \/ <<"cpu", c>> \in tif) => local[c] = NULL

\* Tasks are linked to where they are scheduled, and processors follow.
Follows(c) ==
  /\ Calm(c)
  /\ linked[c] # NULL => scheduled_on[linked[c]] \in {NO_CPU, c}
  /\ phase[c] = "store" => loaded[c] = linked[c]
  /\ IF Taken(c) THEN After(c) ELSE Before(c)

Following == Settled /\ \A c \in CPU : Follows(c)
=============================================================================
