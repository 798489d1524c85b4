-------------------------------- MODULE NPSF --------------------------------
(***************************************************************************)
(* The NPS-F plugin of LITMUS^RT (litmus/sched_npsf.c) under the LITMUS    *)
(* scheduling class (litmus/sched_litmus.c).                               *)
(*                                                                         *)
(* Tasks belong to servers ("notional processors").  A processor serves    *)
(* its reserves in the order of its list, once per time slot.  A server    *)
(* with reserves on several processors is passed on from one to the next:  *)
(* the first is told by a timer, the others by the interrupt that the      *)
(* previous one sends when it is done.  Whoever comes too early serves its *)
(* previous reserve once more.                                             *)
(*                                                                         *)
(* A server has at most one reserve per processor, so <<s, c>> names a     *)
(* reserve, and the processor alone if the server is known.  The model     *)
(* starts when the last server has been added; CPU are the processors that *)
(* share servers.  A critical section under the lock of a server is one    *)
(* step; npsf_schedule() takes up to three of them.  All background work   *)
(* of a processor is one entity, curr[c] = NULL.  Not modelled: the 10ms   *)
(* limit of litmus_schedule(), the removal of servers.                     *)
(***************************************************************************)
EXTENDS Naturals, Sequences, FiniteSetsExt

CONSTANTS
  Task,        \* tasks that may become real-time, named by their pid
  CPU,         \* processors
  NULL,        \* no task, no server
  NO_CPU,      \* no processor
  Setups,      \* system configurations to choose from
  Period,      \* Period[t]: period and relative deadline
  Home,        \* Home[t]: the partition the task is admitted to
  Server,      \* Server[t]: task_npsfid()
  Queued,      \* tasks that wait for a processor when they become real-time
  Enforced,    \* tasks with QUANTUM_ENFORCEMENT
  Completing,  \* tasks that end their jobs with complete_job()
  Suspending,  \* tasks that block and are woken
  Leaving,     \* tasks that leave real-time mode
  Start,       \* time at which the last server is added
  AdmitUntil   \* bound: no task becomes real-time after this time

ASSUME ConstantsAssumption ==
  /\ Task \subseteq Nat /\ NULL \notin Task \cup Nat
  /\ NO_CPU \notin CPU /\ CPU \cap Task = {}
  /\ Period \in [Task -> Nat \ {0}] /\ Home \in [Task -> CPU]
  /\ Server \in [Task -> Nat]
  /\ Enforced \cup Completing \cup Suspending \subseteq Task
  /\ Setups \subseteq
       [servers : Seq([id : Nat, budgets : Seq([cpu : CPU, budget : Nat]) \ {<<>>}]),
        slot : Nat \ {0}, flag : BOOLEAN, latency : BOOLEAN,
        tasks : SUBSET Task, end : Nat]
  /\ Start \in Nat /\ AdmitUntil \in Nat

VARIABLES
  setup,          \* servers: what sys_add_server() was called with, in order;
                  \* slot: npsf_slot_length; flag: what kmalloc() left in
                  \* is_currently_scheduled; latency: does time pass in the
                  \* scheduler and before interrupts?; tasks: those that may
                  \* become real-time; end: bound, the clock stops here
  now,            \* litmus_clock(), with time_origin = 0
  rt,             \* tasks for which is_realtime() holds
  running,        \* tasks for which is_running() holds
  flags,          \* RT_F_RUNNING or RT_F_SLEEP
  job,            \* release and deadline of the current job
  spent,          \* tasks that have exhausted their budget
  ready,          \* ready[s]: ready queue of server s
  relq,           \* relq[s]: release queue of server s
  highest_prio,   \* highest_prio[s]: the task that s should be scheduling
  curr_reserve,   \* curr_reserve[s]: the reserve where s is executing
  wants_ipi,      \* first_cpu_wants_ipi
  cpu_reserve,    \* cpu_reserve[c]: the server of entry->cpu_reserve
  is_currently_scheduled, \* reserves with this flag
  should_expire,  \* should_expire[c]: expiry of the reserve timer
  curr,           \* rq->curr
  task_cpu,       \* runqueue a task belongs to
  stack_in_use,   \* rt_param.stack_in_use
  phase,          \* where a processor is in schedule()
  other,          \* other[c]: the server c switches to, or has switched from
  next,           \* the task it has picked
  was_running,    \* did prev run when the runqueue lock was dropped?
  tif,            \* TIF_NEED_RESCHED: of tasks, and of the background of a CPU
  ipi,            \* processors with a pending reschedule interrupt
  panic           \* has a BUG_ON() fired, or a queue been corrupted?

taskVars   == <<rt, running>>
jobVars    == <<flags, job, spent>>
queueVars  == <<ready, relq, highest_prio>>
ownerVars  == <<curr_reserve, wants_ipi, cpu_reserve, is_currently_scheduled>>
timeVars   == <<now, should_expire>>
switchVars == <<curr, task_cpu, stack_in_use>>
schedVars  == <<phase, other, next, was_running>>
sigVars    == <<tif, ipi>>

vars == <<setup, taskVars, jobVars, queueVars, ownerVars, timeVars, switchVars,
          schedVars, sigVars, panic>>

-----------------------------------------------------------------------------
(* Servers and reserves                                                    *)

\* sys_add_server() accepts a server only if its id is larger than that of
\* every server already on the same processors.
do_add_reserve(servers) ==
  \A i, j \in DOMAIN servers :
    \A k \in DOMAIN servers[i].budgets, l \in DOMAIN servers[j].budgets :
      /\ servers[i].budgets[k].cpu = servers[j].budgets[l].cpu
      /\ i < j \/ (i = j /\ k < l)
      => servers[i].id < servers[j].id

Ids == {setup.servers[i].id : i \in DOMAIN setup.servers}

\* The reserves of server s, in the order in which it visits them.
budgets(s) ==
  setup.servers[CHOOSE i \in DOMAIN setup.servers : setup.servers[i].id = s].budgets

\* The one of them on c.
position(s, c) == CHOOSE i \in DOMAIN budgets(s) : budgets(s)[i].cpu = c

first_reserve(s) == budgets(s)[1].cpu

\* A fixed reserve has itself as next.
next_npsf(s, c) == budgets(s)[(position(s, c) % Len(budgets(s))) + 1].cpu

\* entry->npsf_reserves: the servers with a reserve on c, in the order of their
\* ids, since do_add_reserve() adds at the end.
npsf_reserves(c) == {s \in Ids : \E i \in DOMAIN budgets(s) : budgets(s)[i].cpu = c}

budget(s, c) == budgets(s)[position(s, c)].budget

local_next_reserve(s, c) ==
  LET later == {r \in npsf_reserves(c) : r > s}
  IN IF later = {} THEN Min(npsf_reserves(c)) ELSE Min(later)

slot_begin(time) == (time \div setup.slot) * setup.slot

\* End of the reserve of s on c, relative to the beginning of the slot.
reservation_end(c, s) ==
  LET sum[i \in 0 .. s] == (IF i \in npsf_reserves(c) THEN budget(i, c) ELSE 0)
                           + (IF i = 0 THEN 0 ELSE sum[i - 1])
  IN sum[s]

\* The reserve that is eligible at an offset.
get_reserve_for_offset(c, offset) ==
  Min({s \in npsf_reserves(c) : reservation_end(c, s) > offset})

\* The server that c should be serving.
get_current_reserve(c) == get_reserve_for_offset(c, now - slot_begin(now))

\* The timer skips the beginning of a continuing reserve.
get_next_reserve_switch_time(c) ==
  LET s    == get_current_reserve(c)
      succ == local_next_reserve(s, c)
  IN slot_begin(now) + reservation_end(c, s)
     + (IF first_reserve(succ) # c THEN budget(succ, c) ELSE 0)

\* First expiry of all timers.
kickoff == slot_begin(Start + 2 * setup.slot)

\* What the user must see to: the reserves of a processor fill the slot, no two
\* processors begin the slot with the same server, and the reserves of a server
\* follow each other.
WellFormed ==
  /\ \A c \in CPU : \E s \in npsf_reserves(c) :
       reservation_end(c, s) = setup.slot /\ \A r \in npsf_reserves(c) : r <= s
  /\ \A c, d \in CPU : Min(npsf_reserves(c)) = Min(npsf_reserves(d)) => c = d
  /\ \A s \in Ids : \A i \in 2 .. Len(budgets(s)) :
       LET c == budgets(s)[i - 1].cpu
           d == budgets(s)[i].cpu
       IN reservation_end(c, s) % setup.slot = reservation_end(d, s) - budget(s, d)

-----------------------------------------------------------------------------
(* Jobs and priorities                                                     *)

prepare_for_next_period(t, j) ==
  [release |-> j.deadline, deadline |-> j.deadline + Period[t]]

release_at(t, start) ==
  prepare_for_next_period(t, [release |-> 0, deadline |-> start])

is_released(j) == j.release <= now

is_tardy(j) == j.deadline <= now

\* With the job parameters js.  Only real-time tasks, or none, are compared.
edf_higher_prio(js, a, b) ==
  /\ a # b
  /\ b # NULL => \/ js[a].deadline < js[b].deadline
                 \/ js[a].deadline = js[b].deadline /\ a < b

\* What __take_ready() takes from a queue.
take_ready(js, queue) ==
  IF queue = {} THEN NULL
  ELSE CHOOSE t \in queue : \A u \in queue \ {t} : edf_higher_prio(js, t, u)

edf_preemption_needed(js, queue, t) ==
  \E u \in queue : edf_higher_prio(js, u, t)

is_queued(t) == \E s \in Ids : t \in ready[s] \cup relq[s]

\* BUG_ON(cond), and conditions under which a heap would be corrupted.
BugOn(cond) == panic' = (panic \/ cond)

\* Who owns the TIF_NEED_RESCHED flag that schedule() on c looks at.
Current(c) == IF curr[c] = NULL THEN c ELSE curr[c]

Open(c) == phase[c] = "run"

\* c holds its cpu_res_lock: it is in npsf_schedule().
ResLocked(c) == phase[c] \in {"swap", "back", "notify"}

\* The runqueue lock of c is held: by schedule(), except while it spins on a
\* stack, or by a processor that migrates a task.
RqLocked(c) ==
  \/ phase[c] \in {"sched", "swap", "back", "notify", "resim", "attach", "switch"}
  \/ \E d \in CPU : phase[d] \in {"resim", "attach"} /\ task_cpu[next[d]] = c

\* The processor that executes a handler, whose TIF_NEED_RESCHED flag it sets
\* to preempt itself, and the flags before.
On(e) == [cpu |-> e, current |-> Current(e), tif |-> tif]

\* Mutant: other processors are not interrupted.
preempt_local(need, c, on) ==
  /\ tif' = IF need /\ c = on.cpu THEN on.tif \cup {on.current} ELSE on.tif
  /\ ipi' = ipi

\* preempt() of a reserve on c if `need' holds.
preempt(need, c, on) ==
  /\ tif' = IF need /\ c = on.cpu THEN on.tif \cup {on.current} ELSE on.tif
  /\ ipi' = IF need /\ c # on.cpu THEN ipi \cup {c} ELSE ipi

\* npsf_reschedule_server() with ready queue `queue' and highest_prio hp of
\* server s; the replaced task is released and returns to the ready queue.
reschedule_server(s, js, queue, hp, on) ==
  LET need  == edf_preemption_needed(js, queue, hp)
      first == take_ready(js, queue)
  IN
  /\ ready' = [ready EXCEPT ![s] =
                 IF need THEN (queue \cup {hp}) \ {first, NULL} ELSE queue]
  /\ highest_prio' = [highest_prio EXCEPT ![s] = IF need THEN first ELSE hp]
  /\ preempt(need /\ <<s, curr_reserve[s]>> \in is_currently_scheduled,
             curr_reserve[s], on)

\* Flags after tasks ts, and the task that reschedule_server() replaces, have
\* been queued.
requeued(ts, js, queue, hp) ==
  [t \in Task |-> IF \/ t \in ts
                     \/ t = hp /\ edf_preemption_needed(js, queue, hp)
                  THEN "RUNNING" ELSE flags[t]]

-----------------------------------------------------------------------------
(* Handlers                                                                *)

\* The task is on its partition, which serves its server.
npsf_admit_task(t) == task_cpu[t] = Home[t] /\ Server[t] \in npsf_reserves(Home[t])

\* sched_setscheduler(t, SCHED_LITMUS), carried out on e; npsf_task_new().
\* The task enters the ready queue even if it is executing.
task_new(t, e) ==
  LET c     == Home[t]
      s     == Server[t]
      js    == [job EXCEPT ![t] = release_at(t, now)]
      queue == ready[s] \cup {t}
  IN
  /\ t \in setup.tasks \ rt /\ now <= AdmitUntil /\ npsf_admit_task(t)
  /\ Open(e) /\ ~RqLocked(c) /\ ~ResLocked(c)
  /\ rt' = rt \cup {t}
  /\ job' = js
  /\ flags' = requeued({t}, js, queue, highest_prio[s])
  /\ BugOn(is_queued(t))
  /\ \/ /\ t \notin Queued /\ e = c /\ curr[c] = NULL
        /\ curr' = [curr EXCEPT ![c] = t]
        /\ stack_in_use' = [stack_in_use EXCEPT ![t] = c]
        /\ reschedule_server(s, js, queue, highest_prio[s],
                             [cpu |-> c, current |-> t, tif |-> (tif \ {c}) \cup {t}])
     \/ /\ t \in Queued
        /\ reschedule_server(s, js, queue, highest_prio[s],
                             [On(e) EXCEPT !.tif = @ \cup {t}])
        /\ UNCHANGED <<curr, stack_in_use>>
  /\ UNCHANGED <<setup, running, spent, relq, ownerVars, timeVars, task_cpu,
                 schedVars>>

\* Mutant: highest_prio is not looked at.
remove_from_server_queue(t, on) ==
  /\ ready' = [ready EXCEPT ![Server[t]] = @ \ {t}]
  /\ tif' = on.tif
  /\ UNCHANGED <<highest_prio, ipi>>
  /\ BugOn(t \in relq[Server[t]])

\* remove_from_server(): remove() deletes from the ready queue whatever heap
\* the task is in.
remove_from_server(t, on) ==
  LET s == Server[t] IN
  /\ IF highest_prio[s] = t
     THEN reschedule_server(s, job, ready[s], NULL, on)
     ELSE /\ ready' = [ready EXCEPT ![s] = @ \ {t}]
          /\ tif' = on.tif
          /\ UNCHANGED <<highest_prio, ipi>>
  /\ BugOn(highest_prio[s] # t /\ t \in relq[s])

\* npsf_task_exit() of the task itself, or of a dead task by whoever reaps it.
task_exit(t, e) ==
  LET self == curr[e] = t IN
  /\ t \in rt \cap Leaving /\ Open(e)
  /\ self \/ (t \notin running /\ stack_in_use[t] = NO_CPU)
  /\ remove_from_server(t, IF self
                           THEN [cpu |-> e, current |-> e,
                                 tif |-> (tif \ {t}) \cup {e}]
                           ELSE On(e))
  /\ rt' = rt \ {t}
  /\ running' = running \cup {t}
  /\ stack_in_use' = [stack_in_use EXCEPT ![t] = NO_CPU]
  /\ curr' = IF self THEN [curr EXCEPT ![e] = NULL] ELSE curr
  /\ flags' = [flags EXCEPT ![t] = "RUNNING"]
  /\ job' = [job EXCEPT ![t] = [release |-> 0, deadline |-> 0]]
  /\ spent' = spent \ {t}
  /\ UNCHANGED <<setup, relq, ownerVars, timeVars, task_cpu, schedVars>>

\* npsf_task_wake_up() on e.
task_wake_up(t, e) ==
  LET s     == Server[t]
      js    == IF is_tardy(job[t]) THEN [job EXCEPT ![t] = release_at(t, now)]
               ELSE job
      queue == IF is_released(js[t]) THEN ready[s] \cup {t} ELSE ready[s]
  IN
  /\ BugOn(is_queued(t))
  /\ job' = js
  /\ spent' = IF is_tardy(job[t]) THEN spent \ {t} ELSE spent
  /\ IF highest_prio[s] = t THEN UNCHANGED <<queueVars, flags, sigVars>>
     ELSE /\ reschedule_server(s, js, queue, highest_prio[s], On(e))
          /\ relq' = IF is_released(js[t]) THEN relq
                     ELSE [relq EXCEPT ![s] = @ \cup {t}]
          /\ flags' = requeued({t}, js, queue, highest_prio[s])

\* try_to_wake_up() of a blocked task, on e.
wake(t, e) ==
  /\ t \in rt \ running
  /\ Open(e) /\ ~RqLocked(task_cpu[t])
  /\ running' = running \cup {t}
  /\ task_wake_up(t, e)
  /\ UNCHANGED <<setup, rt, ownerVars, timeVars, switchVars, schedVars>>

\* on_release_timer() and npsf_release_jobs() for the jobs of s released at r.
release_jobs(c, s, r) ==
  LET heap  == {t \in relq[s] : job[t].release = r}
      queue == ready[s] \cup heap
  IN
  /\ Open(c) /\ r <= now /\ heap # {}
  /\ relq' = [relq EXCEPT ![s] = @ \ heap]
  /\ reschedule_server(s, job, queue, highest_prio[s], On(c))
  /\ flags' = requeued({}, job, queue, highest_prio[s])
  /\ UNCHANGED <<setup, taskVars, job, spent, ownerVars, timeVars, switchVars,
                 schedVars, panic>>

reserve_switch_tick(c) ==
  /\ Open(c) /\ should_expire[c] <= now
  /\ should_expire' = [should_expire EXCEPT ![c] = get_next_reserve_switch_time(c)]
  /\ tif' = tif \cup {Current(c)}
  /\ UNCHANGED <<setup, taskVars, jobVars, queueVars, ownerVars, now,
                 switchVars, schedVars, ipi, panic>>

\* The budget of the current task has run out; npsf_scheduler_tick().
tick(c) ==
  LET t == curr[c] IN
  /\ Open(c) /\ t \in Enforced \ spent
  /\ spent' = spent \cup {t}
  /\ tif' = tif \cup {t}
  /\ UNCHANGED <<setup, taskVars, flags, job, queueVars, ownerVars, timeVars,
                 switchVars, schedVars, ipi, panic>>

\* smp_reschedule_interrupt()
reschedule_interrupt(c) ==
  /\ Open(c) /\ c \in ipi
  /\ ipi' = ipi \ {c}
  /\ tif' = tif \cup {Current(c)}
  /\ UNCHANGED <<setup, taskVars, jobVars, queueVars, ownerVars, timeVars,
                 switchVars, schedVars, panic>>

\* An interrupt, or a processor in the scheduler, that time must wait for
\* unless there is latency.
Urgent(c) ==
  \/ ~Open(c)
  \/ c \in ipi \/ Current(c) \in tif
  \/ should_expire[c] <= now

clock ==
  /\ now < setup.end
  /\ setup.latency \/ \A c \in CPU : ~Urgent(c)
  /\ now' = now + 1
  /\ UNCHANGED <<setup, taskVars, jobVars, queueVars, ownerVars, should_expire,
                 switchVars, schedVars, sigVars, panic>>

-----------------------------------------------------------------------------
(* schedule()                                                              *)

\* schedule() takes the runqueue lock and clears TIF_NEED_RESCHED.
enter(c) == phase' = [phase EXCEPT ![c] = "sched"]

\* The background may call it without need.
schedule(c) ==
  /\ Open(c)
  /\ Current(c) \in tif \/ curr[c] = NULL
  /\ enter(c)
  /\ tif' = tif \ {Current(c)}
  /\ UNCHANGED <<setup, taskVars, jobVars, queueVars, ownerVars, timeVars,
                 switchVars, other, next, was_running, ipi, panic>>

complete_job(c) ==
  /\ Open(c) /\ curr[c] \in Completing \ tif
  /\ enter(c)
  /\ flags' = [flags EXCEPT ![curr[c]] = "SLEEP"]
  /\ UNCHANGED <<setup, taskVars, job, spent, queueVars, ownerVars, timeVars,
                 switchVars, other, next, was_running, sigVars, panic>>

\* The task on c blocks; npsf_task_block().
block(c) ==
  /\ Open(c) /\ curr[c] \in Suspending \ tif
  /\ enter(c)
  /\ running' = running \ {curr[c]}
  /\ remove_from_server(curr[c], On(c))
  /\ UNCHANGED <<setup, rt, jobVars, relq, ownerVars, timeVars, switchVars,
                 other, next, was_running>>

\* npsf_schedule() returns n; litmus_schedule() tests for a task of another
\* runqueue.  fl are the flags so far.
pick(c, n, fl) ==
  /\ next' = [next EXCEPT ![c] = n]
  /\ flags' = IF n = NULL THEN fl ELSE [fl EXCEPT ![n] = "RUNNING"]
  /\ was_running' = [was_running EXCEPT ![c] = curr[c] \in running]
  /\ phase' = [phase EXCEPT ![c] =
                 IF n # NULL /\ task_cpu[n] # c THEN "wait" ELSE "switch"]

\* Under the lock of the server that c serves: npsf_schedule_server() deals
\* with a job that is complete, and if the reserve is still eligible its
\* highest_prio is next.
schedule_server(c) ==
  LET s         == cpu_reserve[c]
      t         == curr[c]
      served    == t \in rt /\ Server[t] = s
      blocks    == t \notin running
      completes == served /\ ~blocks /\ (t \in spent \/ flags[t] = "SLEEP")
      js        == IF completes
                   THEN [job EXCEPT ![t] = prepare_for_next_period(t, @)] ELSE job
      took      == completes /\ highest_prio[s] = t
      queue     == IF ~completes THEN ready[s]
                   ELSE IF is_released(js[t]) THEN ready[s] \cup {t}
                   ELSE ready[s] \ {t}
      hp        == IF took THEN take_ready(js, queue) ELSE highest_prio[s]
      fl        == IF completes THEN [flags EXCEPT ![t] = "RUNNING"] ELSE flags
  IN
  /\ phase[c] = "sched"
  /\ job' = js
  /\ spent' = IF completes THEN spent \ {t} ELSE spent
  /\ ready' = [ready EXCEPT ![s] = IF took THEN queue \ {hp} ELSE queue]
  /\ relq' = IF completes /\ ~is_released(js[t])
             THEN [relq EXCEPT ![s] = @ \cup {t}] ELSE relq
  /\ highest_prio' = [highest_prio EXCEPT ![s] = hp]
  /\ BugOn(\/ completes /\ ~took /\ t \notin ready[s]
           \/ took /\ is_queued(t)
           \/ served /\ blocks /\ t = hp)
  /\ \/ /\ get_current_reserve(c) = s
        /\ pick(c, hp, fl)
        /\ UNCHANGED <<other, is_currently_scheduled>>
     \/ /\ get_current_reserve(c) # s
        /\ other' = [other EXCEPT ![c] = get_current_reserve(c)]
        /\ is_currently_scheduled' = is_currently_scheduled \ {<<s, c>>}
        /\ phase' = [phase EXCEPT ![c] = "swap"]
        /\ flags' = fl
        /\ UNCHANGED <<next, was_running>>
  /\ UNCHANGED <<setup, taskVars, curr_reserve, wants_ipi, cpu_reserve,
                 timeVars, switchVars, sigVars>>

\* Mutant: without the test for the owner.
switch_reserve_any(c) ==
  LET n == other[c] IN
  /\ phase[c] = "swap"
  /\ is_currently_scheduled' = is_currently_scheduled \cup {<<n, c>>}
  /\ cpu_reserve' = [cpu_reserve EXCEPT ![c] = n]
  /\ other' = [other EXCEPT ![c] = cpu_reserve[c]]
  /\ next' = [next EXCEPT ![c] = highest_prio[n]]
  /\ phase' = [phase EXCEPT ![c] = "notify"]
  /\ UNCHANGED <<setup, taskVars, jobVars, queueVars, curr_reserve, wants_ipi,
                 timeVars, switchVars, was_running, sigVars, panic>>

\* Under the lock of the next server, which c owns.
switch_reserve(c) ==
  LET n == other[c] IN
  /\ phase[c] = "swap" /\ curr_reserve[n] = c
  /\ is_currently_scheduled' = is_currently_scheduled \cup {<<n, c>>}
  /\ cpu_reserve' = [cpu_reserve EXCEPT ![c] = n]
  /\ other' = [other EXCEPT ![c] = cpu_reserve[c]]
  /\ next' = [next EXCEPT ![c] = highest_prio[n]]
  /\ phase' = [phase EXCEPT ![c] = "notify"]
  /\ UNCHANGED <<setup, taskVars, jobVars, queueVars, curr_reserve, wants_ipi,
                 timeVars, switchVars, was_running, sigVars, panic>>

\* Mutant: the first processor does not ask for an interrupt.
raced_silent(c) ==
  LET n == other[c] IN
  /\ phase[c] = "swap" /\ curr_reserve[n] # c
  /\ wants_ipi' = wants_ipi
  /\ is_currently_scheduled' = is_currently_scheduled \ {<<n, c>>}
  /\ other' = [other EXCEPT ![c] = NULL]
  /\ phase' = [phase EXCEPT ![c] = "back"]
  /\ UNCHANGED <<setup, taskVars, jobVars, queueVars, curr_reserve, cpu_reserve,
                 timeVars, switchVars, next, was_running, sigVars, panic>>

\* Under the lock of the next server, which another processor has not passed
\* on yet: the flag that was set in the same critical section is cleared again.
raced(c) ==
  LET n == other[c] IN
  /\ phase[c] = "swap" /\ curr_reserve[n] # c
  /\ wants_ipi' = IF first_reserve(n) = c THEN wants_ipi \cup {n} ELSE wants_ipi
  /\ is_currently_scheduled' = is_currently_scheduled \ {<<n, c>>}
  /\ other' = [other EXCEPT ![c] = NULL]
  /\ phase' = [phase EXCEPT ![c] = "back"]
  /\ UNCHANGED <<setup, taskVars, jobVars, queueVars, curr_reserve, cpu_reserve,
                 timeVars, switchVars, next, was_running, sigVars, panic>>

\* Then the previous reserve is kept, under the lock of its server.
keep_reserve(c) ==
  LET s == cpu_reserve[c] IN
  /\ phase[c] = "back"
  /\ is_currently_scheduled' = is_currently_scheduled \cup {<<s, c>>}
  /\ pick(c, highest_prio[s], flags)
  /\ UNCHANGED <<setup, taskVars, job, spent, queueVars, curr_reserve,
                 wants_ipi, cpu_reserve, timeVars, switchVars, other, sigVars,
                 panic>>

\* npsf_notify_next_cpu(): the previous server is passed on, under its lock.
notify_next_cpu(c) ==
  LET p    == other[c]
      succ == next_npsf(p, c)
      tell == succ # c /\ (first_reserve(p) # succ \/ p \in wants_ipi)
  IN
  /\ phase[c] = "notify"
  /\ curr_reserve' = [curr_reserve EXCEPT ![p] = IF succ # c THEN succ ELSE @]
  /\ wants_ipi' = IF tell THEN wants_ipi \ {p} ELSE wants_ipi
  /\ preempt(tell, succ, On(c))
  /\ other' = [other EXCEPT ![c] = NULL]
  /\ pick(c, next[c], flags)
  /\ UNCHANGED <<setup, taskVars, job, spent, queueVars, cpu_reserve,
                 is_currently_scheduled, timeVars, switchVars, panic>>

-----------------------------------------------------------------------------
(* litmus_schedule(): migration of the picked task                         *)

\* prev was woken while the runqueue lock was not held.
PrevUnblocked(c) == curr[c] \in rt \cap running /\ ~was_running[c]

\* Mutant: only the runqueue locks are waited for.
StackFree_locks(c) ==
  /\ phase[c] = "wait"
  /\ ~RqLocked(task_cpu[next[c]])

\* The stack of next is free and both runqueue locks are taken.
StackFree(c) ==
  /\ phase[c] = "wait"
  /\ stack_in_use[next[c]] = NO_CPU
  /\ ~RqLocked(task_cpu[next[c]])

\* litmus->task_block(prev)
resim_block(c) ==
  /\ StackFree(c) /\ PrevUnblocked(c)
  /\ remove_from_server(curr[c], On(c))
  /\ phase' = [phase EXCEPT ![c] = "resim"]
  /\ UNCHANGED <<setup, taskVars, jobVars, relq, ownerVars, timeVars,
                 switchVars, other, next, was_running>>

\* litmus->task_wake_up(prev)
resim_wake_up(c) ==
  /\ phase[c] = "resim"
  /\ task_wake_up(curr[c], c)
  /\ phase' = [phase EXCEPT ![c] = "attach"]
  /\ UNCHANGED <<setup, taskVars, ownerVars, timeVars, switchVars, other, next,
                 was_running>>

\* set_task_cpu(next), and the task is dropped if it cannot run any more.
attach(c) ==
  /\ \/ StackFree(c) /\ ~PrevUnblocked(c)
     \/ phase[c] = "attach"
  /\ task_cpu' = [task_cpu EXCEPT ![next[c]] = c]
  /\ next' = [next EXCEPT ![c] = IF @ \in rt \cap running THEN @ ELSE NULL]
  /\ phase' = [phase EXCEPT ![c] = "switch"]
  /\ UNCHANGED <<setup, taskVars, jobVars, queueVars, ownerVars, timeVars, curr,
                 stack_in_use, other, was_running, sigVars, panic>>

\* stack_in_use after the switch: marked for next, then free for prev.
switch_stacks(c) ==
  [t \in Task |-> IF t = next[c] THEN c
                  ELSE IF t = curr[c] THEN NO_CPU ELSE stack_in_use[t]]

\* The end of litmus_schedule() and the context switch.
finish_switch(c) ==
  LET n == next[c] IN
  /\ phase[c] = "switch"
  /\ stack_in_use' = switch_stacks(c)
  /\ curr' = [curr EXCEPT ![c] = n]
  /\ phase' = [phase EXCEPT ![c] = "run"]
  /\ next' = [next EXCEPT ![c] = NULL]
  /\ was_running' = [was_running EXCEPT ![c] = FALSE]
  /\ UNCHANGED <<setup, taskVars, jobVars, queueVars, ownerVars, timeVars,
                 task_cpu, other, sigVars, panic>>

-----------------------------------------------------------------------------
\* The last call of sys_add_server() makes the first reserve of each processor
\* its current one, and of its server, and starts the timers.
Init ==
  /\ setup \in Setups
  /\ do_add_reserve(setup.servers) /\ WellFormed
  /\ now = Start
  /\ rt = {} /\ running = Task
  /\ flags = [t \in Task |-> "RUNNING"]
  /\ job = [t \in Task |-> [release |-> 0, deadline |-> 0]]
  /\ spent = {}
  /\ ready = [s \in Ids |-> {}] /\ relq = [s \in Ids |-> {}]
  /\ highest_prio = [s \in Ids |-> NULL]
  /\ cpu_reserve = [c \in CPU |-> Min(npsf_reserves(c))]
  /\ curr_reserve =
       [s \in Ids |-> IF \E c \in CPU : cpu_reserve[c] = s
                      THEN CHOOSE c \in CPU : cpu_reserve[c] = s
                      ELSE first_reserve(s)]
  /\ wants_ipi = {}
  /\ is_currently_scheduled =
       {r \in Ids \X CPU : setup.flag /\ r[1] \in npsf_reserves(r[2])}
  /\ should_expire = [c \in CPU |-> kickoff]
  /\ curr = [c \in CPU |-> NULL]
  /\ task_cpu = Home
  /\ stack_in_use = [t \in Task |-> NO_CPU]
  /\ phase = [c \in CPU |-> "run"]
  /\ other = [c \in CPU |-> NULL]
  /\ next = [c \in CPU |-> NULL]
  /\ was_running = [c \in CPU |-> FALSE]
  /\ tif = {} /\ ipi = {}
  /\ panic = FALSE

Handler ==
  \/ \E t \in Task, e \in CPU :
       \/ task_new(t, e)
       \/ task_exit(t, e)
       \/ wake(t, e)
  \/ \E c \in CPU, s \in Ids, r \in 0 .. now : release_jobs(c, s, r)
  \/ \E c \in CPU :
       \/ reserve_switch_tick(c)
       \/ tick(c)
       \/ reschedule_interrupt(c)

Schedule ==
  \E c \in CPU :
     \/ schedule(c)
     \/ complete_job(c)
     \/ block(c)
     \/ schedule_server(c)
     \/ switch_reserve(c)
     \/ raced(c)
     \/ keep_reserve(c)
     \/ notify_next_cpu(c)
     \/ resim_block(c)
     \/ resim_wake_up(c)
     \/ attach(c)
     \/ finish_switch(c)

\* Nothing follows a BUG().
Next ==
  /\ ~panic
  /\ \/ Handler
     \/ Schedule
     \/ clock

Spec == Init /\ [][Next]_vars

-----------------------------------------------------------------------------
(* Properties                                                              *)

\* Types of the variables.
TypeOK ==
  /\ setup \in Setups
  /\ now \in Nat
  /\ rt \subseteq Task /\ running \subseteq Task /\ spent \subseteq Task
  /\ flags \in [Task -> {"RUNNING", "SLEEP"}]
  /\ job \in [Task -> [release : Nat, deadline : Nat]]
  /\ ready \in [Ids -> SUBSET Task] /\ relq \in [Ids -> SUBSET Task]
  /\ highest_prio \in [Ids -> Task \cup {NULL}]
  /\ curr_reserve \in [Ids -> CPU] /\ wants_ipi \subseteq Ids
  /\ cpu_reserve \in [CPU -> Ids]
  /\ is_currently_scheduled \subseteq Ids \X CPU
  /\ should_expire \in [CPU -> Nat]
  /\ curr \in [CPU -> Task \cup {NULL}]
  /\ task_cpu \in [Task -> CPU]
  /\ stack_in_use \in [Task -> CPU \cup {NO_CPU}]
  /\ phase \in [CPU -> {"run", "sched", "swap", "back", "notify", "wait",
                        "resim", "attach", "switch"}]
  /\ other \in [CPU -> Ids \cup {NULL}]
  /\ next \in [CPU -> Task \cup {NULL}]
  /\ was_running \in [CPU -> BOOLEAN]
  /\ tif \subseteq Task \cup CPU /\ ipi \subseteq CPU
  /\ panic \in BOOLEAN

\* No BUG_ON() of the plugin fires, and no task is deleted from a heap it is
\* not in.
NoPanic == ~panic

\* What a processor serves it owns, whoever raced with whom: no server is
\* served on two processors at the same time.
ServesOwned == \A c \in CPU : curr_reserve[cpu_reserve[c]] = c

\* Tasks that the plugin knows to be runnable: not one between the simulated
\* block and wake-up of litmus_schedule().
Runnable == (rt \cap running) \ {curr[c] : c \in {d \in CPU : phase[d] = "resim"}}

\* The variables have their types;
\* "srv->highest_prio is always the highest-priority job in the server, and it
\* is always runnable", whichever processor last changed the server, and the
\* server is idle only if nothing is ready; a runnable task is queued in its
\* server, or its highest_prio, and nowhere else.
HighestPrio ==
  /\ TypeOK
  /\ \A s \in Ids :
       LET hp == highest_prio[s] IN
       /\ hp # NULL => hp \in Runnable
       /\ ~edf_preemption_needed(job, ready[s], hp)
  /\ \A t \in rt, s \in Ids :
       (IF t \in ready[s] THEN 1 ELSE 0) + (IF t \in relq[s] THEN 1 ELSE 0)
         + (IF highest_prio[s] = t THEN 1 ELSE 0)
       = IF t \in Runnable /\ Server[t] = s THEN 1 ELSE 0

\* c is inside schedule() or has been told to call it.
WillSchedule(c) == phase[c] # "run" \/ Current(c) \in tif \/ c \in ipi

\* c does not know what it serves: nobody has set the flag of its reserve.
Unaware(c) == ~setup.flag /\ <<cpu_reserve[c], c>> \notin is_currently_scheduled

\* Every server knows its task of highest priority, and a processor executes that
\* of its server or is about to call schedule(): no change of highest_prio is
\* missed by the processor that serves, while the server moves around.  Exempt is a processor that still
\* serves its initial reserve if the memory of the flag happened to be zero.
ServesHighest ==
  /\ HighestPrio
  /\ \A c \in CPU :
       curr[c] = highest_prio[cpu_reserve[c]] \/ WillSchedule(c) \/ Unaware(c)

\* The processor whose reserve of s is eligible, or becomes eligible next.
Due(s) ==
  LET offset(c) == (setup.slot + reservation_end(c, s) - (now % setup.slot) - 1) % setup.slot
      hosts     == {c \in CPU : s \in npsf_reserves(c)}
  IN CHOOSE c \in hosts : \A d \in hosts : offset(c) <= offset(d)

\* Time does not pass while there is anything to be done.
Quiet == ~setup.latency /\ \A c \in CPU : ~Urgent(c)

\* All processors serve the reserves that are eligible.
OnTime == \A c \in CPU : cpu_reserve[c] = get_current_reserve(c)

\* The timers run, and the other servers are where they are due next.
Settled == now >= kickoff /\ Quiet /\ OnTime /\ \A s \in Ids : curr_reserve[s] = Due(s)

\* No hand-over is missed, although no timer expires at the beginning of a
\* continuing reserve and whoever comes too early is only told if it asked: once
\* the timers run, all processors serve what is eligible and each server is where
\* it is due, the eligible reserve is served at every time, unless there is
\* latency.  Before, a server may be passed on too early (NPSF_stuck.cfg).
StaysOnTime == [](Settled => [](Quiet => OnTime))

\* All processors serve the eligible reserves a slot after the timers were
\* started, "because we will receive an IPI from the previous processor instead"
\* of a timer (litmus/sched_npsf.c:315-318).
Eligible == now >= kickoff + setup.slot /\ Quiet => OnTime

\* c spins until d has left the stack of the task that c has picked.
SpinsOn(c, d) == phase[c] = "wait" /\ stack_in_use[next[c]] = d

\* No task executes on two processors, although it is picked where its server is
\* served now while it may still execute where it was served before.  Who waits for
\* a stack waits for the processor that executes the task, which is about to call
\* schedule() or is in it, maybe waiting itself.
OneStack ==
  /\ \A c, d \in CPU : c # d /\ curr[c] # NULL => curr[c] # curr[d]
  /\ \A c, d \in CPU : SpinsOn(c, d) =>
       curr[d] = next[c] /\ (WillSchedule(d) \/ Unaware(d))

\* "This could deadlock in the case of cross or circular migrations.  It's the job
\* of the plugin to make sure that doesn't happen" (litmus/sched_litmus.c:68-71).
\* NPS-F does not make sure of it (NPSF_cross.cfg).
NoCrossMigration == \A c, d \in CPU : SpinsOn(c, d) => ~SpinsOn(d, c)

-----------------------------------------------------------------------------
(* The inductive invariant                                                 *)

\* A processor has reserves for what it serves, for what it is about to serve
\* and for what it has served, and owns the latter until it has passed it on.
Hosted ==
  /\ WellFormed
  /\ \A c \in CPU : cpu_reserve[c] \in npsf_reserves(c)
  /\ \A c \in CPU : phase[c] \in {"swap", "notify"} =>
       other[c] \in npsf_reserves(c) /\ other[c] # cpu_reserve[c]
  /\ \A c \in CPU : phase[c] = "notify" => curr_reserve[other[c]] = c
  /\ ServesOwned

\* Each runnable task is in one place of its server; only real-time tasks block.
Located ==
  /\ \A t \in rt : Server[t] \in Ids
  /\ Task \ rt \subseteq running
  /\ \A t \in Task, s \in Ids :
       /\ t \in ready[s] \/ t \in relq[s] \/ highest_prio[s] = t =>
            t \in Runnable /\ Server[t] = s
       /\ ~(t \in ready[s] /\ t \in relq[s])
       /\ highest_prio[s] = t => t \notin ready[s] /\ t \notin relq[s]
  /\ \A t \in Runnable :
       t \in ready[Server[t]] \/ t \in relq[Server[t]] \/ highest_prio[Server[t]] = t

\* highest_prio is the first, and only tasks in release queues wait for a release.
Ordered ==
  /\ \A s \in Ids : ~edf_preemption_needed(job, ready[s], highest_prio[s])
  /\ \A t \in rt : t \in relq[Server[t]] \/ job[t].release <= now

\* A task executes on one processor, in whose runqueue it is; a job that has been
\* completed is about to be switched out.
Executing ==
  /\ \A c \in CPU : curr[c] # NULL => curr[c] \in rt /\ stack_in_use[curr[c]] = c
  /\ \A t \in Task : stack_in_use[t] # NO_CPU => task_cpu[t] = stack_in_use[t]
  /\ \A c \in CPU : curr[c] # NULL /\ curr[c] \in relq[Server[curr[c]]] =>
       \/ phase[c] \in {"swap", "back", "notify"}
       \/ phase[c] \in {"wait", "switch"} /\ was_running[c]
  /\ \A c \in CPU : phase[c] = "resim" => curr[c] \in rt \cap running

Chosen(c) == phase[c] \in {"notify", "wait", "resim", "attach", "switch"}
Migrating(c) == phase[c] \in {"wait", "resim", "attach"}

\* The task that c has picked belongs to the server of c.  Unless it has to be
\* migrated it is still runnable, and once its stack was free it remains so.
PickedAt(c) ==
  LET n == next[c] IN
  /\ Migrating(c) => n # NULL
  /\ Chosen(c) /\ n # NULL =>
       /\ Server[n] = cpu_reserve[c] /\ n \notin relq[cpu_reserve[c]]
       /\ Migrating(c) => task_cpu[n] # c
       /\ phase[c] = "switch" => task_cpu[n] = c
       /\ task_cpu[n] = c => n \in rt \cap running
       /\ phase[c] \in {"resim", "attach"} => stack_in_use[n] = NO_CPU

Picked == \A c \in CPU : PickedAt(c)

\* What c has picked is still the right choice, or c will be interrupted; if the
\* picked task is gone without a successor, c finds out by itself.
FollowsAt(c) ==
  LET n  == next[c]
      hp == highest_prio[cpu_reserve[c]]
  IN
  /\ phase[c] \notin {"swap", "back"} /\ setup.flag =>
       <<cpu_reserve[c], c>> \in is_currently_scheduled
  /\ phase[c] = "run" => curr[c] = hp \/ WillSchedule(c) \/ Unaware(c)
  /\ Chosen(c) =>
       c \in ipi \/ Unaware(c) \/ hp = n \/ (hp = NULL /\ phase[c] # "switch")
  /\ phase[c] = "resim" /\ Server[curr[c]] = cpu_reserve[c] =>
       \/ c \in ipi \/ Unaware(c)
       \/ hp = n /\ ~edf_higher_prio(job, curr[c], n)

Follows == \A c \in CPU : FollowsAt(c)

IInv ==
  /\ TypeOK /\ ~panic
  /\ Hosted /\ Located /\ Ordered /\ Executing /\ Picked /\ Follows

\* A stack is in use only where its task executes.
Occupied == \A t \in Task : stack_in_use[t] # NO_CPU => curr[stack_in_use[t]] = t
=============================================================================
