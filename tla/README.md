# LITMUS^RT: TLA+ models, model checking and proofs

The repository is LITMUS^RT, a real-time extension of Linux 2.6.34, with the
semi-partitioned schedulers EDF-WM, C=D, HIME, EDF-fm and NPS-F added to its
global, clustered and partitioned ones, together with its user library
(`liblitmus`) and its tracing tools (`ft_tools`). The code of its own is in
`src/litmus2010/litmus/`, `src/litmus2010/include/litmus/`, a few hooks in the
kernel (`kernel/sched.c`, `kernel/hrtimer.c`, `arch/x86/kernel/`), and the two
user-space directories. Everything else under `src/litmus2010/` is Linux.

Paths below are relative to `src/litmus2010/` unless they start with
`liblitmus` or `ft_tools`. Run a model with
`tlc -config X.cfg M` and check proofs with `tlapm M.tla`, both in this
directory. `PROJECT.json` lists the components, runs, mutants, hazards,
theorems, and the source lines that each definition models.

## 1. Inventory

| Component | State | Operations | Correct when |
|---|---|---|---|
| **GSN-EDF** `litmus/sched_gsn_edf.c` | per processor `linked`, `scheduled`; per task `linked_on`, `scheduled_on`; one ready and one release queue; `gsnedf_lock` | `link_task_to_cpu`, `unlink`, `preempt`, job arrival, release, tick, schedule, finish_switch, task_new, wake_up, block, exit | links are consistent; a task is in one place; the jobs of highest priority are linked; each processor ends up executing what is linked to it |
| **Scheduling class** `litmus/sched_litmus.c`, hooks in `kernel/sched.c` | runqueue locks, `stack_in_use`, TIF_NEED_RESCHED, IPIs | `litmus_schedule` (migrates a task between runqueues while it drops its own lock), enqueue, dequeue, yield, tick, time accounting | no task executes twice or on a stack in use; no task is lost; no circular wait |
| **EDF-WM, C=D, HIME** `litmus/sched_{edf_wm,cd,hime}.c` | one domain per processor; per task the current slice and cached job parameters | slice advance, fast forward after sleeping, migration by `requeue_remote` without a common lock, the plugin callbacks | a task is in the domain of its slice and nowhere else; every slice gets its budget and no more; no assertion fires |
| **Budget enforcement** `litmus/budget.c` | one timer per processor | arm, cancel, expire | the timer of the executing processor expires when the budget does |
| **Synchronous release** `litmus/sync.c` | tasks waiting on one completion | wait, release | all waiting tasks start with one release time |
| **Real-time domains** `litmus/rt_domain.c`, `kernel/hrtimer.c` (`hrtimer_start_on`, `hrtimer_pull`) | ready heap, slots of release heaps with timers, `to_pull` lists | add_ready, add_release(_on), timer callback, remote arming | each job is released once, not early, and eventually |
| **Feather-Trace buffer** `include/litmus/feather_buffer.h`, `litmus/trace.c` | slots, `free_count`, two wrapping indices | start_write, finish_write, read | a bounded queue without locks; events are delivered once or counted as failed |
| **Feather-Trace devices** `litmus/ftdev.c`, `arch/x86/kernel/ft_event.c`, `ft_tools/src/ftcat.c` | readers, buffer, enabled events per minor device; the event table | open, ioctl, read, release, enable, disable, fire | no event fires without a buffer; the table agrees with what is enabled; everybody can be stopped |
| **Non-preemptive sections** `liblitmus/src/kernel_iface.c`, `litmus/sched_plugin.c` | np flag and delayed-preemption flag in a shared page | enter_np, exit_np, preempt_if_preemptable | a delayed preemption is not forgotten |
| LITMUS core `litmus/litmus.c` | active plugin, number of real-time tasks | admission, exit, fork, plugin switch, system calls | no real-time task exists while the plugin is exchanged |
| **PSN-EDF** `litmus/sched_psn_edf.c` | one domain and `scheduled` per processor; `hp.cpu_task`, `inh_task`, kernel np counter | plugin callbacks, priority inheritance | a task is in one place; the owner of a semaphore cannot be preempted |
| **FMLP** `litmus/fmlp.c` | count, holder, FIFO wait queue | down, up | mutual exclusion, FIFO hand-over, no missed wake-up |
| **SRP** `litmus/srp.c` | per processor the held semaphores sorted by ceiling, and a wait queue | open, down, up, ceiling test after every `schedule()` | mutual exclusion without waiting in down; nobody sleeps below the ceiling |
| **NPS-F** `litmus/sched_npsf.c` | servers with reserves on several processors, the reserve in use, `highest_prio`, one timer per processor | add server, reserve switch, hand-over by interrupt, plugin callbacks | a server is served on one processor at a time, the right one, and executes its first task there |
| **PFAIR** `litmus/sched_pfair.c` | `pfair_time`, `merge_time`, `cur_tick`; per processor `linked` and its copy `local`; a wheel of release queues; subtask windows | tick (prepare, wait, catch up, copy), PD^2 linking, plugin callbacks | each subtask gets a quantum in its window, on the processor it is linked to; the processors agree on time and never wait for ever |
| C-EDF, EDF-fm | as GSN-EDF per cluster, and as PSN-EDF with migrating tasks | plugin callbacks | as above |
| Binomial heap `litmus/bheap.c` | – | insert, union, take, delete, decrease | returns the minimum, keeps the multiset |
| Shared objects `litmus/fdso.c`, control page `litmus/ctrldev.c`, task traces, liblitmus tools, ft_tools converters | – | – | – |

How they interact. Interrupts (timers, IPIs), system calls and wake-ups call the
scheduling class, which calls the active plugin under the runqueue lock; the
plugin takes the lock of a domain, changes links or queues, and asks other
processors to reschedule by an IPI or by flags in the task they execute. Release
queues call back into the plugin from timer interrupts on any processor.
`litmus_schedule()` lets a plugin hand it a task that sits in another
processor's runqueue; to migrate it, it drops its own runqueue lock, spins until
the task's stack is free, and takes both locks, while everything decided so far
may be overtaken. Semaphores wake tasks, change their priority and their
non-preemptive counter from another processor, and block them in the middle of
the return from `schedule()`. Trace points write into Feather-Trace buffers from all of
these contexts.

What is hard, and hard to test: the distance between a decision (link, slice,
picked task) and its execution on another processor; wake-ups that race with
schedule(); hand-over of tasks between domains without a common lock; memory of
release heaps whose timer callback still runs; preemption of a task that is on its
way to sleep; servers and assignments that one processor passes to another while
both follow their own timers; indices and budgets at their
limits; requests to reschedule recorded on the wrong task. `hazards` in
`PROJECT.json` lists each one with its line and the properties that watch it.

## 2. Modules

| Module | Models | Checked by |
|---|---|---|
| `GSNEDF` | GSN-EDF under the scheduling class | `MCGSNEDF`; proofs in `GSNEDF_proofs` |
| `SemiPart` | EDF-WM, C=D, HIME, budget timer, synchronous release, scheduling class | `MCSemiPart`; proofs in `SemiPart_proofs` |
| `RtDomain` | release queues, release timers and their remote arming | `MCRtDomain`; proofs in `RtDomain_proofs` |
| `ReleaseQueue` | the abstract promise of a domain | refined by `RtDomain` |
| `FeatherBuffer` | the trace buffer with its writers and its reader | `MCFeatherBuffer`; proofs in `FeatherBuffer_proofs` |
| `TraceFIFO` | the abstract promise of the buffer: a bounded queue that may refuse | refined by `FeatherBuffer` |
| `FeatherDevice` | devices, event table and ftcat | `MCFeatherDevice`; proofs in `FeatherDevice_proofs` |
| `PSNEDF` | PSN-EDF under `schedule()` of a preemptible or not preemptible kernel | through `PartSync` |
| `FMLP`, `SRP` | the two kinds of semaphores, each extending `PSNEDF` | through `PartSync` |
| `PartSync` | the composition: both kinds in use on the same processors | `MCPartSync`; proofs in `PartSync_proofs` |
| `FIFOLock` | the abstract promise of an FMLP semaphore | refined by `PartSync` |
| `NPSF` | NPS-F under the scheduling class | `MCNPSF`; proofs in `NPSF_proofs` |
| `PFAIR` | PFAIR under the scheduling class | `MCPFAIR`; proofs in `PFAIR_proofs` |

Definitions whose comment starts with *Mutant* are not part of a model: they are
variants of the definition that follows, with a bug the code might have had, and
serve to see that the properties notice it.

### GSNEDF

`linked`, `linked_on`, `scheduled`, `scheduled_on`, `ready`, `relq`, `flags`,
`release`, `deadline`, `stack_in_use`, `task_cpu` are the fields of the same
names. `phase[c]` is where processor *c* is in `schedule()`: `run`, `sched` (the
runqueue lock is taken), `wait` (a task of another runqueue is awaited), `resim`
and `attach` (inside the second half of `litmus_schedule()`), `switch`. `lock`
says who holds `gsnedf_lock` and at which stage, because an iteration of
`check_for_preemptions()` and the stages of `gsnedf_schedule()` are separate
steps. `tif` is TIF_NEED_RESCHED of tasks and of the background of a processor,
`ipi` the pending reschedule interrupts, `irq[c]` the jobs whose release timer
callback runs on *c* and has not merged them yet. `owed` is a ghost: jobs that
have called `complete_job()` and whose successor has not been prepared;
`resimulated` is another: processors that simulated a wake-up of prev since they
entered `schedule()`.

Actions: one per callback (`task_new`, `task_exit`, `wake`, `block`,
`complete_job`, `tick`, `on_release_timer`, `release_jobs`, ...), one per stage
of `schedule()`, `enter_np`/`exit_np`, and the interrupt. Execution time is
reduced to the step `exhaust`, which says that the budget of a job has run out.

### SemiPart

Adds time: `job[t]` holds release, deadline, `exec_time`, the cumulative
`exec_cost`, slice, `slice_start`, `suspend_time` and the cached parameters;
`start`, `rqclock` and `timer` carry the accounting of `update_time_litmus()`
and the enforcement timer. `plugin` is chosen once; `slice_window`,
`complete_sliced_job`, `depleted` and `top_priority` are the only operators in
which the three plugins differ. `depleted` keeps an oddity of EDF-WM and HIME: the
test reads `semi_part.cd.job_exec_cost`, which for EDF-WM is where its own part
of the union has `job_deadline`. `hand[c]` is the task that *c* has removed from
a domain and not yet added to the next.

The constants `Latency` and `BlockExhausted` widen the environment: with
`Latency` time passes inside the scheduler and before a due interrupt, with
`BlockExhausted` a task may block at the very moment its budget is used up.

### RtDomain and ReleaseQueue

A release heap is named by the task that owns it. `timer[h]` is the state of the
hrtimer in it (inactive, on a `to_pull` list, armed, running), `queue[d][s]` the
sorted lists of a domain. `tobe_lock` and `ready_lock` are held across steps;
critical sections under `release_lock` never wait and are single steps. The
refinement mapping to `ReleaseQueue` lets a job *wait* from the moment it is
given up until the callback merges it into the ready queue.

### FeatherBuffer and TraceFIFO

Every access to a shared word is a step: the decrement of `free_count`, the
increment of `write_idx`, the marker of the slot, and the corresponding steps of
`ftdev_read()`. The memory model is sequentially consistent: the counters are
updated by locked instructions, and x86 keeps stores in order.

### FeatherDevice

What ftcat does, against `ftdev.c` and the event table: the increment and
decrement of an event's count are a load and a store, since nothing protects
them but the mutex of a minor device. The records of a buffer are a number here.
The last `close()` disables the events, sleeps for a second (`release_sleep`) and
frees the buffer (`release_done`) without a look at the callbacks that may still
write to it. `callbacks[m]` are those in progress, `early[m]` the ones among them that
ran when the sleep began. `CallbacksInTime` is the assumption that the second is
enough for these to end; without it `release_done` frees the buffer under them
(section 4). That no callback *starts* during the sleep or after it is not assumed.

### PSNEDF, FMLP, SRP, PartSync, FIFOLock

A task stays on its processor, so `schedule()` holds one lock throughout and is
one step; what matters instead is where in the kernel a task is when it is
switched out. `state` and `on_rq` are kept apart: with CONFIG_PREEMPT a task that
has already set its state to sleep may be preempted (PREEMPT_ACTIVE), stays in the
runqueue and goes to sleep only in its own `schedule()`. `pos[t]` is the position
in `do_fmlp_down()`, `ceil[t]` that in `srp_ceiling_block()`, `tail` are the tasks
whose `schedule()` has not returned yet, and `sec[t]` the critical section a task
is in. `do_fmlp_up()` is two steps, the choice of the next owner and its wake-up,
since it changes flags of the waiter before it takes any lock of that processor.
`PSNEDF`'s actions take the set of processors that hold a wait queue lock as a
parameter; `FMLP` and `SRP` add their own and `PartSync` interleaves all. The
refinement mapping to `FIFOLock` is the owner followed by the wait queue.

### NPSF

A server is named by its id and has at most one reserve per processor.
`curr_reserve[s]` is the processor that owns the server, `cpu_reserve[c]` the
server *c* serves, `should_expire[c]` its reserve timer. `npsf_schedule()` is up
to three critical sections under the locks of two servers (`switch_reserve`,
`notify_next_cpu`, `pick`), and the rest of `schedule()` as in GSNEDF.
`sys_add_server()` is the choice of a table (`Setups`), which `WellFormed` and
`do_add_reserve` restrict as the system call does; `flag` is what `kmalloc()` left
in the field `is_currently_scheduled` that nothing initialises. `task_new` requires
`npsf_admit_task`: the task is on its own processor, which has a reserve of its
server. `npsf_reserves(c)` is the set of the servers with a reserve on *c*; its list
is in the order of their ids, which is how `do_add_reserve()` must be called.

### PFAIR

Time is counted in quanta. The tick is `tick` (the interrupt reads the clock),
`exchange` (the comparison with `pfair_time` and its four outcomes), `catchup`,
`advance_subtasks` (with `poll_releases`), one step per iteration of
`schedule_subtasks`, `announce` (the new `cur_tick`), and the copy of `linked` to
`local` as a load and a store. Only `schedule_next_quantum()` is split under
`pfair_lock`, since other processors read `linked` without the lock. `subtasks` is
the table that `pfair_admit_task()` computes. `setup` says what tasks and timers
may do: with `lag` time passes inside handlers and before interrupts, so that
processors miss quanta and catch up.

## 3. Runs

Each passing run explores its instance completely.

| Run | Instance | Shows |
|---|---|---|
| `gsnedf_core` | 3 tasks (periods 1, 3, 3), 2 CPUs, time 0–1; tasks complete, suspend, exhaust budgets, enter non-preemptive sections, leave, die and return | a task is in one place (`OnePlace`) and on one stack (`OneStack`); links follow the EDF order and no processor is left without one (`EDFOrder`); a task is never linked away from where it executes (`LinkedWhereScheduled`); no assertion fires (`NoPanic`); a processor that does not execute what is linked to it will reschedule (`PreemptionRequested`) |
| `gsnedf_spin` | 3 tasks, time 0–2; the 10 ms spin limit may expire | no task is lost even then (`NoLostTask`) |
| `gsnedf_live` | 3 tasks without suspensions, with fairness | linked tasks eventually run (`LinkedTaskRuns`) |
| `gsnedf_lost_task` | *violation* | a reschedule interrupt that arrives inside a non-preemptive section loses the task |
| `semi_part` | 2 tasks split in opposite directions and a regular one, 2 CPUs, time 0–2, each of the three plugins | a task is in one domain at a time, the right one, and not lost (`OnePlace`); slices and budgets are exact (`SliceAccounting`, `BudgetEnforced`); no assertion fires (`NoPanic`); exchanges do not deadlock (`NoSpinDeadlock`); preemptions are requested (`PreemptionRequested`) |
| `semi_block_exhausted` | *violation*: one split task that may block as its slice ends | the wake-up does not advance the slice and the assertion of `budget.c` fires |
| `rt_domain` | 2 tasks, 2 domains on 2 CPUs, time 0–2, with fairness | `OnePlace`; lists sorted, every waiting job with a trigger, and no wait for a callback that needs one's own lock (`QueueSound`); no assertion and no use of a freed heap (`NoDangling`); implements `ReleaseQueue`: no job is lost, early or queued twice; every due job is released (`ReleaseHappens`), also when its timer is armed remotely |
| `feather_buffer` | 2 writers, 2 slots, indices modulo 4, 4 events | exclusive slots (`SlotExclusive`), `free_count`, indices and markers agree (`Occupancy`), every event is accounted for once and in order per writer (`Accounted`), implements `TraceFIFO`, what is written is eventually read (`Drained`) |
| `ftdev_shared` | 2 ftcat on one minor device, 2 events, failing allocations, signals; `CallbacksInTime` | table and enabled events agree, and no callback is without a buffer if those that run when the last `close()` goes to sleep end within its second (`TableAgrees`), every ftcat that is told to stop ends (`Shutdown`) |
| `partsync` | 4 tasks on 2 processors, four set-ups: contention with budgets, a preemptible kernel, two SRP semaphores held at once, FMLP alone with tardy jobs | no assertion fires, in particular no SRP semaphore is taken twice (`NoPanic`); no task is lost or queued twice (`OnePlace`); the owner and only the owner is non-preemptive, and no wake-up falls between a test and going to sleep (`NoMissedWakeUp`); `hp.cpu_task` is not stale in the `Undisturbed` set-up, FMLP alone (`HighestWaiter`); the semaphore is a FIFO lock (`ImplementsFIFOLock`) |
| `npsf` | 3 tasks, 2 processors that share one or two servers, eight set-ups with and without latency | no assertion (`NoPanic`); a server is served by its owner only (`ServesOwned`); `highest_prio` is right and runs, or its processor will reschedule (`ServesHighest`); once the timers run and every server is where it is due, no hand-over is missed, at the end of a slot or inside of it (`StaysOnTime`); no task executes twice while tasks migrate in opposite directions, and who is waited for is on its way into `schedule()` (`OneStack`) |
| `pfair` | eight set-ups: a full hyperperiod of 5 tasks on 3 fully loaded processors; 3 tasks on 2 processors that suspend, complete, lag, leave, return, die or join | no task is in two queues or on two stacks, and its queue is the one the code infers (`OnePlace`); subtasks meet their windows (`WindowsMet`); assignments are carried out where no task arrives or wakes up and no processor lags (`QuantumDelivered`); every tick and every `schedule()` ends (`HandlersEnd`) |

Seven more configurations reproduce behaviours described in section 4:
`GSNEDF_completion.cfg` (violates `CompletionHonoured`), `PartSync_overrun.cfg`
(`OneOwner`), `NPSF_stuck.cfg` (`Eligible`), `NPSF_cross.cfg` (`NoCrossMigration`),
`FeatherDevice_late.cfg` (`PendingComplete`), `PFAIR_wake.cfg` (`Delivered`) and
`PFAIR_killed.cfg` (`NoDangling`), each with the `MC` module of the same name.
`PFAIR_heavy.cfg` passes: four fully loaded processors through a hyperperiod,
where deadlines would be missed without the group deadline.

### Bounds and why they are enough

Two processors are the least with migration, remote wake-ups, IPIs and mutual
waiting; three tasks are the least for which two run and a third preempts one of
them and moves. A period of 1 next to 3 makes releases, completions and
preemptions coincide within a horizon of two time units; later periods repeat
the same relative positions. In `semi_part` a slice is one unit and a job two,
so a task is released, migrates and starts its next job within the horizon;
in that run `AdmitUntil` = 0 admits all tasks at time 0, in any order: the sliced tasks while
they execute, the regular one (period 3, so one job before the horizon) while it
waits for a processor (`Queued`). `MAX_DELAY` lets the synchronous release be at
once or one unit ahead. The
job number is capped at 3 since it is only compared with 2. In `rt_domain` there
is one slot, so that the release times 1 and 2 have different heaps in one list, inserted in
either order, found again and removed from either end. In
`feather_buffer` the indices wrap around once the fourth event is written, and two
writers fill the buffer of two while the reader is anywhere. `MaxOpens` in
`ftdev_shared` lets both processes open, close and open again. In `partsync` two
tasks share each resource on the processor where SRP is used and one waits from
the other, which gives a local and a remote waiter; a period of 1 next to 2 and 3
makes preemptions happen in every section before the clock stops. In `npsf` the
set-ups with several tasks end at or before the kick-off of the timers: admission,
migration, suspension and the switches of reserves that `schedule()` makes on its own
do not depend on it. Three set-ups without latency, with one task or none, go on for two or three
slots after the kick-off (at 4 for `Wrap`, at 6 otherwise): `Wrap` until 8, where both
processors want the shared server at the same instant, `Middle` until 12 and `Two` until 15,
where it is handed over inside a slot. All of them reach `Settled` after the kick-off and see
hand-overs after that: without the interrupt of `npsf_notify_next_cpu()`
`StaysOnTime` fails in `Middle` at 8, inside the first slot. In `Two` the tasks 2 and 3 migrate in opposite
directions, and both processors do wait for each other. In `pfair` the
periods 2, 3, 3 with weights 1/2, 2/3, 1/3 give light and heavy tasks, and windows
that overlap and that do not; three processors are the least on which deadlines
are missed without tie-breaking. Clocks run until 2 to 6: two quanta are needed
to fall behind and to catch up. Symmetry is used
where processors (with their domains) or tasks are interchangeable and no
liveness is checked. `CHECK_DEADLOCK FALSE` is set where the bounded clock, or
processes that have finished, leave nothing to do.

Instances beyond the listed ones were explored with the same result: `semi_part`
with sliced tasks that suspend, complete and leave, with background code that
calls `schedule()` at any time (`Yielding` = {NULL}), and up to time 3.

### Fairness

*GSNEDF, RtDomain, PFAIR.* Handlers and `schedule()` run to completion with interrupts
disabled (weak fairness of steps under a lock). Strong fairness is used where a
step needs a spinlock or enabled interrupts, which are available again and
again but not continuously: the spinlocks of x86 are ticket locks, and a pending
interrupt is taken as soon as interrupts are enabled. `PFAIR` needs strong fairness
only for the migration of a task, whose runqueue lock other processors take again
and again. Nothing is assumed of
tasks: they need not complete, block or wake.
*FeatherBuffer.* Contexts that began to record go on, the user keeps calling
`read()`, and a copy tried again and again does not fault for ever.
*FeatherDevice.* A process that can run does, also when it has to compete for the
mutex; traced code keeps running; the user stops every ftcat with a signal.

## 4. Findings

Each is a behaviour of the code that contradicts a comment or an assertion. The
first two are runs; their quotations are in `PROJECT.json`.

1. `gsnedf_lost_task`: with a non-preemptive task that has been preempted but
   not switched out, `unlink()` removes it from the ready queue; after
   `exit_np()` it is in no place.
2. `semi_block_exhausted`: EDF-WM, C=D and HIME share a wake-up path whose first
   test compares with the cumulative budget of the slices so far. A task that
   blocked with its slice exhausted is queued again as it is, and
   `arm_enforcement_timer()` stops the kernel.
3. `GSNEDF_completion.cfg`: `gsnedf_schedule()` skips `job_completion()` when a
   preemption is pending, and `link_task_to_cpu()` later clears the mark. The
   task's `complete_job()` returns without a new period.
4. `PartSync_overrun.cfg`: a woken FMLP waiter is "guaranteed to have the lock"
   (`fmlp.c:163-167`). With CONFIG_PREEMPT a waiter that is preempted between
   entering the queue and `schedule()` returns, when it runs again, through the
   ceiling test at the end of the preempting `schedule()`. If a holder of an SRP
   semaphore has been cut off by its budget, `do_ceiling_block()` puts the waiter
   to sleep a second time, the SRP wake-up makes it TASK_RUNNING, and it leaves
   `down` without having the semaphore.
5. `NPSF_stuck.cfg`: no timer is armed for the beginning of a reserve that
   continues a shared server, "because we will receive an IPI from the previous
   processor instead" (`sched_npsf.c:315-318`). If the first processor serves its
   reserve before the timers are kicked off and leaves it at the kick-off, it
   passes the server on while the next one's reserve is not eligible: that
   processor becomes the owner, the interrupt has no effect, and when its reserve
   begins it gets neither a timer nor an interrupt. The server is not served any
   more.
   `StaysOnTime` therefore starts from the moment at which each server is where it
   is due.
6. `NPSF_cross.cfg`: waiting for the stack of a task "could deadlock in the case of
   cross or circular migrations.  It's the job of the plugin to make sure that doesn't
   happen" (`sched_litmus.c:68-71`). NPS-F does not: with two shared servers, c1 leaves
   the first for the second while c2 still executes a task of the second and picks one of
   the first. Each waits for the other's stack until the limit of 10 ms. `OneStack` says
   what does hold.
7. `FeatherDevice_late.cfg`: the second that `close()` sleeps is there to "wait for any
   pending events to complete" (`ftdev.c:159`). Nothing counts them; a callback
   that takes longer writes to a buffer that has been freed.
8. `PFAIR_wake.cfg`: a task that wakes before its next release resumes "as if it
   never blocked at all" (`sched_pfair.c:622-627`). A wake-up between the
   preparation of a quantum by one processor and the tick on another makes the
   latter run the task from its old copy of the assignment; the processor the
   task is linked to finds it scheduled elsewhere and idles for the quantum. A
   task that becomes real-time at that moment has the same effect.
9. `PFAIR_killed.cfg`: `pfair_task_exit()` is to "ensure that it is not the
   scheduled task for ANY CPU" (`sched_pfair.c:658-659`). The tick copies its
   assignment without the lock; a blocked task that exits between the load and
   the store remains in `local` after its parameters have been freed.

Behaviours the models reach when the named constant is widened, and which the
passing runs and theorems exclude by it:

* GSNEDF, `resimulated`: when `litmus_schedule()` simulates the wake-up of prev
  and a link of the local processor changes in its loop, `preempt()` sets
  TIF_NEED_RESCHED on prev, which is being switched out, and the request is lost
  until something else makes the processor reschedule. It happens when prev itself
  is linked to the processor, and with three processors also when prev has
  already been picked by another one and the processor takes over that one's
  link. `PreemptionRequested` excludes a processor that did this in its last
  `schedule()`. Between the simulated block and the wake-up the swap can also take
  the link of a processor that then has none while jobs are ready (three
  processors); `EDFOrder` excludes that interval (`Resimulating`).
* GSNEDF, a task that suspends in a non-preemptive section (`NPTask` and
  `Suspending` not disjoint): while it is switched out its np flag is still set,
  and a preemption of its processor is only recorded in its
  `delayed_preemption`. `PreemptionRequested` fails.
* GSNEDF, `AdmitModes` with `blocked`: a task made real-time while it sleeps is
  queued at once, and queued again when woken.
* GSNEDF, `RemoteExit`: a task taken out of real-time mode by another one while
  it waits for its release is deleted from the wrong heap.
* GSNEDF, `SpinTimeout`: an expired spin limit leaves `scheduled_on` ahead of what
  executes; links, assertions and pending preemptions are then not guaranteed
  (`NoLostTask` is, see `gsnedf_spin`).
* SemiPart, `Latency`: a slice that overruns because its timer interrupt was late
  leaves the next one short, and its timer expires before the slice is exhausted
  by the plugin's own test; the next arming panics. A synchronous release in the
  middle of a context switch makes `task_block()` remove a task from the wrong heap.
* SemiPart, a sliced task outside `Synched`: its first job has no slice budget
  (`wm_task_new()` does not call `compute_slice_params()`); blocking twice in it
  runs past the last slice, which `fast_forward_slices()` asserts not to happen.
* SemiPart, `FirstJobShort`: the timer is not armed for a task that becomes
  real-time while it executes, so its first job can overrun. C=D and HIME then
  start a new job. EDF-WM's test for it reads `job_deadline` (the union of section
  2), sends the job to its next slice with more execution time than that slice's
  cumulative cost, and arming the timer there panics.
* FeatherBuffer, `FaultBytes` = {1}: a fault that leaves exactly one byte uncopied
  is taken for success by `ftdev_read()`.
* FeatherDevice, `MinorOf <- OwnMinor`, `EventsStayOn`: users of two minor devices
  update the count of one event concurrently and lose an update.
* GSNEDF, `SpinTimeout` with tasks that complete: `EDFOrder`, `OneStack` and
  `PreemptionRequested` fail, and with two such tasks an assertion does.
* SRP, `OpenHeld`: a semaphore opened while the ceiling is raised, or a task that
  becomes real-time while it executes, is not tested against the ceiling; a
  semaphore can then be taken while it has an owner.
* PSNEDF, a preemptible kernel with two FMLP users on one processor:
  `rt_pi_wake_up()` changes the priority of a task inside the ready heap, whose
  order is then wrong. `Preemptible` has one user per processor.
* PartSync, two FMLP users and an SRP semaphore on one processor, `end` = 3: the next
  owner of the FMLP semaphore is woken, the ceiling holds it up, and the wake-up of
  `srp_up()` finds it tardy and no longer marked RT_F_EXIT_SEM: it gets a new job with
  a later deadline while it owns the semaphore. `hp.cpu_task` still names it and
  no longer the highest claimant, whose priority it should inherit. `HighestWaiter`
  is about `Undisturbed` set-ups only, where this cannot happen; without that condition
  it would fail here.
* NPSF: a processor that still serves its initial reserve misses preemptions if
  `is_currently_scheduled` happened to be zero; `ServesHighest` exempts it.
* PFAIR, `exact`: a sporadic release at the very beginning of a quantum that has
  been polled already waits for a turn of the wheel (the FIXME of
  `sched_pfair.c:634`).
* PFAIR, `lag` and the delivery of assignments: a processor that enters
  `schedule()` and picks a task only after another one has prepared the next
  quantum takes the task from its old copy. If the task is now linked elsewhere,
  that processor finds it scheduled and loses the quantum. Two processors and
  three tasks of weight 2/3 are enough; `QuantumDelivered` excludes lag (`Plain`).
* PFAIR, a synchronous release with `lag`: `release - pfair_time` is unsigned, so
  that a release that has passed is put off by `PFAIR_MAX_PERIOD`; a release that
  has been polled, or one exactly a turn ahead of a quantum not polled yet, is
  released at the wrong turn.

Further observations, which no property is about: a task that waits for a
processor when it becomes real-time has `present` = 0 under PFAIR
(`kernel/sched.c:4700`) and is never scheduled until it has blocked once;
`last_quantum` is set to the quantum that begins, so that the test for consecutive
quanta in `target_cpu()` never holds; `complete_job()` after the tick has started
the next job skips that job; `linked_on` is not initialised by the plugin. The new
owner of an FMLP semaphore does not become `holder`, so that later waiters do not
lend it their priority. In NPS-F `sys_add_server()` copies
`sizeof(budgets)` instead of `sizeof(*budgets)` per entry, and a server that fails
half way is not removed.

## 5. Proofs

Proofs are for every value of the constants that the named assumptions admit.
Every module has an inductive invariant `IInv`, a lemma per action (or per group
of actions with the same effect) that shows it is kept, and theorems that follow
from it. `ConstantsAssumption` of each module fixes the types of the constants.

**GSNEDF_proofs.** The theorems assume
`SupportedUse`: tasks are admitted running or runnable, leave by themselves or
after death, and the spin limit does not expire. The inductive invariant `IInv`
is needed because none of the safety properties is inductive: whether
`link_task_to_cpu()` keeps `LinkedWhereScheduled` depends on `scheduled_on`
following the decision (`ScheduledOnFollows`), which depends on what a processor
may have picked at each stage (`NextReady`, `StackOwner`, `EntryFollows`), on who
may hold the lock at which stage (`LockOwner`), and on where prev is while its
block and wake-up are simulated (`ResimUnplaced`, `WaitingLeaves`). `PlacedRuns`
says that only runnable real-time tasks are linked or queued, `Released` that
only tasks in the release queue have a release in the future. From `IInv` follow
`TypeCorrectness`, `LinkConsistency`, `EveryTaskOnce`,
`StackSafety`, `PanicFreedom` and `ReleaseRespected`. `NoneLost` is about the
other direction, that a runnable real-time task is linked, queued or executing. It also assumes that no task enters
a non-preemptive section: with one it is false, as the run `gsnedf_lost_task`
shows.

`PriorityRespected` proves `EDFOrder` for finitely many processors. The loop of
`check_for_preemptions()` compares only the first ready job with the
lowest-priority link; that both exist (`FirstReady`, `LastLinked`) and that
`edf_higher_prio()` is a linear order (`PriorityOrder`) gives the comparison of all
pairs when it ends (`LoopEnd`). The invariant parts `Ordered` and `Assigned` carry it
through the steps that change links without the loop; `LooksForTask` says where
a processor without a link can be, which shows that the swap of
"link pending task" never takes an absent link. `RequestsReach` proves `PreemptionRequested` when no
task that suspends uses non-preemptive sections: `Asked` separates a processor
that runs something else than its link from one that has decided to,
`NonPreemptive` says that `gsnedf_schedule()` never takes the processor from a
non-preemptive task, and `OutsideSwitch` that the simulated wake-up is the only
handler that runs inside a switch. These parts were checked with TLC on the
instance of `gsnedf_core` and by simulation with three processors and five tasks.

**RtDomain_proofs.** No assumption but the types. The life of a release heap is
a cycle of its owner's task, its list, its timer and the callback; `Counters`,
`HeapUse`, `TimerUse` and `AtWork` say what each processor knows about the heap it
is at work on. Most steps concern one processor and one heap, and the lemma
`HeapStep` reduces them to what happens to these two (`OneHeap`), given that the
rest is left alone (`OthersKept`). The lists need facts about sequences: a heap is
found by the search if and only if it is listed, and insertion keeps the list
sorted. From `IInv` follow `EveryTaskOnce`, `QueuesAreSound` (for it: a
callback that is still running when its timer is cancelled has already
left the locks that the canceller holds) and `NothingDangles`. `Refinement` shows
that each step does to `waiting` and `ready` what `ReleaseQueue` allows, in
particular that a heap is merged into the ready queue not before its time, as a
whole, and only once.

**FeatherBuffer_proofs.** For every finite set of writers and
every slot count accepted by `init_ft_buffer()`. `IInv` adds to `TypeOK`,
`SlotExclusive` and
`Occupancy`: what a writer has been promised by its decrement of `free_count`
(`Promised`), which slots are held by whom (`Held`), the position of the reader
(`Reading`), and the relation of `free_count` to the writers in flight
(`Counting`). The arithmetic of the ring rests on one fact: because `slot_count`
divides `UINT_MAX + 1`, consecutive indices modulo `UINT_MAX + 1` use consecutive
slots, and at most `slot_count` consecutive indices use different ones. From it
follow `TypeCorrectness`, `Exclusion` and `Accounting`. `Refinement` (to
`TraceFIFO`) and `Accountability` assume `FaultsSeen`: `copy_to_user()` never leaves exactly one
byte, which `ftdev_read()` takes for success. The abstract queue is the slots
between the two indices; a write fills its place in the middle of it, a
read takes the first. `Accountability` follows a log of all that was ever
in the queue: delivery does not change it, so each number is drawn once, appears
once, and in the order of its writer. It assumes `NoWrap`, that the
counter of failed writes has not overflowed.

**FeatherDevice_proofs.** All assume `OneMinor`: the event table is unprotected, and
only the mutex of a single minor device makes its updates exclusive (with two,
`TableAgrees` is false, section 4). For any finite number of processes and any
number of events. `NotStale` says that what a process has loaded from the table is
still there when it writes it back, because only the holder of the mutex
(`MutexHeld`) has loaded anything; `Counted` relates count, list and the process
between the two halves of `deactivate()`; `Used` bounds the processes that have the
device open by `readers`, which an interrupted `close()` leaves too high but
nothing makes too low, so that the last reader really is alone when it frees the
buffer. While it sleeps nothing is enabled and no callback starts; that the
callbacks from before have ended is used, as `CallbacksInTime`, only where the property
itself speaks of them. `TableAgreement` follows, and from `Listed` `NothingLeftOn`: `deactivate()`,
which fails silently, finds every event that a process disables.

**PartSync_proofs.** All assume `SeparateUse`: semaphores are opened before they
are in use (`OpenHeld` is false), and on a preemptible kernel the users of FMLP and
those of SRP semaphores have different processors; without these the properties are false
(section 4). Kernels that are not preemptible may mix both. Parts of the invariant:
`Placed` and `Outside` (queues), `Returning` (what is left of a `schedule()`),
`Semaphore` (the task inside is unique, non-preemptive, and nobody else is),
`Inherited`, `Blocking` (a task asleep below the ceiling is in the wait queue of
its processor, and one that got past its test is above the ceiling), `HandedOver`
(the semaphore is in use or its next owner is awake or about to be), and `Stacked`:
the held SRP semaphores of a processor are sorted by ceiling, each owner's
priority is above the ceilings of those taken before, and by `Blocking` who executes
in its own code is above them all. It follows that `srp_down()` finds its semaphore free and
`srp_up()` its own on top: `PanicFreedom`. The FMLP part rests on the owner being
non-preemptive from the moment it is chosen, and on a woken waiter being the head
of the queue when it looks. `EveryTaskOnce`, `NoWakeUpMissed`, `MutualExclusion`
and `Refinement` (the semaphore implements `FIFOLock`, where the queue is the
owner followed by the waiters) follow. `CandidateNeverStale` proves `HighestWaiter`, which
is about `Undisturbed` set-ups: users of the FMLP semaphore run on a kernel that is not
preemptible and on processors without SRP semaphores. `hp.cpu_task` is compared with
newcomers only, so it is right exactly as long as the jobs of the owner and of the
waiters stay the same. `Claimants` says why they do: a waiter is current until it calls
`schedule()` and then blocks, an owner is awake and non-preemptive, so neither completes
a job (`SwitchKeeps`), and the one to be woken keeps the mark RT_F_EXIT_SEM that spares it
a new job. `Leading` says that the candidate precedes all others with its own priority:
who is compared with it has inherited nothing, and it has inherited at most from itself.
Both were checked with TLC on two such set-ups before they were proved. Outside of
`Undisturbed` the candidate can be stale (section 4).

**NPSF_proofs.** For every number of processors, servers and tasks, and every
`WellFormed` table that `sys_add_server()` accepts, chains over many processors
included. No assumption but the types of the constants. That a server is served only where it
is owned (`ServesOwned`) is kept because a processor that is between two critical
sections of `npsf_schedule()` owns what it is about to pass on, and that is not
what it serves (`Hosted`); a processor that finds the server owned by another
returns to what it has. `Located` and `Ordered` are about the queues: a task is in
one place of its own server, `highest_prio` precedes the ready queue, and only
tasks in a release queue have a release in the future. These need `Executing`,
because the task that `schedule_server()` puts back and the one whose wake-up is
simulated must not be executing elsewhere, and `Picked`, because a task that was
picked under the lock of the server is attached after the lock was dropped: one
that has to be migrated may have blocked, exited or completed in between, but its
stack, once found free, stays free, and one that is already here stays runnable. `Follows` says for every phase of `schedule()` why
the processor will not stay with a stale choice: what it has picked is still
`highest_prio`, or an interrupt is pending, or `highest_prio` is gone and it will
notice by itself, or nobody has told it that it serves (`Unaware`: the flag left
uninitialised was zero). The lemma `Reschedule` states once what
`npsf_reschedule_server()` does to a queue and whom it interrupts; `HandlerStep`
and `QuietStep` reduce a handler to the server it concerns. `PanicFreedom`,
`ServerOwnership` and `HighestServed` follow. `StackSafety` proves `OneStack`. It adds
`Occupied`, that a stack in use is that of the current task of its processor: who is waited
for executes a task whose server it does not serve, and by `Follows` looks again.

**SemiPart_proofs.** For every number of tasks and processors, every choice of
slices that `check_params()` accepts, and any of the three plugins. The theorems assume
`SupportedUse`: interrupts are not delayed, a task does not block at the very moment
its budget is used up, and sliced tasks that block begin with a synchronous release;
and `FirstJobShort` along the behaviour: under EDF-WM the first job of a sliced task,
which need not have a timer, ends within its cost. Tasks of liblitmus do: they wait
for the synchronous release right after they became real-time
(`wait_for_ts_release()` in `liblitmus/bin/rtspin_edfwm.c`), and the job that
counts is the second. Without any one of these the properties are false (section 4;
`SemiPart_exhausted.cfg`). `NeverPanicsExceptWM` does without `FirstJobShort`, since C=D and HIME
do not need it. `IInv` is needed because no lock is common to the two domains of a
migration. `InDomain`, `HandOver` and `Kept` say where a task is: in the domain of its
slice, on its way, or with a processor that simulates its wake-up. They depend
on `Following` and `Executing` (what a processor has picked, and whose stack is in use
at each stage of `schedule()`) and on `JustBlocked`: a task that is woken while it is being
switched out has slept for no time, so that the wake-up neither advances its slice nor starts
a new job and it returns to the domain it came from. `Accounts` is the arithmetic of the slices: `exec_cost` is
the sum of the budgets up to the current slice and `slice_start` the sum before it, so that
a wake-up that fast-forwards through several slices ends within the last one.
`Budgets` adds that every job has budget left except that of a scheduled task,
which is why the assertion of `update_enforcement_timer()` holds when a
task is picked, and `Enforced` that the timer of the processor expires
exactly then. `Requested` is `PreemptionRequested` for all ready tasks instead
of the first only. `plugin_schedule()` is proved once for all its outcomes: `Decided`
says where the previous task goes (`Ways`) and what is picked instead.
`AlwaysOnePlace`, `NeverPanics`, `NeverSpinDeadlock`, `SlicesAccounted`, `BudgetsEnforced` and
`AlwaysPreemptionRequested` follow. `IInv` was checked with TLC on the
instance of `semi_part` and on variants of it before it was proved.

**PFAIR_proofs.** For every finite number of tasks, every number of processors and
all weights that `pfair_admit_task()` accepts. `SupportedUse` excludes the two uses
for which `OnePlace` is false (section 4): wake-ups at the very beginning of a quantum
(`exact`) and synchronous releases with `lag`. `Invariance` and `EveryTaskOnce` also
assume `TicksInTime` along the behaviour: a system that lags does not lag by
`PFAIR_MAX_PERIOD` quanta, since a task released then is put into a slot of the wheel
that is a turn behind. Without lag this holds by itself, because the clock waits for the
ticks (`CaughtUp`, `ClockWaits`). `IInv` is needed because the code infers the queue of a
task from its release and `merge_time`, which only `schedule_next_quantum()` moves and
of which other processors know nothing. `Turns` says that each quantum between `cur_tick`
and `pfair_time` is in the hands of one processor, so that `merge_time` grows by one
although several processors prepare quanta at a time; `Wheel` that a task is linked or
ready if its subtask has been released, and otherwise in the slot of its release, at most
a turn ahead; `Stacks` that `scheduled_on` follows the decision and `stack_in_use`
the context switch; `Releasing` is about the synchronous release. That an advance to the
next subtask never skips a turn of the wheel is arithmetic of the windows
(`NextFraction`, `NextSubtask`); that a task is found whenever the ready queue is not
empty is that PD^2 is a linear order (`PriorityOrder`, `PeekReady`).
`AssignmentsDelivered` proves `QuantumDelivered`. Its invariant `Following` says for each
processor what it may be executing before and after its tick (`Before`, `After`), and
that a task is linked only to where it is scheduled, if anywhere: `target_cpu()` looks at
`scheduled_on`, and a task that it displaces is not scheduled there, since only one can be.
A processor in `schedule()` before its tick can then only keep its task or drop it,
and nobody has taken the tick while assignments change (`NobodyTaken`). `IInv`, `CaughtUp`
and `Following` were checked with TLC on five set-ups without lag, and `IInv` on those of
the run, before they were proved.

**Only model-checked.** Liveness (`LinkedTaskRuns`, `ReleaseHappens`, `Drained`,
`Shutdown`, `HandlersEnd`) is outside the prover's reach. Of PartSync
preemptible set-ups that mix both kinds on a processor; of NPSF
`StaysOnTime`, which depends on the arithmetic of sums of budgets over the whole table and on
no time passing before interrupts. Of PFAIR `WindowsMet`: that PD^2 schedules every feasible system is a
theorem about all schedules of a hyperperiod, whose proof needs induction over time and
exchange arguments.

## 6. What is not modelled

The FMLP callbacks and the release-master option of GSN-EDF; the interval between
reading the np flag and writing the delayed-preemption flag; per-task phases and
interrupted waits in `sync.c`; QUANTUM_ENFORCEMENT in the sliced plugins; device
registration and user-written trace records; the portable event table. Nested
critical sections, signals to waiters and user-space non-preemptive sections in
PartSync. Failing calls of `sys_add_server()` and the removal of servers in NPSF; the runs
have chains of two processors, the proofs of any length. Staggered ticks, EARLY_RELEASE and the ten
retries of the tick in PFAIR; its parameter block is freshly allocated, and
`last_quantum` and `last_cpu` are taken to be what an earlier admission left.

Not yet modelled at all: C-EDF, EDF-fm, the plugin switch and admission in
`litmus.c`, `bheap.c`, `fdso.c`. Left out for good: command line tools, trace
converters, debug logs and the control page device, which have no protocol of
their own. Linux is included only as far as LITMUS relies on it: runqueue locks,
wake-ups, interrupts, hrtimers, preemption.

## 7. Plan

1. `NPSection`: the two flags in the shared page, their test and update as
   separate steps on both sides, composed with the preemption requests of GSNEDF.
2. `Litmus`: plugin switch, admission, exit, and the counts that guard them.
3. EDF-fm on top of PSNEDF, C-EDF as an instance of GSNEDF, `BHeap` against a
   reference on small heaps, shared objects.
