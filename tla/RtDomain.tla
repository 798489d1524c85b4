------------------------------ MODULE RtDomain ------------------------------
(***************************************************************************)
(* Release queues and release timers (litmus/rt_domain.c), with the remote *)
(* arming of timers (hrtimer_start_on(), hrtimer_pull() in                 *)
(* kernel/hrtimer.c) that plugins with several domains use.                *)
(*                                                                         *)
(* A domain keeps jobs that wait for the same time in one release heap.    *)
(* The heaps hang in lists, one list per slot of the time line, sorted by  *)
(* time.  A heap is not allocated for the occasion: each task owns one,    *)
(* and the first task to wait for a time lends its own and arms the timer  *)
(* in it.  A heap is named by its owner here.  The owner may be released,  *)
(* run, and need its heap again, in the same or another domain, while the  *)
(* timer callback that released it has not returned yet.                   *)
(*                                                                         *)
(* A processor that executes one of these functions has its interrupts     *)
(* disabled, so one program counter per processor is enough.  A critical   *)
(* section under release_lock never waits for anything and is one step;    *)
(* tobe_lock and ready_lock are held across steps.                         *)
(***************************************************************************)
EXTENDS Naturals, Sequences, FiniteSets

CONSTANTS
  Task,                 \* real-time tasks, each the owner of a release heap
  CPU,                  \* online processors
  Domain,               \* scheduling domains (rt_domain_t)
  NO_CPU,               \* no processor
  NULL,                 \* no task, no domain
  cpu_of,               \* cpu_of[d]: processor whose tasks are in domain d
  release_master,       \* processor that handles all releases, or NO_CPU
  RELEASE_QUEUE_SLOTS,  \* number of lists of a release queue
  QUANTUM,              \* length of a quantum
  MaxTime               \* bound: the clock stops here

ASSUME ConstantsAssumption ==
  /\ NO_CPU \notin CPU
  /\ NULL \notin Task /\ NULL \notin Domain
  /\ cpu_of \in [Domain -> CPU]
  /\ release_master \in CPU \cup {NO_CPU}
  /\ RELEASE_QUEUE_SLOTS \in Nat \ {0}
  /\ QUANTUM \in Nat \ {0}
  /\ MaxTime \in Nat

VARIABLES
  now,          \* litmus_clock()
  held,         \* tasks in the hands of the plugin: running, or being moved
  release,      \* job_params.release
  ready,        \* ready[d]: rt->ready_queue
  queue,        \* queue[d][s]: rt->release_queue.slot[s]
  heap,         \* heap[h]: tasks in rh->heap
  release_time, \* release_time[h]: rh->release_time
  dom,          \* dom[h]: rh->dom
  timer,        \* timer[h]: inactive, pull (on a to_pull list), armed, running
  timer_cpu,    \* timer_cpu[h]: processor of the timer
  in_use,       \* heaps with info.state = HRTIMER_START_ON_QUEUED
  allocated,    \* heaps that exist
  pull,         \* processors with a pending PULL_TIMERS_VECTOR interrupt
  pc,           \* what a processor is executing
  cur,          \* cur[c]: task or heap it is at work on
  into,         \* into[c]: domain it is at work on
  target_cpu,   \* target_cpu[c]: processor that shall get the timer
  ready_lock,   \* ready_lock[d]: processor that holds it across steps
  tobe_lock,    \* tobe_lock[d]: processor that holds it
  panic         \* has a BUG_ON() fired?

heapVars  == <<queue, heap, release_time, dom>>
timerVars == <<timer, timer_cpu, in_use, pull>>
cpuVars   == <<pc, cur, into, target_cpu>>
lockVars  == <<ready_lock, tobe_lock>>
vars == <<now, held, release, ready, heapVars, timerVars, allocated, cpuVars,
          lockVars, panic>>

Slot == 0 .. (RELEASE_QUEUE_SLOTS - 1)

goto(c, s) == pc' = [pc EXCEPT ![c] = s]

\* c is done with add_release(), a timer callback or release_heap_free().
return(c) ==
  /\ goto(c, "idle")
  /\ cur' = [cur EXCEPT ![c] = NULL]
  /\ into' = [into EXCEPT ![c] = NULL]
  /\ target_cpu' = [target_cpu EXCEPT ![c] = NO_CPU]

BugOn(cond) == panic' = (panic \/ cond)

\* Neither inside a handler nor with interrupts disabled.
Open(c) == pc[c] = "idle"

-----------------------------------------------------------------------------
(* The lists of a release queue                                            *)

time2slot(r) == (r \div QUANTUM) % RELEASE_QUEUE_SLOTS

\* Mutant: the search does not go past heaps of earlier times.
position_first(l, r) == 1

\* Where the search for time r ends: at the first heap that is not earlier.
position(l, r) ==
  CHOOSE k \in 1 .. (Len(l) + 1) :
    /\ k <= Len(l) => r <= release_time[l[k]]
    /\ \A i \in 1 .. (k - 1) : release_time[l[i]] < r

list_add(l, k, h) ==
  [i \in 1 .. (Len(l) + 1) |-> IF i < k THEN l[i] ELSE IF i = k THEN h ELSE l[i - 1]]

\* There is a heap for time r.
matches(l, r) ==
  /\ position(l, r) <= Len(l)
  /\ release_time[l[position(l, r)]] = r

list_del(l, h) ==
  LET k == CHOOSE i \in 1 .. Len(l) : l[i] = h
  IN [i \in 1 .. (Len(l) - 1) |-> IF i < k THEN l[i] ELSE l[i + 1]]

\* The task is in some heap, a release heap or a ready queue.
is_queued(t) == (\E h \in Task : t \in heap[h]) \/ \E d \in Domain : t \in ready[d]

\* bheap_insert() of the task that c adds into a heap that it has found.
insert_into_found(c) ==
  LET t == cur[c]
      l == queue[into[c]][time2slot(release[t])]
  IN heap' = [heap EXCEPT ![l[position(l, release[t])]] = @ \cup {t}]

-----------------------------------------------------------------------------
(* add_release()                                                           *)

\* The plugin requeues task t, which is not released before r, with the
\* ready queue of the domain locked.
add_release(c, t, d, r) ==
  /\ Open(c) /\ t \in held /\ ready_lock[d] = NO_CPU
  /\ r \in (now + 1) .. MaxTime
  /\ ready_lock' = [ready_lock EXCEPT ![d] = c]
  /\ target_cpu' = [target_cpu EXCEPT ![c] = NO_CPU]
  /\ held' = held \ {t}
  /\ release' = [release EXCEPT ![t] = r]
  /\ cur' = [cur EXCEPT ![c] = t]
  /\ into' = [into EXCEPT ![c] = d]
  /\ goto(c, "add")
  /\ UNCHANGED <<now, ready, heapVars, timerVars, allocated, tobe_lock, panic>>

\* The plugin moves task t to the domain of another processor, whose timer
\* shall fire there; no ready queue is locked.
add_release_on(c, t, d, r) ==
  /\ Open(c) /\ t \in held
  /\ r \in (now + 1) .. MaxTime
  /\ target_cpu' = [target_cpu EXCEPT ![c] = cpu_of[d]]
  /\ held' = held \ {t}
  /\ release' = [release EXCEPT ![t] = r]
  /\ cur' = [cur EXCEPT ![c] = t]
  /\ into' = [into EXCEPT ![c] = d]
  /\ goto(c, "add")
  /\ UNCHANGED <<now, ready, heapVars, timerVars, allocated, lockVars, panic>>

\* arm_release_timer() with tobe_lock: the first call of get_release_heap().
get_release_heap(c) ==
  LET d == into[c]
      r == release[cur[c]]
  IN /\ pc[c] = "add" /\ tobe_lock[d] = NO_CPU
     /\ tobe_lock' = [tobe_lock EXCEPT ![d] = c]
     /\ IF matches(queue[d][time2slot(r)], r)
        THEN insert_into_found(c) /\ goto(c, "unlock")
        ELSE UNCHANGED heap /\ goto(c, "reinit")
     /\ UNCHANGED <<now, held, release, ready, queue, release_time, dom,
                    timerVars, allocated, cur, into, target_cpu, ready_lock,
                    panic>>

\* BUG_ON(hrtimer_cancel()): waits until the callback of the timer, if it
\* runs, has returned, and must not find the timer armed.
reinit_release_heap(c) ==
  LET h == cur[c]
  IN /\ pc[c] = "reinit" /\ timer[h] # "running"
     /\ BugOn(timer[h] = "armed")
     /\ timer' = [timer EXCEPT ![h] = IF @ = "armed" THEN "inactive" ELSE @]
     /\ heap' = [heap EXCEPT ![h] = {}]
     /\ in_use' = in_use \ {h}
     /\ goto(c, "insert")
     /\ UNCHANGED <<now, held, release, ready, queue, release_time, dom,
                    timer_cpu, pull, allocated, cur, into, target_cpu, lockVars>>

\* Mutant: rh->release_time keeps its value.
use_task_heap_stale(c) ==
  LET t == cur[c]
      d == into[c]
      s == time2slot(release[t])
      l == queue[d][s]
      k == position(l, release[t])
  IN /\ pc[c] = "insert"
     /\ queue' = [queue EXCEPT ![d][s] = list_add(l, k, t)]
     /\ dom' = [dom EXCEPT ![t] = d]
     /\ heap' = [heap EXCEPT ![t] = @ \cup {t}]
     /\ goto(c, "arm")
     /\ UNCHANGED <<now, held, release, ready, release_time, timerVars, allocated,
                    cur, into, target_cpu, lockVars, panic>>

\* The second call of get_release_heap(), which may use the task's own heap.
use_task_heap(c) ==
  LET t == cur[c]
      d == into[c]
      s == time2slot(release[t])
      l == queue[d][s]
      k == position(l, release[t])
  IN /\ pc[c] = "insert"
     /\ IF matches(l, release[t])
        THEN /\ insert_into_found(c) /\ goto(c, "unlock")
             /\ UNCHANGED <<queue, release_time, dom>>
        ELSE /\ queue' = [queue EXCEPT ![d][s] = list_add(l, k, t)]
             /\ release_time' = [release_time EXCEPT ![t] = release[t]]
             /\ dom' = [dom EXCEPT ![t] = d]
             /\ heap' = [heap EXCEPT ![t] = @ \cup {t}]
             /\ goto(c, "arm")
     /\ UNCHANGED <<now, held, release, ready, timerVars, allocated, cur, into,
                    target_cpu, lockVars, panic>>

\* Starts the timer on processor `to', or puts it on the to_pull list there
\* and sends an interrupt if the list was empty.
hrtimer_start_on(c, h, to) ==
  /\ in_use' = in_use \cup {h}
  /\ IF h \in in_use THEN UNCHANGED <<timer, timer_cpu, pull>>
     ELSE /\ timer' = [timer EXCEPT ![h] = IF to = c THEN "armed" ELSE "pull"]
          /\ timer_cpu' = [timer_cpu EXCEPT ![h] = to]
          /\ pull' = IF to # c /\ ~\E g \in Task : timer[g] = "pull" /\ timer_cpu[g] = to
                     THEN pull \cup {to} ELSE pull

\* The owner of the heap arms its timer.
arm_release_timer(c) ==
  LET h == cur[c]
      to == IF target_cpu[c] # NO_CPU THEN target_cpu[c] ELSE release_master
  IN /\ pc[c] = "arm"
     /\ IF to = NO_CPU
        THEN /\ timer' = [timer EXCEPT ![h] = "armed"]
             /\ timer_cpu' = [timer_cpu EXCEPT ![h] = c]
             /\ UNCHANGED <<in_use, pull>>
        ELSE hrtimer_start_on(c, h, to)
     /\ goto(c, "unlock")
     /\ UNCHANGED <<now, held, release, ready, heapVars, allocated, cur, into,
                    target_cpu, lockVars, panic>>

\* tobe_lock, and ready_lock if the caller holds it, are dropped.
add_release_done(c) ==
  LET d == into[c]
  IN /\ pc[c] = "unlock"
     /\ tobe_lock' = [tobe_lock EXCEPT ![d] = NO_CPU]
     /\ ready_lock' = [ready_lock EXCEPT ![d] = IF @ = c THEN NO_CPU ELSE @]
     /\ return(c)
     /\ UNCHANGED <<now, held, release, ready, heapVars, timerVars, allocated,
                    panic>>

-----------------------------------------------------------------------------
(* Timers                                                                  *)

\* The interrupt on c that starts all timers sent to it.
hrtimer_pull(c) ==
  /\ Open(c) /\ c \in pull
  /\ pull' = pull \ {c}
  /\ timer' = [h \in Task |-> IF timer[h] = "pull" /\ timer_cpu[h] = c
                              THEN "armed" ELSE timer[h]]
  /\ UNCHANGED <<now, held, release, ready, heapVars, timer_cpu, in_use,
                 allocated, cpuVars, lockVars, panic>>

\* A timer expires on the processor on which it was started.
hrtimer_interrupt(c, h) ==
  /\ Open(c) /\ timer[h] = "armed" /\ timer_cpu[h] = c /\ release_time[h] <= now
  /\ timer' = [timer EXCEPT ![h] = "running"]
  /\ cur' = [cur EXCEPT ![c] = h]
  /\ goto(c, "fired")
  /\ UNCHANGED <<now, held, release, ready, heapVars, timer_cpu, in_use, pull,
                 allocated, into, target_cpu, lockVars, panic>>

\* Mutant: the timer is restarted unless the release time has passed.
on_release_timer_strict(c) ==
  LET h == cur[c]
      s == time2slot(release_time[h])
  IN /\ pc[c] = "fired"
     /\ IF release_time[h] < now
        THEN /\ queue' = [queue EXCEPT ![dom[h]][s] = list_del(@, h)]
             /\ goto(c, "dequeued")
             /\ UNCHANGED <<timer, cur, into, target_cpu>>
        ELSE /\ timer' = [timer EXCEPT ![h] = "armed"]
             /\ return(c)
             /\ UNCHANGED queue
     /\ UNCHANGED <<now, held, release, ready, heap, release_time, dom, timer_cpu,
                    in_use, pull, allocated, lockVars, panic>>

\* The callback first takes the heap off its list.
on_release_timer(c) ==
  LET h == cur[c]
      s == time2slot(release_time[h])
  IN /\ pc[c] = "fired"
     /\ queue' = [queue EXCEPT ![dom[h]][s] = list_del(@, h)]
     /\ goto(c, "dequeued")
     /\ UNCHANGED <<now, held, release, ready, heap, release_time, dom,
                    timerVars, allocated, cur, into, target_cpu, lockVars, panic>>

\* Mutant: the tasks stay in the release heap.
release_jobs_keeps(c) ==
  LET d == dom[cur[c]]
  IN /\ pc[c] = "dequeued" /\ ready_lock[d] = NO_CPU
     /\ ready' = [ready EXCEPT ![d] = @ \cup heap[cur[c]]]
     /\ goto(c, "merged")
     /\ UNCHANGED <<now, held, release, heapVars, timerVars, allocated, cur,
                    into, target_cpu, lockVars, panic>>

\* rt->release_jobs(): its tasks are merged into the ready queue.
release_jobs(c) ==
  LET d == dom[cur[c]]
  IN /\ pc[c] = "dequeued" /\ ready_lock[d] = NO_CPU
     /\ ready' = [ready EXCEPT ![d] = @ \cup heap[cur[c]]]
     /\ heap' = [heap EXCEPT ![cur[c]] = {}]
     /\ goto(c, "merged")
     /\ UNCHANGED <<now, held, release, queue, release_time, dom, timerVars,
                    allocated, cur, into, target_cpu, lockVars, panic>>

\* return HRTIMER_NORESTART
callback_done(c) ==
  /\ pc[c] = "merged"
  /\ timer' = [timer EXCEPT ![cur[c]] = "inactive"]
  /\ timer_cpu' = [timer_cpu EXCEPT ![cur[c]] = NO_CPU]
  /\ return(c)
  /\ UNCHANGED <<now, held, release, ready, heapVars, in_use, pull,
                 allocated, lockVars, panic>>

-----------------------------------------------------------------------------
(* The rest of the plugin                                                  *)

take_ready(c, t, d) ==
  /\ Open(c) /\ ready_lock[d] = NO_CPU /\ t \in ready[d]
  /\ ready' = [ready EXCEPT ![d] = @ \ {t}]
  /\ held' = held \cup {t}
  /\ UNCHANGED <<now, release, heapVars, timerVars, allocated, cpuVars,
                 lockVars, panic>>

\* A released job is requeued.
add_ready(c, t, d) ==
  /\ Open(c) /\ ready_lock[d] = NO_CPU /\ t \in held /\ release[t] <= now
  /\ BugOn(is_queued(t))
  /\ ready' = [ready EXCEPT ![d] = @ \cup {t}]
  /\ held' = held \ {t}
  /\ UNCHANGED <<now, release, heapVars, timerVars, allocated, cpuVars, lockVars>>

\* litmus_admit_task(): a new release heap is allocated; info.state is not
\* initialized.
admit_task(c, t) ==
  /\ Open(c) /\ t \notin allocated
  /\ allocated' = allocated \cup {t}
  /\ timer' = [timer EXCEPT ![t] = "inactive"]
  /\ heap' = [heap EXCEPT ![t] = {}]
  /\ held' = held \cup {t}
  /\ \E garbage \in SUBSET {t} : in_use' = (in_use \ {t}) \cup garbage
  /\ UNCHANGED <<now, release, ready, queue, release_time, dom, timer_cpu,
                 pull, cpuVars, lockVars, panic>>

\* litmus_exit_task() of a running task.
exit_task(c, t) ==
  /\ Open(c) /\ t \in held
  /\ BugOn(is_queued(t))
  /\ held' = held \ {t}
  /\ cur' = [cur EXCEPT ![c] = t]
  /\ goto(c, "free")
  /\ UNCHANGED <<now, release, ready, heapVars, timerVars, allocated, into,
                 target_cpu, lockVars>>

\* Mutant: the heap is freed without hrtimer_cancel().
release_heap_free_now(c) ==
  /\ pc[c] = "free"
  /\ allocated' = allocated \ {cur[c]}
  /\ return(c)
  /\ UNCHANGED <<now, held, release, ready, heapVars, timerVars, lockVars,
                 panic>>

\* hrtimer_cancel() "makes sure timer is no longer in use".
release_heap_free(c) ==
  /\ pc[c] = "free" /\ timer[cur[c]] # "running"
  /\ timer' = [timer EXCEPT ![cur[c]] = IF @ = "armed" THEN "inactive" ELSE @]
  /\ allocated' = allocated \ {cur[c]}
  /\ return(c)
  /\ UNCHANGED <<now, held, release, ready, heapVars, timer_cpu, in_use, pull,
                 lockVars, panic>>

clock ==
  /\ now < MaxTime
  /\ now' = now + 1
  /\ UNCHANGED <<held, release, ready, heapVars, timerVars, allocated, cpuVars,
                 lockVars, panic>>

-----------------------------------------------------------------------------
Init ==
  /\ now = 0
  /\ held = {} /\ allocated = {}
  /\ release = [t \in Task |-> 0]
  /\ ready = [d \in Domain |-> {}]
  /\ queue = [d \in Domain |-> [s \in Slot |-> <<>>]]
  /\ heap = [h \in Task |-> {}]
  /\ release_time = [h \in Task |-> 0]
  /\ dom = [h \in Task |-> NULL]
  /\ timer = [h \in Task |-> "inactive"]
  /\ timer_cpu = [h \in Task |-> NO_CPU]
  /\ in_use = {} /\ pull = {}
  /\ pc = [c \in CPU |-> "idle"]
  /\ cur = [c \in CPU |-> NULL] /\ into = [c \in CPU |-> NULL]
  /\ target_cpu = [c \in CPU |-> NO_CPU]
  /\ ready_lock = [d \in Domain |-> NO_CPU]
  /\ tobe_lock = [d \in Domain |-> NO_CPU]
  /\ panic = FALSE

\* What a processor does next when it is inside add_release(), a timer
\* callback or release_heap_free().
Continue(c) ==
  \/ get_release_heap(c)
  \/ reinit_release_heap(c)
  \/ use_task_heap(c)
  \/ arm_release_timer(c)
  \/ add_release_done(c)
  \/ on_release_timer(c)
  \/ release_jobs(c)
  \/ callback_done(c)
  \/ release_heap_free(c)

Plugin(c, t) ==
  \/ admit_task(c, t)
  \/ exit_task(c, t)
  \/ \E d \in Domain :
       \/ take_ready(c, t, d)
       \/ add_ready(c, t, d)
       \/ \E r \in 1 .. MaxTime : add_release(c, t, d, r) \/ add_release_on(c, t, d, r)

\* Nothing follows a BUG().
Next ==
  /\ ~panic
  /\ \/ \E c \in CPU :
          \/ Continue(c)
          \/ hrtimer_pull(c)
          \/ \E t \in Task : Plugin(c, t) \/ hrtimer_interrupt(c, t)
     \/ clock

Spec == Init /\ [][Next]_vars

\* Handlers run to completion, the spinlocks are ticket locks, and a pending
\* interrupt is taken as soon as interrupts are enabled.
Fairness ==
  \A c \in CPU :
    /\ SF_vars(Continue(c))
    /\ SF_vars(hrtimer_pull(c) \/ \E h \in Task : hrtimer_interrupt(c, h))

FairSpec == Spec /\ Fairness

-----------------------------------------------------------------------------
(* Properties                                                              *)

\* Types of the variables.
TypeOK ==
  /\ now \in Nat
  /\ held \subseteq Task /\ allocated \subseteq Task
  /\ release \in [Task -> Nat]
  /\ ready \in [Domain -> SUBSET Task]
  /\ queue \in [Domain -> [Slot -> Seq(Task)]]
  /\ heap \in [Task -> SUBSET Task]
  /\ release_time \in [Task -> Nat]
  /\ dom \in [Task -> Domain \cup {NULL}]
  /\ timer \in [Task -> {"inactive", "pull", "armed", "running"}]
  /\ timer_cpu \in [Task -> CPU \cup {NO_CPU}]
  /\ in_use \subseteq Task /\ pull \subseteq CPU
  /\ pc \in [CPU -> {"idle", "add", "reinit", "insert", "arm", "unlock",
                     "fired", "dequeued", "merged", "free"}]
  /\ cur \in [CPU -> Task \cup {NULL}] /\ into \in [CPU -> Domain \cup {NULL}]
  /\ target_cpu \in [CPU -> CPU \cup {NO_CPU}]
  /\ ready_lock \in [Domain -> CPU \cup {NO_CPU}]
  /\ tobe_lock \in [Domain -> CPU \cup {NO_CPU}]
  /\ panic \in BOOLEAN

\* c carries a task that is in no queue: on its way into a release heap, or
\* on its way out of real-time mode.
Adding(c) == pc[c] \in {"add", "reinit", "insert"}
Carries(c) == Adding(c) \/ pc[c] = "free"

\* The variables have their types, and a real-time task is in the hands of the
\* plugin, or of one processor that moves it, or in one release heap, or in one
\* ready queue, and never in two of these, although its own heap, which others
\* use too, is taken from it and given back by timer callbacks elsewhere.
OnePlace ==
  /\ TypeOK
  /\ \A t, g, h \in Task : t \in heap[g] \cap heap[h] => g = h
  /\ \A t \in Task, d, e \in Domain : t \in ready[d] \cap ready[e] => d = e
  /\ \A b, c \in CPU : Carries(b) /\ Carries(c) /\ cur[b] = cur[c] => b = c
  /\ \A t \in Task : ~((\E h \in Task : t \in heap[h]) /\ \E d \in Domain : t \in ready[d])
  /\ \A t \in Task : is_queued(t) => t \notin held /\ \A c \in CPU : Carries(c) => cur[c] # t
  /\ \A c \in CPU : Carries(c) => cur[c] \notin held
  /\ \A t \in Task :
       t \in allocated <=> is_queued(t) \/ t \in held \/ \E c \in CPU : Carries(c) /\ cur[c] = t


\* The lists are sorted by time without duplicates, which the search relies
\* on; a listed heap contains its owner, belongs to this list, and is used
\* only by tasks with its release time.
QueueSorted ==
  \A d \in Domain, s \in Slot :
    LET l == queue[d][s]
    IN /\ \A i, j \in 1 .. Len(l) : i < j => release_time[l[i]] < release_time[l[j]]
       /\ \A i \in 1 .. Len(l) :
            /\ dom[l[i]] = d /\ time2slot(release_time[l[i]]) = s
            /\ l[i] \in heap[l[i]]
            /\ \A t \in heap[l[i]] : release[t] = release_time[l[i]]

\* Tasks in a release heap can rely on its timer: it is armed, or its
\* processor has been told to arm it, or its owner is about to, or its
\* callback will still release them.
Triggered ==
  \A h \in Task : heap[h] # {} =>
    \/ timer[h] = "armed"
    \/ timer[h] = "pull" /\ timer_cpu[h] \in pull
    \/ \E c \in CPU : cur[c] = h /\ pc[c] \in {"arm", "fired", "dequeued"}

\* A processor that waits in hrtimer_cancel(), with tobe_lock and ready_lock
\* held, waits for a callback that needs no lock any more.
CancelEnds ==
  \A c \in CPU : pc[c] \in {"reinit", "free"} /\ timer[cur[c]] = "running" =>
    \E b \in CPU : pc[b] = "merged" /\ cur[b] = cur[c]

\* The search finds the right heap, what it finds will be released, and no
\* timer is cancelled while its callback needs a lock of the one who cancels.
QueueSound == QueueSorted /\ Triggered /\ CancelEnds

\* No BUG_ON() fires (a task never finds its own timer armed when it needs its
\* release heap again, and tasks enter and leave while in no heap), and no
\* list, timer or callback refers to a release heap that litmus_exit_task()
\* has freed.
NoDangling ==
  /\ ~panic
  /\ \A h \in Task \ allocated :
       /\ timer[h] = "inactive" /\ heap[h] = {}
       /\ \A d \in Domain, s \in Slot :
            \A i \in 1 .. Len(queue[d][s]) : queue[d][s][i] # h

\* Tasks that wait for their release, seen from the plugins.
waiting ==
  [d \in Domain |->
     {cur[c] : c \in {b \in CPU : Adding(b) /\ into[b] = d}}
       \cup UNION {heap[h] : h \in {g \in Task : dom[g] = d}}]

Abstract == INSTANCE ReleaseQueue

\* With all its heaps, timers and locks, the domain behaves like a queue in
\* which a job waits exactly until a time not before its release.
ImplementsReleaseQueue == Abstract!Spec

\* A job whose release time has come is released.
ReleaseHappens ==
  \A t \in Task :
    LET Waits == \E d \in Domain : t \in waiting[d]
    IN (Waits /\ release[t] <= now) ~> ~Waits

-----------------------------------------------------------------------------
(* The inductive invariant behind OnePlace, QueueSound and NoDangling.     *)

\* The heaps that hang in the list of their domain and time.
Listed ==
  {h \in Task :
     /\ dom[h] \in Domain
     /\ LET l == queue[dom[h]][time2slot(release_time[h])]
        IN \E i \in 1 .. Len(l) : l[i] = h}

\* c owns the timer of the heap it is at work on.
Owning(c) == pc[c] \in {"arm", "fired", "dequeued", "merged"}

\* The program counters and what they are about.
Counters ==
  /\ \A c \in CPU : pc[c] # "idle" => cur[c] \in Task
  /\ \A c \in CPU : pc[c] \in {"add", "reinit", "insert", "arm", "unlock"} => into[c] \in Domain
  /\ \A b, c \in CPU : Owning(b) /\ Owning(c) /\ cur[b] = cur[c] => b = c

\* A heap is used only together with its owner, for jobs of one release time,
\* until its callback empties it.
HeapUse ==
  \A h \in Task : heap[h] # {} =>
    /\ h \in heap[h] /\ dom[h] \in Domain
    /\ \A t \in heap[h] : release[t] = release_time[h]
    /\ h \in Listed \/ \E c \in CPU : pc[c] = "dequeued" /\ cur[c] = h

\* A timer is started only for a listed heap, and runs only in its callback.
TimerUse ==
  \A h \in Task :
    /\ timer[h] \in {"armed", "pull"} => h \in Listed
    /\ timer[h] = "pull" => timer_cpu[h] \in pull
    /\ timer[h] = "running" <=> \E c \in CPU : cur[c] = h /\ pc[c] \in {"fired", "dequeued", "merged"}

\* What a processor knows about the heap it is at work on.
AtWork ==
  \A c \in CPU :
    LET h == cur[c]
    IN /\ pc[c] = "insert" => timer[h] = "inactive" /\ h \notin in_use
       /\ pc[c] = "arm" => timer[h] = "inactive" /\ h \notin in_use /\ h \in Listed
       /\ pc[c] = "fired" => h \in Listed /\ release_time[h] <= now
       /\ pc[c] = "dequeued" => h \notin Listed /\ heap[h] # {} /\ release_time[h] <= now
       /\ pc[c] = "merged" => heap[h] = {} /\ h \in allocated

IInv ==
  /\ OnePlace /\ QueueSorted /\ Triggered /\ Counters /\ HeapUse /\ TimerUse /\ AtWork
  /\ ~panic
=============================================================================
