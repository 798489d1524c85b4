---------------------------- MODULE GSNEDF_proofs ----------------------------
(***************************************************************************)
(* Proofs about GSNEDF: the inductive invariant IInv holds for any number  *)
(* of tasks and processors, any periods and any mixture of enforced,       *)
(* completing, suspending, non-preemptive and leaving tasks.               *)
(***************************************************************************)
EXTENDS GSNEDF, FiniteSetTheorems, WellFoundedInduction, TLAPS

\* What is assumed of the environment: tasks are admitted while they run or
\* while they are runnable, a task leaves by itself or after its death, and
\* a processor waits for the stack of a task it pulls however long it takes.
\* Without the first two NoPanic does not hold (see the README); an expired
\* spin limit leaves scheduled_on ahead of the context switch for good, which
\* ScheduledOnFollows excludes.
SupportedUse ==
  /\ AdmitModes \subseteq {"running", "runnable"}
  /\ RemoteExit = FALSE
  /\ SpinTimeout = FALSE

USE DEF jobVars, taskVars, queueVars, linkVars, schedVars, switchVars, sigVars

-----------------------------------------------------------------------------
(* Facts about the operators that the actions share                        *)

\* link_task_to_cpu() of a task that is not linked keeps linked and linked_on
\* inverse to each other and links no task away from where it is scheduled;
\* it links only t and takes the link from what was linked to c.
LEMMA Linking ==
  ASSUME NEW t \in Task, NEW c \in CPU,
         TypeOK, LinksAgree, LinkedWhereScheduled, ScheduledOnFollows,
         linked_on[t] = NO_CPU, link_task_to_cpu(t, c), UNCHANGED scheduled_on
  PROVE  /\ linked' \in [CPU -> Task \cup {NULL}]
         /\ linked_on' \in [Task -> CPU \cup {NO_CPU}]
         /\ flags' \in [Task -> {"RUNNING", "SLEEP"}]
         /\ LinksAgree'
         /\ LinkedWhereScheduled'
         /\ \A u \in Task \ {t} : linked_on[u] = NO_CPU => linked_on'[u] = NO_CPU
         /\ linked[c] # NULL => linked_on'[linked[c]] = NO_CPU
<1> DEFINE s     == scheduled_on[t]
           swap  == s # NO_CPU /\ s # c
           moved == IF swap THEN linked[s] ELSE t
<1>0. /\ \A d \in CPU : linked'[d] = IF d = c THEN moved
                           ELSE IF swap /\ d = s THEN t ELSE linked[d]
      /\ \A u \in Task : linked_on'[u] = IF u = moved THEN c
                           ELSE IF u = t THEN s
                           ELSE IF u = linked[c] THEN NO_CPU
                           ELSE linked_on[u]
      /\ s \in CPU \cup {NO_CPU} /\ moved \in Task \cup {NULL}
      /\ c # NO_CPU /\ NULL \notin Task
  BY ConstantsAssumption DEF link_task_to_cpu, TypeOK
<1>1. /\ linked' \in [CPU -> Task \cup {NULL}]
      /\ linked_on' \in [Task -> CPU \cup {NO_CPU}]
      /\ flags' \in [Task -> {"RUNNING", "SLEEP"}]
  BY <1>0 DEF link_task_to_cpu, TypeOK
<1>2. \A d \in CPU : linked[d] # t
  BY ConstantsAssumption DEF LinksAgree
<1>3. moved # NULL /\ moved # t => linked_on[moved] = s /\ s # c /\ s \in CPU
  BY <1>0 DEF LinksAgree
<1>4. LinksAgree'
  BY <1>0, <1>1, <1>2, <1>3 DEF LinksAgree, TypeOK
<1>5. moved # NULL /\ moved # t => scheduled_on[moved] = NO_CPU
  BY <1>0, <1>3 DEF LinkedWhereScheduled, ScheduledOnFollows, TypeOK
<1>6. LinkedWhereScheduled'
  <2> SUFFICES ASSUME NEW u \in Task, scheduled_on[u] # NO_CPU,
                      linked_on'[u] # NO_CPU
               PROVE  linked_on'[u] = scheduled_on[u]
    BY DEF LinkedWhereScheduled
  <2>1. CASE u = moved
    BY <2>1, <1>0, <1>2, <1>5
  <2>2. CASE u # moved
    BY <2>2, <1>0 DEF LinkedWhereScheduled
  <2>3. QED BY <2>1, <2>2
<1>7. \A u \in Task \ {t} : linked_on[u] = NO_CPU => linked_on'[u] = NO_CPU
  BY <1>0, <1>3
<1>8. linked[c] # NULL => linked_on'[linked[c]] = NO_CPU
  BY <1>0, <1>2, <1>3 DEF LinksAgree, TypeOK
<1>9. QED BY <1>1, <1>4, <1>6, <1>7, <1>8


\* unlink() of a task withdraws its link and no other one.
LEMMA Unlinking ==
  ASSUME NEW t \in Task, TypeOK, LinksAgree, unlinked(t)
  PROVE  /\ linked' \in [CPU -> Task \cup {NULL}]
         /\ linked_on' \in [Task -> CPU \cup {NO_CPU}]
         /\ LinksAgree'
         /\ linked_on'[t] = NO_CPU
         /\ \A u \in Task \ {t} : linked_on'[u] = linked_on[u]
<1>1. /\ linked' \in [CPU -> Task \cup {NULL}]
      /\ linked_on' \in [Task -> CPU \cup {NO_CPU}]
      /\ linked_on'[t] = NO_CPU
      /\ \A u \in Task \ {t} : linked_on'[u] = linked_on[u]
      /\ \A d \in CPU : linked'[d] = IF d = linked_on[t] THEN NULL ELSE linked[d]
  BY DEF unlinked, TypeOK
<1>2. LinksAgree'
  BY <1>1, ConstantsAssumption DEF LinksAgree, TypeOK
<1>3. QED BY <1>1, <1>2

\* A task is current on one processor, picked by one processor, and not
\* picked by any while it is current on one that has not decided yet.
LEMMA UniqueTasks ==
  ASSUME IInv
  PROVE  \A t \in Task, c, d \in CPU :
           /\ curr[c] = t /\ curr[d] = t => c = d
           /\ next[c] = t /\ next[d] = t => c = d
           /\ curr[c] = t /\ ~Switching(c) => next[d] # t
<1> SUFFICES ASSUME NEW t \in Task, NEW c \in CPU, NEW d \in CPU
             PROVE  /\ curr[c] = t /\ curr[d] = t => c = d
                    /\ next[c] = t /\ next[d] = t => c = d
                    /\ curr[c] = t /\ ~Switching(c) => next[d] # t
  OBVIOUS
<1>1. \A b \in CPU : next[b] = t => Switching(b) /\ scheduled_on[t] = b
  BY ConstantsAssumption DEF IInv, NextReady, NextReadyAt, ScheduledOnFollows
<1>2. curr[c] = t /\ ~Switching(c) => scheduled_on[t] = c
  BY DEF IInv, ScheduledOnFollows
<1>3. curr[c] = t /\ curr[d] = t => c = d
  BY DEF IInv, StackOwner
<1>4. QED BY <1>1, <1>2, <1>3

\* gsnedf_task_wake_up() of a task that is nowhere: its current job has been
\* released already, so that it always goes to the ready queue.
LEMMA Arrival ==
  ASSUME NEW t \in Task, NEW e \in CPU, TypeOK, Released,
         t \in rt, ~is_queued(t), task_wake_up(t, e)
  PROVE  /\ ready' = ready \cup {t} /\ relq' = relq
         /\ panic' = panic
         /\ lock' = [pc |-> "check", cpu |-> e, go |-> FALSE]
         /\ release'[t] <= now /\ \A u \in Task \ {t} : release'[u] = release[u]
         /\ flags' \in [Task -> {"RUNNING", "SLEEP"}]
         /\ release' \in [Task -> Nat] /\ deadline' \in [Task -> Nat]
         /\ exhausted' \subseteq Task /\ owed' \subseteq Task
<1>1. release[t] <= now /\ now <= now
  BY DEF Released, TypeOK, is_queued
<1>2. /\ ready' = ready \cup {t} /\ relq' = relq /\ panic' = panic
      /\ lock' = [pc |-> "check", cpu |-> e, go |-> FALSE]
  BY <1>1 DEF task_wake_up, job_arrival, is_released, BugOn, TypeOK
<1>3. CASE deadline[t] <= now
  <2>1. Period[t] \in Nat
    BY ConstantsAssumption
  <2>2. release' = [release EXCEPT ![t] = now]
    BY <1>3 DEF task_wake_up, release_at, prepare_for_next_period
  <2>3. /\ flags' \in [Task -> {"RUNNING", "SLEEP"}] /\ deadline' \in [Task -> Nat]
        /\ exhausted' \subseteq Task /\ owed' \subseteq Task
    BY <1>3, <2>1
       DEF task_wake_up, release_at, prepare_for_next_period, TypeOK
  <2>4. QED BY <1>1, <1>2, <2>2, <2>3 DEF TypeOK
<1>4. CASE ~(deadline[t] <= now)
  BY <1>1, <1>2, <1>4 DEF task_wake_up, TypeOK
<1>5. QED BY <1>3, <1>4

-----------------------------------------------------------------------------
(* Every action preserves the invariant                                    *)

\* Time passes: what was released stays released.
LEMMA ClockStep ==
  ASSUME IInv, clock
  PROVE  IInv'
<1>1. TypeOK'
  BY DEF clock, IInv, TypeOK
<1>2. Released'
  BY DEF clock, IInv, TypeOK, Released
<1>3. LinksAgree' /\ OnePlace' /\ LinkedWhereScheduled' /\ NoPanic' /\
      PlacedRuns' /\ EntryFollows' /\ StackOwner' /\ ScheduledOnFollows' /\
      NextReady' /\ LockOwner' /\ ResimUnplaced' /\ WaitingLeaves'
  BY DEF clock, IInv, LinksAgree, OnePlace, LinkedWhereScheduled, NoPanic,
         PlacedRuns, EntryFollows, StackOwner, ScheduledOnFollows, NextReady,
         LockOwner, ResimUnplaced, WaitingLeaves, is_queued, Switching,
         NextReadyAt, Free
<1>4. QED BY <1>1, <1>2, <1>3 DEF IInv

\* The budget of the current task runs out.
LEMMA ExhaustStep ==
  ASSUME NEW c \in CPU, IInv, exhaust(c)
  PROVE  IInv'
<1>1. curr[c] \in Task
  BY ConstantsAssumption DEF exhaust, IInv, TypeOK
<1>2. TypeOK'
  BY <1>1 DEF exhaust, IInv, TypeOK
<1>3. LinksAgree' /\ OnePlace' /\ LinkedWhereScheduled' /\ NoPanic' /\
      PlacedRuns' /\ EntryFollows' /\ StackOwner' /\ ScheduledOnFollows' /\
      NextReady' /\ LockOwner' /\ ResimUnplaced' /\ WaitingLeaves' /\
      Released'
  BY DEF exhaust, IInv, LinksAgree, OnePlace, LinkedWhereScheduled, NoPanic,
         PlacedRuns, EntryFollows, StackOwner, ScheduledOnFollows, NextReady,
         LockOwner, ResimUnplaced, WaitingLeaves, Released, is_queued,
         Switching, NextReadyAt, Free
<1>4. QED BY <1>2, <1>3 DEF IInv

\* The tick only raises need_resched or the delayed preemption.
LEMMA TickStep ==
  ASSUME NEW c \in CPU, IInv, tick(c)
  PROVE  IInv'
<1>1. curr[c] \in Task
  BY ConstantsAssumption DEF tick, IInv, TypeOK
<1>2. TypeOK'
  BY <1>1 DEF tick, IInv, TypeOK
<1>3. LinksAgree' /\ OnePlace' /\ LinkedWhereScheduled' /\ NoPanic' /\
      PlacedRuns' /\ EntryFollows' /\ StackOwner' /\ ScheduledOnFollows' /\
      NextReady' /\ LockOwner' /\ ResimUnplaced' /\ WaitingLeaves' /\
      Released'
  BY DEF tick, IInv, LinksAgree, OnePlace, LinkedWhereScheduled, NoPanic,
         PlacedRuns, EntryFollows, StackOwner, ScheduledOnFollows, NextReady,
         LockOwner, ResimUnplaced, WaitingLeaves, Released, is_queued,
         Switching, NextReadyAt, Free
<1>4. QED BY <1>2, <1>3 DEF IInv

\* The reschedule interrupt only raises need_resched.
LEMMA RescheduleInterruptStep ==
  ASSUME NEW c \in CPU, IInv, reschedule_interrupt(c)
  PROVE  IInv'
<1>1. TypeOK'
  BY DEF reschedule_interrupt, IInv, TypeOK, Current
<1>2. LinksAgree' /\ OnePlace' /\ LinkedWhereScheduled' /\ NoPanic' /\
      PlacedRuns' /\ EntryFollows' /\ StackOwner' /\ ScheduledOnFollows' /\
      NextReady' /\ LockOwner' /\ ResimUnplaced' /\ WaitingLeaves' /\
      Released'
  BY DEF reschedule_interrupt, IInv, LinksAgree, OnePlace,
         LinkedWhereScheduled, NoPanic, PlacedRuns, EntryFollows, StackOwner,
         ScheduledOnFollows, NextReady, LockOwner, ResimUnplaced,
         WaitingLeaves, Released, is_queued, Switching, NextReadyAt, Free
<1>3. QED BY <1>1, <1>2 DEF IInv

\* A task enters a non-preemptive section.
LEMMA EnterNpStep ==
  ASSUME NEW c \in CPU, IInv, enter_np(c)
  PROVE  IInv'
<1>1. curr[c] \in Task
  BY ConstantsAssumption DEF enter_np, IInv, TypeOK
<1>2. TypeOK'
  BY <1>1 DEF enter_np, IInv, TypeOK
<1>3. LinksAgree' /\ OnePlace' /\ LinkedWhereScheduled' /\ NoPanic' /\
      PlacedRuns' /\ EntryFollows' /\ StackOwner' /\ ScheduledOnFollows' /\
      NextReady' /\ LockOwner' /\ ResimUnplaced' /\ WaitingLeaves' /\
      Released'
  BY DEF enter_np, IInv, LinksAgree, OnePlace, LinkedWhereScheduled, NoPanic,
         PlacedRuns, EntryFollows, StackOwner, ScheduledOnFollows, NextReady,
         LockOwner, ResimUnplaced, WaitingLeaves, Released, is_queued,
         Switching, NextReadyAt, Free
<1>4. QED BY <1>2, <1>3 DEF IInv

\* A task leaves its non-preemptive section.
LEMMA ExitNpStep ==
  ASSUME NEW c \in CPU, IInv, exit_np(c)
  PROVE  IInv'
<1>1. curr[c] \in Task
  BY ConstantsAssumption DEF exit_np, IInv, TypeOK
<1>2. TypeOK'
  BY <1>1 DEF exit_np, IInv, TypeOK
<1>3. LinksAgree' /\ OnePlace' /\ LinkedWhereScheduled' /\ NoPanic' /\
      PlacedRuns' /\ EntryFollows' /\ StackOwner' /\ ScheduledOnFollows' /\
      NextReady' /\ LockOwner' /\ ResimUnplaced' /\ WaitingLeaves' /\
      Released'
  BY DEF exit_np, IInv, LinksAgree, OnePlace, LinkedWhereScheduled, NoPanic,
         PlacedRuns, EntryFollows, StackOwner, ScheduledOnFollows, NextReady,
         LockOwner, ResimUnplaced, WaitingLeaves, Released, is_queued,
         Switching, NextReadyAt, Free
<1>4. QED BY <1>2, <1>3 DEF IInv

\* schedule() is entered: no decision has been taken yet.
LEMMA ScheduleStep ==
  ASSUME NEW c \in CPU, IInv, schedule(c)
  PROVE  IInv'
<1>1. TypeOK'
  BY DEF schedule, IInv, TypeOK, Current
<1>2. EntryFollows'
  BY DEF schedule, IInv, EntryFollows, Open, Busy
<1>3. ScheduledOnFollows'
  BY DEF schedule, IInv, ScheduledOnFollows, Switching, Open, Busy
<1>4. NextReady'
  BY DEF schedule, IInv, NextReady, NextReadyAt, Switching, Open, Busy
<1>5. LockOwner'
  BY DEF schedule, IInv, LockOwner, Free, Open, Busy
<1>6. ResimUnplaced'
  BY DEF schedule, IInv, ResimUnplaced, is_queued, Open, Busy
<1>7. WaitingLeaves'
  BY DEF schedule, IInv, WaitingLeaves, Switching, Open, Busy
<1>8. LinksAgree' /\ OnePlace' /\ LinkedWhereScheduled' /\ NoPanic' /\
      PlacedRuns' /\ StackOwner' /\ Released'
  BY DEF schedule, IInv, LinksAgree, OnePlace, LinkedWhereScheduled, NoPanic,
         PlacedRuns, StackOwner, Released, is_queued
<1>9. QED BY <1>1, <1>2, <1>3, <1>4, <1>5, <1>6, <1>7, <1>8 DEF IInv

\* complete_job() marks the job and enters schedule().
LEMMA CompleteJobStep ==
  ASSUME NEW c \in CPU, IInv, complete_job(c)
  PROVE  IInv'
<1>1. curr[c] \in Task
  BY ConstantsAssumption DEF complete_job, IInv, TypeOK
<1>2. TypeOK'
  BY <1>1 DEF complete_job, IInv, TypeOK
<1>3. EntryFollows'
  BY DEF complete_job, IInv, EntryFollows, Open, Busy
<1>4. ScheduledOnFollows'
  BY DEF complete_job, IInv, ScheduledOnFollows, Switching, Open, Busy
<1>5. NextReady'
  BY DEF complete_job, IInv, NextReady, NextReadyAt, Switching, Open, Busy
<1>6. LockOwner'
  BY DEF complete_job, IInv, LockOwner, Free, Open, Busy
<1>7. ResimUnplaced'
  BY DEF complete_job, IInv, ResimUnplaced, is_queued, Open, Busy
<1>8. WaitingLeaves'
  BY DEF complete_job, IInv, WaitingLeaves, Switching, Open, Busy
<1>9. LinksAgree' /\ OnePlace' /\ LinkedWhereScheduled' /\ NoPanic' /\
      PlacedRuns' /\ StackOwner' /\ Released'
  BY DEF complete_job, IInv, LinksAgree, OnePlace, LinkedWhereScheduled,
         NoPanic, PlacedRuns, StackOwner, Released, is_queued
<1>10. QED BY <1>2, <1>3, <1>4, <1>5, <1>6, <1>7, <1>8, <1>9 DEF IInv

\* The release timer moves jobs from the release queue to its heap.
LEMMA OnReleaseTimerStep ==
  ASSUME NEW c \in CPU, NEW r \in 0 .. now, IInv, on_release_timer(c, r)
  PROVE  IInv'
<1>1. TypeOK'
  BY DEF on_release_timer, IInv, TypeOK
<1>2. OnePlace'
  BY DEF on_release_timer, IInv, OnePlace, is_queued, Open, Busy
<1>3. PlacedRuns'
  BY DEF on_release_timer, IInv, PlacedRuns, is_queued, Open, Busy
<1>4. NextReady'
  BY DEF on_release_timer, IInv, NextReady, NextReadyAt, Switching, Open, Busy
<1>5. ResimUnplaced'
  BY DEF on_release_timer, IInv, TypeOK, ResimUnplaced, is_queued, Open, Busy
<1>6. WaitingLeaves'
  BY DEF on_release_timer, IInv, WaitingLeaves, Switching, Open, Busy
<1>7. Released'
  BY DEF on_release_timer, IInv, Released, Open, Busy
<1>8. LinksAgree' /\ LinkedWhereScheduled' /\ NoPanic' /\ EntryFollows' /\
      StackOwner' /\ ScheduledOnFollows' /\ LockOwner'
  BY DEF on_release_timer, IInv, LinksAgree, LinkedWhereScheduled, NoPanic,
         EntryFollows, StackOwner, ScheduledOnFollows, LockOwner, Switching,
         Free
<1>9. QED BY <1>1, <1>2, <1>3, <1>4, <1>5, <1>6, <1>7, <1>8 DEF IInv

\* gsnedf_release_jobs() makes the jobs of the heap ready.
LEMMA ReleaseJobsStep ==
  ASSUME NEW c \in CPU, IInv, release_jobs(c)
  PROVE  IInv'
<1>1. TypeOK'
  BY DEF release_jobs, IInv, TypeOK
<1>2. OnePlace'
  BY DEF release_jobs, IInv, TypeOK, OnePlace, is_queued, Free
<1>3. PlacedRuns'
  BY DEF release_jobs, IInv, PlacedRuns, is_queued, Free
<1>4. NextReady'
  BY DEF release_jobs, IInv, NextReady, NextReadyAt, Switching, Free
<1>5. LockOwner'
  BY DEF release_jobs, IInv, LockOwner, Free
<1>6. ResimUnplaced'
  BY DEF release_jobs, IInv, ResimUnplaced, is_queued, Free
<1>7. WaitingLeaves'
  BY DEF release_jobs, IInv, WaitingLeaves, Switching, Free
<1>8. LinksAgree' /\ LinkedWhereScheduled' /\ NoPanic' /\ EntryFollows' /\
      StackOwner' /\ ScheduledOnFollows' /\ Released'
  BY DEF release_jobs, IInv, LinksAgree, LinkedWhereScheduled, NoPanic,
         EntryFollows, StackOwner, ScheduledOnFollows, Released, Switching
<1>9. QED BY <1>1, <1>2, <1>3, <1>4, <1>5, <1>6, <1>7, <1>8 DEF IInv

\* check_for_preemptions() ends.
LEMMA CheckDoneStep ==
  ASSUME IInv, check_done
  PROVE  IInv'
<1>1. TypeOK'
  BY DEF check_done, IInv, TypeOK, Free
<1>2. LockOwner'
  BY DEF check_done, IInv, LockOwner, Free
<1>3. WaitingLeaves'
  BY DEF check_done, IInv, WaitingLeaves, Switching, Free
<1>4. LinksAgree' /\ OnePlace' /\ LinkedWhereScheduled' /\ NoPanic' /\
      PlacedRuns' /\ EntryFollows' /\ StackOwner' /\ ScheduledOnFollows' /\
      NextReady' /\ ResimUnplaced' /\ Released'
  BY DEF check_done, IInv, LinksAgree, OnePlace, LinkedWhereScheduled,
         NoPanic, PlacedRuns, EntryFollows, StackOwner, ScheduledOnFollows,
         NextReady, ResimUnplaced, Released, is_queued, Switching, NextReadyAt
<1>5. QED BY <1>1, <1>2, <1>3, <1>4 DEF IInv

\* One preemption: the victim returns to the ready queue (its job has been
\* released), and t is linked, possibly to where it still executes.
LEMMA CheckForPreemptionsStep ==
  ASSUME IInv, check_for_preemptions
  PROVE  IInv'
<1>0. /\ linked_on \in [Task -> CPU \cup {NO_CPU}] /\ linked \in [CPU -> Task \cup {NULL}]
  BY DEF IInv, TypeOK
<1>1. PICK c \in CPU, t \in ready :
        /\ link_task_to_cpu(t, c) /\ preempt(c, lock.cpu)
        /\ LET victim == linked[c]
               late   == victim # NULL /\ ~is_released(release[victim])
           IN /\ ready' = (ready \ {t}) \cup
                            (IF victim = NULL \/ late THEN {} ELSE {victim})
              /\ relq' = relq \cup (IF late THEN {victim} ELSE {})
              /\ BugOn(AlreadyLinked(t) \/ (victim # NULL /\ is_queued(victim)))
  BY DEF check_for_preemptions
<1> DEFINE victim == linked[c]
<1>2. t \in Task /\ victim \in Task \cup {NULL} /\ NULL \notin Task
  BY ConstantsAssumption DEF IInv, TypeOK
<1>3. linked_on[t] = NO_CPU /\ t \in rt \cap running /\ t \notin relq
      /\ \A d \in CPU : t \notin irq[d]
  BY <1>2 DEF IInv, OnePlace, PlacedRuns, is_queued
<1>4. victim # NULL => /\ linked_on[victim] = c /\ victim \in rt \cap running
                       /\ ~is_queued(victim) /\ release[victim] <= now
  <2>1. victim # NULL => linked_on[victim] = c /\ c # NO_CPU
    BY <1>2, ConstantsAssumption DEF IInv, LinksAgree
  <2>2. victim # NULL => victim \in rt \cap running /\ ~is_queued(victim)
    BY <1>2, <2>1 DEF IInv, OnePlace, PlacedRuns
  <2>3. QED BY <2>1, <2>2 DEF IInv, Released, is_queued
<1>5. /\ ready' = (ready \ {t}) \cup (IF victim = NULL THEN {} ELSE {victim})
      /\ relq' = relq
  BY <1>1, <1>4 DEF is_released
<1>6. ~AlreadyLinked(t)
  BY <1>2, <1>3 DEF IInv, TypeOK, LinksAgree, AlreadyLinked
<1>7. /\ linked' \in [CPU -> Task \cup {NULL}]
      /\ linked_on' \in [Task -> CPU \cup {NO_CPU}]
      /\ flags' \in [Task -> {"RUNNING", "SLEEP"}]
      /\ LinksAgree'
      /\ LinkedWhereScheduled'
      /\ \A u \in Task \ {t} : linked_on[u] = NO_CPU => linked_on'[u] = NO_CPU
      /\ victim # NULL => linked_on'[victim] = NO_CPU
  BY <1>1, <1>2, <1>3, Linking DEF IInv, check_for_preemptions
<1>8. TypeOK'
  <2>1. tif' \subseteq Task \cup CPU /\ ipi' \subseteq CPU /\ delayed' \subseteq Task
    BY <1>1 DEF preempt, Current, IInv, TypeOK
  <2>2. panic' \in BOOLEAN
    BY <1>1 DEF BugOn, IInv, TypeOK
  <2>3. ready' \subseteq Task
    BY <1>2, <1>5 DEF IInv, TypeOK
  <2>4. QED BY <1>5, <1>7, <2>1, <2>2, <2>3
        DEF check_for_preemptions, IInv, TypeOK
<1>9. NoPanic'
  BY <1>1, <1>4, <1>6 DEF IInv, NoPanic, BugOn
<1>10. OnePlace'
  BY <1>2, <1>3, <1>4, <1>5, <1>7
     DEF IInv, OnePlace, is_queued, check_for_preemptions
<1>11. PlacedRuns'
  BY <1>2, <1>3, <1>4, <1>5, <1>7
     DEF IInv, PlacedRuns, is_queued, check_for_preemptions
<1>12. ResimUnplaced'
  <2> SUFFICES ASSUME NEW d \in CPU, phase[d] = "resim"
               PROVE  linked_on'[curr[d]] = NO_CPU /\ ~is_queued(curr[d])'
    BY DEF ResimUnplaced, IInv, check_for_preemptions
  <2>1. curr[d] \in Task /\ linked_on[curr[d]] = NO_CPU /\ ~is_queued(curr[d])
    BY DEF IInv, TypeOK, ResimUnplaced
  <2>2. curr[d] # t /\ curr[d] # victim
    BY <1>1, <1>4, <2>1, ConstantsAssumption DEF is_queued
  <2>3. QED BY <1>5, <1>7, <2>1, <2>2 DEF is_queued, check_for_preemptions
<1>13. NextReady' /\ WaitingLeaves' /\ Released'
  BY <1>5
     DEF check_for_preemptions, IInv, NextReady, NextReadyAt, WaitingLeaves,
            Released, Switching
<1>14. EntryFollows' /\ StackOwner' /\ ScheduledOnFollows' /\ LockOwner'
  BY DEF check_for_preemptions, IInv, EntryFollows, StackOwner,
         ScheduledOnFollows, LockOwner, Switching, Free
<1>15. QED BY <1>7, <1>8, <1>9, <1>10, <1>11, <1>12, <1>13, <1>14 DEF IInv

\* gsnedf_task_new(): a task that becomes real-time is nowhere yet.
LEMMA TaskNewStep ==
  ASSUME NEW t \in Task, NEW m \in AdmitModes, NEW c \in CPU, NEW e \in CPU,
         IInv, task_new(t, m, c, e), SupportedUse
  PROVE  IInv'
<1>1. /\ t \notin rt /\ m \in {"running", "runnable"} /\ lock = Free
      /\ phase[e] = "run" /\ irq[e] = {}
      /\ m = "running" => e = c /\ curr[c] = NULL
      /\ NULL \notin Task /\ NO_CPU \notin CPU
  BY ConstantsAssumption DEF task_new, SupportedUse, Open, Busy
<1>2. linked_on[t] = NO_CPU /\ ~is_queued(t)
  BY <1>1 DEF IInv, PlacedRuns
<1>3. \A d \in CPU : curr[d] # t /\ next[d] # t /\ linked[d] # t
  BY <1>1, <1>2
     DEF IInv, EntryFollows, NextReady, NextReadyAt, LinksAgree
<1>4. scheduled_on[t] = NO_CPU /\ stack_in_use[t] = NO_CPU
  BY <1>3 DEF IInv, TypeOK, ScheduledOnFollows, StackOwner
<1>5. /\ running' = running \cup {t} /\ rt' = rt \cup {t}
      /\ ready' = ready \cup {t} /\ linked_on' = linked_on
      /\ release' = [release EXCEPT ![t] = now]
      /\ task_cpu' = [task_cpu EXCEPT ![t] = c]
      /\ lock' = [pc |-> "check", cpu |-> e, go |-> FALSE]
  BY <1>1, <1>2 DEF task_new, release_at, prepare_for_next_period, IInv, TypeOK
<1>6. IF m = "running"
      THEN /\ curr' = [curr EXCEPT ![c] = t]
           /\ scheduled' = [scheduled EXCEPT ![c] = t]
           /\ scheduled_on' = [scheduled_on EXCEPT ![t] = c]
           /\ stack_in_use' = [stack_in_use EXCEPT ![t] = c]
           /\ tif' = IF c \in tif THEN (tif \ {c}) \cup {t} ELSE tif
      ELSE UNCHANGED <<curr, scheduled, scheduled_on, stack_in_use, tif>>
  BY <1>4 DEF task_new, IInv, TypeOK
<1>7. TypeOK'
  <2>1. /\ flags' \in [Task -> {"RUNNING", "SLEEP"}]
        /\ release' \in [Task -> Nat] /\ deadline' \in [Task -> Nat]
        /\ exhausted' \subseteq Task /\ owed' \subseteq Task
    <3>1. Period[t] \in Nat
      BY ConstantsAssumption
    <3>2. QED
      BY <3>1 DEF task_new, release_at, prepare_for_next_period, IInv, TypeOK
  <2>2. /\ curr' \in [CPU -> Task \cup {NULL}]
        /\ scheduled' \in [CPU -> Task \cup {NULL}]
        /\ scheduled_on' \in [Task -> CPU \cup {NO_CPU}]
        /\ stack_in_use' \in [Task -> CPU \cup {NO_CPU}]
        /\ tif' \subseteq Task \cup CPU
    <3>1. CASE m = "running"
      <4>1. tif' \subseteq Task \cup CPU
        BY <1>6, <3>1 DEF IInv, TypeOK
      <4>2. curr' \in [CPU -> Task \cup {NULL}]
        BY <1>6, <3>1 DEF IInv, TypeOK
      <4>3. scheduled' \in [CPU -> Task \cup {NULL}]
        BY <1>6, <3>1 DEF IInv, TypeOK
      <4>4. /\ scheduled_on' \in [Task -> CPU \cup {NO_CPU}]
            /\ stack_in_use' \in [Task -> CPU \cup {NO_CPU}]
        <5>1. /\ scheduled_on \in [Task -> CPU \cup {NO_CPU}]
              /\ stack_in_use \in [Task -> CPU \cup {NO_CPU}]
          BY DEF IInv, TypeOK
        <5>2. QED BY <1>6, <3>1, <5>1
      <4>5. QED BY <4>1, <4>2, <4>3, <4>4
    <3>2. CASE m # "running"
      <4>1. UNCHANGED <<curr, scheduled, scheduled_on, stack_in_use, tif>>
        BY <1>6, <3>2
      <4>2. QED BY <4>1 DEF IInv, TypeOK
    <3>3. QED BY <3>1, <3>2
  <2>3. panic' \in BOOLEAN
    BY DEF task_new, BugOn, IInv, TypeOK
  <2>4. QED BY <1>5, <2>1, <2>2, <2>3 DEF task_new, IInv, TypeOK
<1>8. NoPanic'
  BY <1>1, <1>2 DEF task_new, BugOn, IInv, NoPanic, EntryFollows
<1>9. LinksAgree' /\ OnePlace' /\ PlacedRuns'
  BY <1>2, <1>5 DEF task_new, IInv, LinksAgree, OnePlace, PlacedRuns, is_queued
<1>10. LinkedWhereScheduled'
  BY <1>2, <1>4, <1>5, <1>6 DEF IInv, TypeOK, LinkedWhereScheduled
<1>11. EntryFollows'
  BY <1>1, <1>3, <1>5, <1>6 DEF task_new, IInv, TypeOK, EntryFollows
<1>12. StackOwner'
  BY <1>1, <1>3, <1>4, <1>6 DEF IInv, TypeOK, StackOwner
<1>13. ScheduledOnFollows'
  <2>1. CASE m = "running"
    <3>1. ~Switching(c)
      BY <1>1, <2>1 DEF Switching
    <3>2. QED BY <1>1, <1>3, <1>4, <1>6, <2>1, <3>1
          DEF task_new, IInv, TypeOK, ScheduledOnFollows, Switching
  <2>2. CASE m # "running"
    BY <1>6, <2>2 DEF task_new, IInv, ScheduledOnFollows, Switching
  <2>3. QED BY <2>1, <2>2
<1>14. NextReady'
  <2> SUFFICES ASSUME NEW d \in CPU
               PROVE  NextReadyAt(d)'
    BY DEF NextReady
  <2>1. NextReadyAt(d) /\ next[d] # t
    BY <1>3 DEF IInv, NextReady
  <2>2. /\ next'[d] = next[d] /\ phase'[d] = phase[d] /\ relq' = relq /\ irq' = irq
        /\ next[d] # NULL => /\ next[d] \in Task
                             /\ task_cpu'[next[d]] = task_cpu[next[d]]
                             /\ stack_in_use'[next[d]] = stack_in_use[next[d]]
    BY <1>5, <1>6, <2>1 DEF task_new, IInv, TypeOK
  <2>3. Switching(d) => curr'[d] = curr[d]
    BY <1>1, <1>6 DEF IInv, TypeOK, Switching
  <2>4. QED BY <1>5, <2>1, <2>2, <2>3 DEF NextReadyAt, Switching
<1>15. LockOwner'
  BY <1>5 DEF LockOwner, Free
<1>16. ResimUnplaced'
  BY <1>1, <1>3, <1>5, <1>6
     DEF task_new, IInv, TypeOK, ResimUnplaced, is_queued
<1>17. WaitingLeaves'
  <2>1. \A d \in CPU : curr'[d] = t \/ curr'[d] = curr[d]
    BY <1>6 DEF IInv, TypeOK
  <2>2. QED
    BY <1>1, <1>2, <2>1
       DEF task_new, IInv, WaitingLeaves, Switching, Free, is_queued
<1>18. Released'
  BY <1>5 DEF task_new, IInv, TypeOK, Released
<1>19. QED BY <1>7, <1>8, <1>9, <1>10, <1>11, <1>12, <1>13, <1>14, <1>15,
         <1>16, <1>17, <1>18 DEF IInv

\* gsnedf_task_exit(): the leaving task is current and undecided, or nowhere.
LEMMA TaskExitStep ==
  ASSUME NEW t \in Task, NEW e \in CPU, IInv, task_exit(t, e), SupportedUse
  PROVE  IInv'
<1>1. t \in rt /\ lock = Free /\ phase[e] = "run" /\ NULL \notin Task /\ NO_CPU \notin CPU
  BY ConstantsAssumption DEF task_exit, Open, Busy
<1>2. \/ curr[e] = t /\ scheduled_on[t] = e /\ t \in running
      \/ /\ \A d \in CPU : curr[d] # t
         /\ scheduled_on[t] = NO_CPU /\ ~is_queued(t)
  <2>1. CASE curr[e] = t
    BY <1>1, <2>1 DEF IInv, ScheduledOnFollows, EntryFollows, Switching
  <2>2. CASE curr[e] # t
    <3>1. t \notin running /\ stack_in_use[t] = NO_CPU
      BY <2>2 DEF task_exit, SupportedUse
    <3>2. \A d \in CPU : curr[d] # t /\ next[d] # t
      BY <1>1, <3>1 DEF IInv, StackOwner, NextReady, NextReadyAt
    <3>3. scheduled_on[t] = NO_CPU
      BY <3>2 DEF IInv, TypeOK, ScheduledOnFollows
    <3>4. QED BY <3>1, <3>2, <3>3 DEF IInv, PlacedRuns
  <2>3. QED BY <2>1, <2>2
<1>3. \A d \in CPU : next[d] # t
  <2>1. CASE curr[e] = t
    BY <1>1, <2>1, UniqueTasks DEF Switching
  <2>2. CASE scheduled_on[t] = NO_CPU
    BY <1>1, <2>2 DEF IInv, ScheduledOnFollows, NextReady, NextReadyAt
  <2>3. QED BY <1>2, <2>1, <2>2
<1>4. t \notin relq /\ \A d \in CPU : t \notin irq[d]
  BY <1>1, <1>2 DEF IInv, WaitingLeaves, Switching, is_queued
<1>5. /\ linked' \in [CPU -> Task \cup {NULL}]
      /\ linked_on' \in [Task -> CPU \cup {NO_CPU}]
      /\ LinksAgree'
      /\ linked_on'[t] = NO_CPU
      /\ \A u \in Task \ {t} : linked_on'[u] = linked_on[u]
  BY Unlinking DEF IInv, task_exit, unlink
<1>6. ready' = ready \ {t} /\ relq' = relq /\ irq' = irq
  BY DEF task_exit, unlink, IInv, OnePlace, is_queued
<1>7. /\ rt' = rt \ {t} /\ running' = running \cup {t}
      /\ \A d \in CPU : curr'[d] = IF curr[d] = t THEN NULL ELSE curr[d]
      /\ \A d \in CPU : scheduled'[d] = IF curr[d] = t THEN NULL ELSE scheduled[d]
      /\ \A u \in Task : scheduled_on'[u] = IF u = t THEN NO_CPU ELSE scheduled_on[u]
      /\ \A u \in Task : stack_in_use'[u] = IF u = t THEN NO_CPU ELSE stack_in_use[u]
  <2>1. \A d \in CPU : curr[d] = t <=> d = scheduled_on[t]
    BY <1>1, <1>2, UniqueTasks
  <2>2. \A d \in CPU : curr[d] = t => d = e
    BY <1>1, <1>2, UniqueTasks
  <2>3. \A d \in CPU : scheduled'[d] = IF curr[d] = t THEN NULL ELSE scheduled[d]
    BY <2>1 DEF task_exit
  <2>4. \A d \in CPU : curr'[d] = IF curr[d] = t THEN NULL ELSE curr[d]
    BY <2>2 DEF task_exit, IInv, TypeOK
  <2>5. QED BY <2>3, <2>4 DEF task_exit, IInv, TypeOK
<1>8. TypeOK'
  <2>1. /\ flags' \in [Task -> {"RUNNING", "SLEEP"}]
        /\ release' \in [Task -> Nat] /\ deadline' \in [Task -> Nat]
        /\ exhausted' \subseteq Task /\ owed' \subseteq Task
        /\ np' \subseteq Task /\ delayed' \subseteq Task
        /\ rt' \subseteq Task /\ running' \subseteq Task
        /\ ready' \subseteq Task /\ panic' \in BOOLEAN
    BY <1>6 DEF task_exit, BugOn, IInv, TypeOK
  <2>2. /\ curr' \in [CPU -> Task \cup {NULL}]
        /\ scheduled' \in [CPU -> Task \cup {NULL}]
        /\ scheduled_on' \in [Task -> CPU \cup {NO_CPU}]
        /\ stack_in_use' \in [Task -> CPU \cup {NO_CPU}]
        /\ tif' \subseteq Task \cup CPU
    BY DEF task_exit, IInv, TypeOK
  <2>3. QED BY <1>5, <1>6, <2>1, <2>2 DEF task_exit, IInv, TypeOK
<1>9. NoPanic'
  BY <1>4 DEF task_exit, BugOn, removesFromWrongHeap, is_queued, IInv, NoPanic
<1>10. OnePlace' /\ PlacedRuns'
  BY <1>4, <1>5, <1>6, <1>7 DEF IInv, OnePlace, PlacedRuns, is_queued
<1>11. LinkedWhereScheduled'
  BY <1>5, <1>7 DEF IInv, LinkedWhereScheduled
<1>12. EntryFollows'
  BY <1>1, <1>7 DEF task_exit, IInv, EntryFollows
<1>13. StackOwner'
  BY <1>1, <1>7 DEF IInv, TypeOK, StackOwner
<1>14. ScheduledOnFollows'
  BY <1>1, <1>3, <1>7
     DEF task_exit, IInv, TypeOK, ScheduledOnFollows, Switching
<1>15. NextReady'
  <2> SUFFICES ASSUME NEW d \in CPU
               PROVE  NextReadyAt(d)'
    BY DEF NextReady
  <2>1. NextReadyAt(d) /\ next[d] \in (Task \cup {NULL}) \ {t}
    BY <1>3 DEF IInv, NextReady, TypeOK
  <2>2. next'[d] = next[d] /\ phase'[d] = phase[d] /\ task_cpu' = task_cpu
    BY DEF task_exit
  <2>3. next[d] # NULL /\ next[d] # curr'[d] => next[d] # curr[d]
    BY <1>7, <2>1
  <2>4. QED BY <1>1, <1>6, <1>7, <2>1, <2>2, <2>3 DEF NextReadyAt, Switching
<1>16. LockOwner'
  BY <1>1 DEF task_exit, LockOwner, Free
<1>17. ResimUnplaced'
  <2> SUFFICES ASSUME NEW d \in CPU, phase[d] = "resim"
               PROVE  /\ curr'[d] \in rt' \cap running'
                      /\ linked_on'[curr'[d]] = NO_CPU
                      /\ ~is_queued(curr[d])' /\ curr'[d] = curr[d]
    BY DEF ResimUnplaced, is_queued, task_exit
  <2>1. curr[d] # t
    BY <1>1, <1>2, UniqueTasks
  <2>2. QED BY <1>5, <1>6, <1>7, <2>1
        DEF IInv, TypeOK, ResimUnplaced, is_queued
<1>18. WaitingLeaves'
  BY <1>1, <1>6, <1>7 DEF task_exit, IInv, WaitingLeaves, Switching
<1>19. Released'
  BY <1>6, <1>7 DEF task_exit, IInv, TypeOK, Released
<1>20. QED BY <1>5, <1>8, <1>9, <1>10, <1>11, <1>12, <1>13, <1>14, <1>15,
         <1>16, <1>17, <1>18, <1>19 DEF IInv

\* A blocked task is nowhere, hence it can be made ready.
LEMMA WakeStep ==
  ASSUME NEW t \in Task, NEW e \in CPU, IInv, wake(t, e)
  PROVE  IInv'
<1>1. t \in rt \ running /\ lock = Free
  BY DEF wake
<1>2. linked_on[t] = NO_CPU /\ ~is_queued(t)
  BY <1>1 DEF IInv, PlacedRuns
<1>3. /\ ready' = ready \cup {t} /\ relq' = relq
      /\ panic' = panic
      /\ lock' = [pc |-> "check", cpu |-> e, go |-> FALSE]
      /\ release'[t] <= now /\ \A u \in Task \ {t} : release'[u] = release[u]
      /\ flags' \in [Task -> {"RUNNING", "SLEEP"}]
      /\ release' \in [Task -> Nat] /\ deadline' \in [Task -> Nat]
      /\ exhausted' \subseteq Task /\ owed' \subseteq Task
  BY <1>1, <1>2, Arrival DEF wake, IInv
<1>4. TypeOK'
  BY <1>3 DEF wake, IInv, TypeOK
<1>5. NoPanic'
  BY <1>3 DEF IInv, NoPanic
<1>6. OnePlace' /\ PlacedRuns'
  BY <1>1, <1>2, <1>3 DEF wake, IInv, OnePlace, PlacedRuns, is_queued
<1>7. EntryFollows' /\ Released'
  BY <1>3 DEF wake, IInv, EntryFollows, Released, TypeOK
<1>8. NextReady' /\ LockOwner'
  BY <1>3 DEF wake, IInv, NextReady, NextReadyAt, LockOwner, Switching, Free
<1>9. ResimUnplaced'
  BY <1>1, <1>3 DEF wake, IInv, ResimUnplaced, is_queued
<1>10. WaitingLeaves'
  BY <1>1, <1>3 DEF wake, IInv, WaitingLeaves, Switching, Free
<1>11. /\ LinksAgree' /\ LinkedWhereScheduled' /\ StackOwner' /\ ScheduledOnFollows'
  BY DEF wake, IInv, LinksAgree, LinkedWhereScheduled, StackOwner,
         ScheduledOnFollows, Switching
<1>12. QED BY <1>4, <1>5, <1>6, <1>7, <1>8, <1>9, <1>10, <1>11 DEF IInv

\* A task that blocks is withdrawn from its link and from the ready queue.
LEMMA BlockStep ==
  ASSUME NEW c \in CPU, IInv, block(c)
  PROVE  IInv'
<1> DEFINE t == curr[c]
<1>1. t \in Task /\ lock = Free /\ phase[c] = "run" /\ NULL \notin Task
  BY ConstantsAssumption DEF block, Open, Busy
<1>2. t \in rt \cap running /\ \A d \in CPU : next[d] # t /\ (curr[d] = t => d = c)
  BY <1>1, UniqueTasks DEF IInv, EntryFollows, Switching
<1>3. t \notin relq /\ \A d \in CPU : t \notin irq[d]
  BY <1>1 DEF IInv, WaitingLeaves, Switching
<1>4. /\ linked' \in [CPU -> Task \cup {NULL}]
      /\ linked_on' \in [Task -> CPU \cup {NO_CPU}]
      /\ LinksAgree'
      /\ linked_on'[t] = NO_CPU
      /\ \A u \in Task \ {t} : linked_on'[u] = linked_on[u]
  BY <1>1, Unlinking DEF IInv, block, unlink
<1>5. ready' = ready \ {t} /\ relq' = relq /\ irq' = irq
  BY <1>1 DEF block, unlink, IInv, OnePlace, is_queued
<1>6. /\ running' = running \ {t} /\ phase' \in [CPU -> {"run", "sched", "wait", "resim", "attach", "switch"}]
      /\ \A d \in CPU : phase'[d] = IF d = c THEN "sched" ELSE phase[d]
  BY DEF block, IInv, TypeOK
<1>7. TypeOK'
  BY <1>4, <1>5, <1>6 DEF block, BugOn, IInv, TypeOK
<1>8. NoPanic'
  BY <1>3 DEF block, BugOn, removesFromWrongHeap, is_queued, IInv, NoPanic
<1>9. OnePlace' /\ PlacedRuns'
  BY <1>3, <1>4, <1>5, <1>6 DEF block, IInv, OnePlace, PlacedRuns, is_queued
<1>10. LinkedWhereScheduled'
  BY <1>4 DEF block, IInv, LinkedWhereScheduled
<1>11. EntryFollows' /\ ScheduledOnFollows'
  BY <1>1, <1>2, <1>6
     DEF block, IInv, EntryFollows, ScheduledOnFollows, Switching
<1>12. NextReady'
  <2> SUFFICES ASSUME NEW d \in CPU
               PROVE  NextReadyAt(d)'
    BY DEF NextReady
  <2>1. NextReadyAt(d) /\ next[d] # t
    BY <1>2 DEF IInv, NextReady
  <2>2. QED BY <1>1, <1>5, <1>6, <2>1 DEF block, NextReadyAt, Switching
<1>13. LockOwner' /\ StackOwner' /\ Released'
  BY <1>1, <1>5 DEF block, IInv, LockOwner, StackOwner, Released, Free
<1>14. ResimUnplaced'
  <2> SUFFICES ASSUME NEW d \in CPU, phase[d] = "resim"
               PROVE  /\ curr[d] \in rt \cap running'
                      /\ linked_on'[curr[d]] = NO_CPU
                      /\ ~is_queued(curr[d])'
    BY <1>6 DEF ResimUnplaced, is_queued, block
  <2>1. curr[d] # t
    BY <1>1, <1>2
  <2>2. QED BY <1>4, <1>5, <1>6, <2>1
        DEF block, IInv, TypeOK, ResimUnplaced, is_queued
<1>15. WaitingLeaves'
  BY <1>1, <1>3, <1>5, <1>6 DEF block, IInv, WaitingLeaves, Switching, Free
<1>16. QED BY <1>4, <1>7, <1>8, <1>9, <1>10, <1>11, <1>12, <1>13, <1>14, <1>15
      DEF IInv

\* gsnedf_schedule() up to the linking: the task that is withdrawn or
\* completed is the current one, which nobody else has picked.
LEMMA GsnedfScheduleStep ==
  ASSUME NEW c \in CPU, IInv, gsnedf_schedule(c)
  PROVE  IInv'
<1> DEFINE s == scheduled[c]
           isnp   == s \in np
           blocks == s # NULL /\ s \notin running
           stage(pc) == [pc |-> pc, cpu |-> c, go |-> ~isnp \/ blocks]
<1>1. /\ phase[c] = "sched" /\ lock = Free /\ ~Switching(c) /\ s = curr[c]
      /\ s \in Task \cup {NULL} /\ NULL \notin Task /\ NO_CPU \notin CPU
  BY ConstantsAssumption
     DEF gsnedf_schedule, IInv, TypeOK, EntryFollows, Switching
<1>2. s # NULL => /\ s \in rt /\ s \notin relq /\ \A d \in CPU : s \notin irq[d]
                  /\ \A d \in CPU : next[d] # s /\ (curr[d] = s => d = c)
  BY <1>1, UniqueTasks DEF IInv, EntryFollows, WaitingLeaves, Free
<1>3. ASSUME s \in Task, unlink(s), BugOn(removesFromWrongHeap(s)),
             delayed' = (IF isnp THEN delayed \cup {s} ELSE delayed),
             lock' = stage("link"), UNCHANGED jobVars
      PROVE  IInv'
  <2>1. /\ linked' \in [CPU -> Task \cup {NULL}]
        /\ linked_on' \in [Task -> CPU \cup {NO_CPU}]
        /\ LinksAgree'
        /\ linked_on'[s] = NO_CPU
        /\ \A u \in Task \ {s} : linked_on'[u] = linked_on[u]
    BY <1>3, Unlinking DEF IInv, unlink
  <2>2. ready' = ready \ {s} /\ relq' = relq /\ irq' = irq
    BY <1>3 DEF gsnedf_schedule, unlink, IInv, OnePlace, is_queued
  <2>3. TypeOK' /\ NoPanic'
    BY <1>1, <1>2, <1>3, <2>1, <2>2
       DEF gsnedf_schedule, IInv, TypeOK, NoPanic, BugOn,
           removesFromWrongHeap, is_queued
  <2>4. OnePlace' /\ PlacedRuns'
    BY <1>1, <1>2, <2>1, <2>2
       DEF gsnedf_schedule, IInv, OnePlace, PlacedRuns, is_queued
  <2>5. LinkedWhereScheduled' /\ LockOwner'
    BY <1>1, <1>3, <2>1
       DEF gsnedf_schedule, IInv, LinkedWhereScheduled, LockOwner, Free
  <2>6. ResimUnplaced' /\ WaitingLeaves' /\ Released' /\ NextReady'
    BY <1>1, <1>2, <1>3, <2>1, <2>2
       DEF gsnedf_schedule, IInv, TypeOK, ResimUnplaced, WaitingLeaves,
           Released,
           NextReady, NextReadyAt, Switching, is_queued, Free
  <2>7. EntryFollows' /\ StackOwner' /\ ScheduledOnFollows'
    BY DEF gsnedf_schedule, IInv, EntryFollows, StackOwner,
           ScheduledOnFollows, Switching
  <2>8. QED BY <2>1, <2>3, <2>4, <2>5, <2>6, <2>7 DEF IInv
<1>4. ASSUME s \in Task, s \in running, ~isnp, linked[c] = s,
             flags' = [flags EXCEPT ![s] = "SLEEP"],
             prepare_for_next_period(s, deadline[s]), unlinked(s),
             ready' = (IF is_released(deadline[s]) THEN ready \cup {s} ELSE ready),
             relq' = (IF is_released(deadline[s]) THEN relq ELSE relq \cup {s}),
             BugOn(is_queued(s)), lock' = stage("schedcheck"), UNCHANGED delayed
      PROVE  IInv'
  <2>1. /\ linked' \in [CPU -> Task \cup {NULL}]
        /\ linked_on' \in [Task -> CPU \cup {NO_CPU}]
        /\ LinksAgree'
        /\ linked_on'[s] = NO_CPU
        /\ \A u \in Task \ {s} : linked_on'[u] = linked_on[u]
    BY <1>4, Unlinking DEF IInv
  <2>2. ~is_queued(s)
    BY <1>1, <1>4 DEF IInv, TypeOK, LinksAgree, OnePlace
  <2>3. /\ release' \in [Task -> Nat] /\ deadline' \in [Task -> Nat]
        /\ \A u \in Task : release'[u] = IF u = s THEN deadline[s] ELSE release[u]
    <3>1. Period[s] \in Nat
      BY <1>4, ConstantsAssumption
    <3>2. QED BY <1>4, <3>1 DEF prepare_for_next_period, IInv, TypeOK
  <2>4. TypeOK' /\ NoPanic'
    BY <1>1, <1>4, <2>1, <2>2, <2>3
       DEF gsnedf_schedule, IInv, TypeOK, NoPanic, BugOn,
           prepare_for_next_period
  <2>5. OnePlace' /\ PlacedRuns'
    BY <1>1, <1>2, <1>4, <2>1, <2>2
       DEF gsnedf_schedule, IInv, OnePlace, PlacedRuns, is_queued
  <2>6. LinkedWhereScheduled' /\ LockOwner'
    BY <1>1, <1>4, <2>1
       DEF gsnedf_schedule, IInv, LinkedWhereScheduled, LockOwner, Free
  <2>7. Released'
    BY <1>4, <2>3 DEF gsnedf_schedule, IInv, TypeOK, Released, is_released
  <2>8. NextReady'
    BY <1>1, <1>2, <1>4
       DEF gsnedf_schedule, IInv, NextReady, NextReadyAt, Switching
  <2>9. ResimUnplaced'
    BY <1>1, <1>2, <1>4, <2>1
       DEF gsnedf_schedule, IInv, TypeOK, ResimUnplaced, is_queued
  <2>10. WaitingLeaves'
    <3> SUFFICES ASSUME NEW d \in CPU, NEW t \in Task, curr[d] = t,
                        t \in relq' \/ \E b \in CPU : t \in irq[b]
                 PROVE  \/ phase[d] = "sched" /\ d = c
                        \/ Switching(d) /\ next[d] # t /\ was_running[d]
      BY <1>1, <1>4 DEF WaitingLeaves, gsnedf_schedule, Switching
    <3>1. CASE t = s
      BY <1>1, <1>2, <3>1
    <3>2. CASE t # s
      BY <1>1, <1>4, <3>2 DEF IInv, WaitingLeaves, Free
    <3>3. QED BY <3>1, <3>2
  <2>11. EntryFollows' /\ StackOwner' /\ ScheduledOnFollows'
    BY DEF gsnedf_schedule, IInv, EntryFollows, StackOwner,
           ScheduledOnFollows, Switching
  <2>12. QED BY <2>1, <2>4, <2>5, <2>6, <2>7, <2>8, <2>9, <2>10, <2>11 DEF IInv
<1>5. ASSUME BugOn(FALSE), lock' = stage("link"),
             UNCHANGED <<jobVars, queueVars, linkVars, delayed>>
      PROVE  IInv'
  <2>1. TypeOK' /\ NoPanic'
    BY <1>1, <1>5 DEF gsnedf_schedule, IInv, TypeOK, NoPanic, BugOn
  <2>2. LockOwner' /\ WaitingLeaves'
    <3>1. LockOwner'
      BY <1>1, <1>5 DEF gsnedf_schedule, LockOwner
    <3>2. WaitingLeaves'
      BY <1>1, <1>5 DEF gsnedf_schedule, IInv, WaitingLeaves, Switching, Free
    <3>3. QED BY <3>1, <3>2
  <2>3. /\ LinksAgree' /\ OnePlace' /\ LinkedWhereScheduled' /\ PlacedRuns'
        /\ EntryFollows'
        /\ StackOwner' /\ ScheduledOnFollows' /\ NextReady' /\ ResimUnplaced' /\ Released'
    BY <1>5
       DEF gsnedf_schedule, IInv, LinksAgree, OnePlace, LinkedWhereScheduled,
           PlacedRuns, EntryFollows, StackOwner, ScheduledOnFollows, NextReady,
           NextReadyAt, ResimUnplaced, Released, Switching, is_queued
  <2>4. QED BY <2>1, <2>2, <2>3 DEF IInv
<1>6. QED
  <2>1. (s # NULL => s = curr[c]) /\ (curr[c] # NULL => s # NULL)
    BY <1>1
  <2>2. s \in np \/ s \in Enforced => s \in Task
    BY ConstantsAssumption DEF IInv, TypeOK
  <2>3. QED BY <1>1, <1>3, <1>4, <1>5, <2>1, <2>2 DEF gsnedf_schedule, BugOn

\* A processor without a link takes the first ready task.
LEMMA LinkPendingStep ==
  ASSUME IInv, link_pending
  PROVE  IInv'
<1> DEFINE c == lock.cpu
<1>1. lock.pc = "link" /\ c \in CPU /\ lock' = [lock EXCEPT !.pc = "decide"]
  BY DEF link_pending, IInv, LockOwner
<1>2. LockOwner' /\ WaitingLeaves'
  BY <1>1
     DEF link_pending, IInv, TypeOK, LockOwner, WaitingLeaves, Switching, Free
<1>3. CASE UNCHANGED <<ready, linkVars, flags, panic>>
  <2>1. TypeOK'
    BY <1>1, <1>3 DEF link_pending, IInv, TypeOK
  <2>2. /\ LinksAgree' /\ OnePlace' /\ LinkedWhereScheduled' /\ NoPanic'
        /\ PlacedRuns'
    BY <1>3 DEF link_pending, IInv, LinksAgree, OnePlace, LinkedWhereScheduled,
                NoPanic, PlacedRuns, is_queued
  <2>3. /\ EntryFollows' /\ StackOwner' /\ ScheduledOnFollows' /\ NextReady'
        /\ ResimUnplaced' /\ Released'
    BY <1>3
       DEF link_pending, IInv, EntryFollows, StackOwner, ScheduledOnFollows,
                NextReady, NextReadyAt, ResimUnplaced, Released, is_queued, Switching
  <2>4. QED BY <1>2, <2>1, <2>2, <2>3 DEF IInv
<1>4. ASSUME NEW t \in ready, ready' = ready \ {t}, link_task_to_cpu(t, c),
             BugOn(AlreadyLinked(t))
      PROVE  IInv'
  <2>1. /\ t \in Task /\ linked_on[t] = NO_CPU /\ t \in rt \cap running
        /\ t \notin relq /\ \A d \in CPU : t \notin irq[d]
    BY <1>4 DEF IInv, TypeOK, OnePlace, PlacedRuns, is_queued
  <2>2. ~AlreadyLinked(t)
    BY <2>1 DEF IInv, TypeOK, LinksAgree, AlreadyLinked
  <2>3. /\ linked' \in [CPU -> Task \cup {NULL}]
        /\ linked_on' \in [Task -> CPU \cup {NO_CPU}]
        /\ flags' \in [Task -> {"RUNNING", "SLEEP"}]
        /\ LinksAgree'
        /\ LinkedWhereScheduled'
        /\ \A u \in Task \ {t} : linked_on[u] = NO_CPU => linked_on'[u] = NO_CPU
    BY <1>1, <1>4, <2>1, Linking DEF IInv, link_pending
  <2>4. TypeOK' /\ NoPanic'
    BY <1>1, <1>4, <2>2, <2>3 DEF link_pending, IInv, TypeOK, NoPanic, BugOn
  <2>5. OnePlace' /\ PlacedRuns'
    BY <1>4, <2>1, <2>3 DEF link_pending, IInv, OnePlace, PlacedRuns, is_queued
  <2>6. ResimUnplaced'
    BY <1>4, <2>3 DEF link_pending, IInv, TypeOK, ResimUnplaced, is_queued
  <2>7. /\ EntryFollows' /\ StackOwner' /\ ScheduledOnFollows' /\ NextReady'
        /\ Released'
    BY DEF link_pending, IInv, EntryFollows, StackOwner, ScheduledOnFollows,
           NextReady, NextReadyAt, Released, Switching
  <2>8. QED BY <1>2, <2>3, <2>4, <2>5, <2>6, <2>7 DEF IInv
<1>5. QED BY <1>3, <1>4 DEF link_pending

\* The decision moves scheduled_on before the switch, and leaves no task
\* behind that waits for its release.
LEMMA DecideStep ==
  ASSUME IInv, decide
  PROVE  IInv'
<1> DEFINE c      == lock.cpu
           l      == linked[c]
           s      == curr[c]
           switch == lock.go /\ l # s
           pick   == IF switch THEN l ELSE s
<1>1. /\ c \in CPU /\ phase[c] = "sched" /\ lock.pc = "decide" /\ ~Switching(c)
      /\ s \in Task \cup {NULL} /\ l \in Task \cup {NULL}
      /\ NULL \notin Task /\ NO_CPU \notin CPU
  BY ConstantsAssumption DEF decide, IInv, LockOwner, TypeOK, Switching
<1>2. /\ \A d \in CPU : next'[d] = IF d = c THEN pick ELSE next[d]
      /\ \A d \in CPU : was_running'[d] =
           IF d = c THEN (s \in running) ELSE was_running[d]
      /\ \A d \in CPU : phase'[d] =
           IF d # c THEN phase[d]
           ELSE IF pick # NULL /\ task_cpu[pick] # c THEN "wait" ELSE "switch"
      /\ \A u \in Task : scheduled_on'[u] = IF switch /\ u = s THEN NO_CPU
                                            ELSE IF switch /\ u = l THEN c
                                            ELSE scheduled_on[u]
  BY <1>1 DEF decide, IInv, TypeOK, EntryFollows
<1>3. l # NULL => /\ linked_on[l] = c /\ l \in rt \cap running
                  /\ scheduled_on[l] \in {c, NO_CPU} /\ ~is_queued(l)
  BY <1>1
     DEF IInv, TypeOK, LinksAgree, LinkedWhereScheduled, PlacedRuns, OnePlace
<1>4. pick # NULL => /\ pick \in rt \cap running /\ pick \notin relq
                     /\ \A d \in CPU : pick \notin irq[d]
  <2>1. CASE pick = l
    BY <1>3, <2>1 DEF is_queued
  <2>2. CASE pick = s /\ s # l /\ s # NULL
    <3>1. ~lock.go
      BY <2>2
    <3>2. s \in rt \cap running
      BY <1>1, <2>2, <3>1 DEF IInv, EntryFollows, LockOwner
    <3>3. QED BY <1>1, <2>2, <3>1, <3>2 DEF IInv, WaitingLeaves
  <2>3. QED BY <2>1, <2>2
<1>5. TypeOK'
  <2>1. next' \in [CPU -> Task \cup {NULL}]
    BY <1>1 DEF decide, IInv, TypeOK, EntryFollows
  <2>2. scheduled_on' \in [Task -> CPU \cup {NO_CPU}]
    BY <1>1 DEF decide, IInv, TypeOK
  <2>3. QED BY <2>1, <2>2 DEF decide, IInv, TypeOK, Free
<1>6. LinkedWhereScheduled'
  BY <1>1, <1>2, <1>3 DEF decide, IInv, LinkedWhereScheduled
<1>7. EntryFollows'
  BY <1>1, <1>2 DEF decide, IInv, EntryFollows
<1>8. ScheduledOnFollows'
  <2> SUFFICES ASSUME NEW u \in Task, NEW d \in CPU
               PROVE  scheduled_on'[u] = d <=> (IF Switching(d)' THEN next'[d] = u ELSE curr[d] = u)
    BY DEF ScheduledOnFollows, decide
  <2>1. scheduled_on[u] = d <=> (IF Switching(d) THEN next[d] = u ELSE curr[d] = u)
    BY DEF IInv, ScheduledOnFollows
  <2>2. CASE d = c
    BY <1>1, <1>2, <2>1, <2>2 DEF Switching
  <2>3. CASE d # c
    <3>1. scheduled_on[s] = c \/ s = NULL
      BY <1>1 DEF IInv, ScheduledOnFollows
    <3>2. QED BY <1>1, <1>2, <1>3, <2>1, <2>3, <3>1 DEF Switching
  <2>4. QED BY <2>2, <2>3
<1>9. NextReady'
  <2> SUFFICES ASSUME NEW d \in CPU
               PROVE  NextReadyAt(d)'
    BY DEF NextReady
  <2>1. CASE d = c
    <3>1. pick # NULL /\ task_cpu[pick] = c /\ pick # s => stack_in_use[pick] = NO_CPU
      BY <1>1 DEF IInv, TypeOK, StackOwner, EntryFollows
    <3>2. QED BY <1>1, <1>2, <1>4, <2>1, <3>1
          DEF decide, NextReadyAt, Switching
  <2>2. CASE d # c
    BY <1>2, <2>2 DEF decide, IInv, NextReady, NextReadyAt, Switching
  <2>3. QED BY <2>1, <2>2
<1>10. LockOwner' /\ ResimUnplaced'
  BY <1>1, <1>2 DEF decide, IInv, LockOwner, ResimUnplaced, is_queued, Free
<1>11. WaitingLeaves'
  <2> SUFFICES ASSUME NEW d \in CPU, NEW t \in Task, curr[d] = t,
                      t \in relq \/ \E b \in CPU : t \in irq[b]
               PROVE  Switching(d)' /\ next'[d] # t /\ was_running'[d]
    BY DEF WaitingLeaves, decide
  <2>1. is_queued(t) /\ linked_on[t] = NO_CPU /\ t \in running
    BY DEF IInv, OnePlace, PlacedRuns, is_queued
  <2>2. \/ phase[d] = "sched" /\ c = d /\ lock.go
        \/ Switching(d) /\ next[d] # t /\ was_running[d]
    BY DEF IInv, WaitingLeaves
  <2>3. CASE d = c
    <3>1. lock.go /\ l # t
      BY <1>1, <1>3, <2>1, <2>2, <2>3
    <3>2. QED BY <1>1, <1>2, <2>1, <2>3, <3>1 DEF Switching
  <2>4. CASE d # c
    BY <1>2, <2>2, <2>4 DEF Switching
  <2>5. QED BY <2>3, <2>4
<1>12. /\ LinksAgree' /\ OnePlace' /\ NoPanic' /\ PlacedRuns'
       /\ StackOwner' /\ Released'
  BY DEF decide, IInv, LinksAgree, OnePlace, NoPanic, PlacedRuns, StackOwner,
         Released, is_queued
<1>13. QED BY <1>5, <1>6, <1>7, <1>8, <1>9, <1>10, <1>11, <1>12 DEF IInv

\* The simulated block of prev, which was woken during the migration.
LEMMA ResimBlockStep ==
  ASSUME NEW c \in CPU, IInv, resim_block(c)
  PROVE  IInv'
<1> DEFINE t == curr[c]
<1>1. /\ t \in rt \cap running /\ t \in Task /\ ~was_running[c]
      /\ lock = Free /\ phase[c] = "wait" /\ stack_in_use[next[c]] = NO_CPU
  BY DEF resim_block, StackFree, PrevUnblocked, IInv, TypeOK
<1>2. \A d \in CPU : curr[d] = t => d = c
  BY <1>1, UniqueTasks
<1>3. t \notin relq /\ \A d \in CPU : t \notin irq[d]
  BY <1>1 DEF IInv, WaitingLeaves
<1>4. /\ linked' \in [CPU -> Task \cup {NULL}]
      /\ linked_on' \in [Task -> CPU \cup {NO_CPU}]
      /\ LinksAgree'
      /\ linked_on'[t] = NO_CPU
      /\ \A u \in Task \ {t} : linked_on'[u] = linked_on[u]
  BY <1>1, Unlinking DEF IInv, resim_block, unlink
<1>5. ready' = ready \ {t} /\ relq' = relq /\ irq' = irq
  BY <1>1 DEF resim_block, unlink, IInv, OnePlace, is_queued
<1>6. /\ phase' \in [CPU -> {"run", "sched", "wait", "resim", "attach", "switch"}]
      /\ \A d \in CPU : phase'[d] = IF d = c THEN "resim" ELSE phase[d]
  BY DEF resim_block, IInv, TypeOK
<1>7. TypeOK'
  BY <1>4, <1>5, <1>6 DEF resim_block, BugOn, IInv, TypeOK
<1>8. NoPanic'
  BY <1>3
     DEF resim_block, BugOn, removesFromWrongHeap, is_queued, IInv, NoPanic
<1>9. OnePlace' /\ PlacedRuns'
  BY <1>3, <1>4, <1>5 DEF resim_block, IInv, OnePlace, PlacedRuns, is_queued
<1>10. LinkedWhereScheduled'
  BY <1>4 DEF resim_block, IInv, LinkedWhereScheduled
<1>11. EntryFollows' /\ ScheduledOnFollows'
  BY <1>1, <1>6
     DEF resim_block, IInv, EntryFollows, ScheduledOnFollows, Switching
<1>12. NextReady'
  BY <1>1, <1>5, <1>6 DEF resim_block, IInv, NextReady, NextReadyAt, Switching
<1>13. LockOwner' /\ StackOwner' /\ Released'
  BY <1>1, <1>5 DEF resim_block, IInv, LockOwner, StackOwner, Released, Free
<1>14. ResimUnplaced'
  <2> SUFFICES ASSUME NEW d \in CPU, d = c \/ phase[d] = "resim"
               PROVE  /\ curr[d] \in rt \cap running
                      /\ linked_on'[curr[d]] = NO_CPU
                      /\ ~is_queued(curr[d])'
    BY <1>6 DEF ResimUnplaced, is_queued, resim_block
  <2>1. CASE d = c
    BY <1>1, <1>3, <1>4, <1>5, <2>1 DEF resim_block, is_queued
  <2>2. CASE d # c
    BY <1>2, <1>4, <1>5, <2>2
       DEF resim_block, IInv, TypeOK, ResimUnplaced, is_queued
  <2>3. QED BY <2>1, <2>2
<1>15. WaitingLeaves'
  BY <1>1, <1>3, <1>5, <1>6
     DEF resim_block, IInv, WaitingLeaves, Switching, Free
<1>16. QED BY <1>4, <1>7, <1>8, <1>9, <1>10, <1>11, <1>12, <1>13, <1>14, <1>15
      DEF IInv

\* The simulated wake-up of prev.
LEMMA ResimWakeUpStep ==
  ASSUME NEW c \in CPU, IInv, resim_wake_up(c)
  PROVE  IInv'
<1> DEFINE t == curr[c]
<1>1. /\ t \in rt \cap running /\ t \in Task /\ lock = Free /\ phase[c] = "resim"
      /\ linked_on[t] = NO_CPU /\ ~is_queued(t)
  BY DEF resim_wake_up, IInv, TypeOK, ResimUnplaced
<1>2. \A d \in CPU : curr[d] = t => d = c
  BY <1>1, UniqueTasks
<1>3. /\ ready' = ready \cup {t} /\ relq' = relq
      /\ panic' = panic
      /\ lock' = [pc |-> "check", cpu |-> c, go |-> FALSE]
      /\ release'[t] <= now /\ \A u \in Task \ {t} : release'[u] = release[u]
      /\ flags' \in [Task -> {"RUNNING", "SLEEP"}]
      /\ release' \in [Task -> Nat] /\ deadline' \in [Task -> Nat]
      /\ exhausted' \subseteq Task /\ owed' \subseteq Task
  BY <1>1, Arrival DEF resim_wake_up, IInv
<1>4. /\ phase' \in [CPU -> {"run", "sched", "wait", "resim", "attach", "switch"}]
      /\ \A d \in CPU : phase'[d] = IF d = c THEN "attach" ELSE phase[d]
  BY DEF resim_wake_up, IInv, TypeOK
<1>5. TypeOK'
  BY <1>1, <1>3, <1>4 DEF resim_wake_up, IInv, TypeOK
<1>6. NoPanic'
  BY <1>3 DEF IInv, NoPanic
<1>7. OnePlace' /\ PlacedRuns'
  BY <1>1, <1>3 DEF resim_wake_up, IInv, OnePlace, PlacedRuns, is_queued
<1>8. EntryFollows' /\ Released'
  <2>1. EntryFollows'
    BY <1>1, <1>4 DEF resim_wake_up, IInv, EntryFollows
  <2>2. Released'
    BY <1>3 DEF resim_wake_up, IInv, TypeOK, Released
  <2>3. QED BY <2>1, <2>2
<1>9. ScheduledOnFollows' /\ LockOwner'
  BY <1>1, <1>3, <1>4
     DEF resim_wake_up, IInv, ScheduledOnFollows, LockOwner, Switching, Free
<1>10. NextReady'
  BY <1>1, <1>3, <1>4
     DEF resim_wake_up, IInv, NextReady, NextReadyAt, Switching
<1>11. ResimUnplaced'
  BY <1>2, <1>3, <1>4 DEF resim_wake_up, IInv, ResimUnplaced, is_queued
<1>12. WaitingLeaves'
  BY <1>1, <1>3, <1>4 DEF resim_wake_up, IInv, WaitingLeaves, Switching, Free
<1>13. LinksAgree' /\ LinkedWhereScheduled' /\ StackOwner'
  BY DEF resim_wake_up, IInv, LinksAgree, LinkedWhereScheduled, StackOwner
<1>14. QED BY <1>5, <1>6, <1>7, <1>8, <1>9, <1>10, <1>11, <1>12, <1>13 DEF IInv

\* The migrated task is not on any processor and can still run.
LEMMA AttachStep ==
  ASSUME NEW c \in CPU, IInv, attach(c)
  PROVE  IInv'
<1> DEFINE n == next[c]
<1>1. /\ phase[c] \in {"wait", "attach"} /\ n \in rt \cap running /\ n \in Task
      /\ stack_in_use[n] = NO_CPU
  BY DEF attach, StackFree, IInv, TypeOK, NextReady, NextReadyAt
<1>2. \A d \in CPU : curr[d] # n /\ (next[d] = n => d = c)
  BY <1>1, UniqueTasks, ConstantsAssumption DEF IInv, StackOwner
<1>3. /\ next' = next
      /\ \A d \in CPU : phase'[d] = IF d = c THEN "switch" ELSE phase[d]
      /\ \A u \in Task : task_cpu'[u] = IF u = n THEN c ELSE task_cpu[u]
  BY <1>1 DEF attach, IInv, TypeOK
<1>4. TypeOK'
  BY <1>1, <1>3 DEF attach, IInv, TypeOK
<1>5. EntryFollows'
  BY <1>1, <1>2, <1>3 DEF attach, IInv, TypeOK, EntryFollows
<1>6. ScheduledOnFollows' /\ WaitingLeaves'
  BY <1>1, <1>3
     DEF attach, IInv, ScheduledOnFollows, WaitingLeaves, Switching
<1>7. NextReady'
  <2> SUFFICES ASSUME NEW d \in CPU
               PROVE  NextReadyAt(d)'
    BY DEF NextReady
  <2>1. CASE d = c
    BY <1>1, <1>3, <2>1 DEF attach, IInv, NextReady, NextReadyAt, Switching
  <2>2. CASE d # c
    <3>1. NextReadyAt(d) /\ next[d] # n /\ next[d] \in Task \cup {NULL}
      BY <1>2, <2>2 DEF IInv, NextReady, TypeOK
    <3>2. QED BY <1>3, <2>2, <3>1 DEF attach, NextReadyAt, Switching
  <2>3. QED BY <2>1, <2>2
<1>8. LockOwner' /\ ResimUnplaced'
  BY <1>1, <1>3 DEF attach, IInv, LockOwner, ResimUnplaced, is_queued
<1>9. /\ LinksAgree' /\ OnePlace' /\ LinkedWhereScheduled' /\ NoPanic'
      /\ PlacedRuns' /\ StackOwner' /\ Released'
  BY DEF attach, IInv, LinksAgree, OnePlace, LinkedWhereScheduled, NoPanic,
         PlacedRuns, StackOwner, Released, is_queued
<1>10. QED BY <1>4, <1>5, <1>6, <1>7, <1>8, <1>9 DEF IInv

\* The context switch: the picked task is current nowhere else.
LEMMA FinishSwitchStep ==
  ASSUME NEW c \in CPU, IInv, finish_switch(c)
  PROVE  IInv'
<1> DEFINE n == next[c]
<1>1. /\ phase[c] = "switch" /\ NULL \notin Task /\ NO_CPU \notin CPU
      /\ n \in Task \cup {NULL} /\ NextReadyAt(c)
      /\ n # NULL => \A d \in CPU : (next[d] = n => d = c) /\ (curr[d] = n => d = c)
  <2>1. phase[c] = "switch" /\ n \in Task \cup {NULL} /\ NextReadyAt(c)
    BY DEF finish_switch, IInv, TypeOK, NextReady
  <2>2. n # NULL => \A d \in CPU : next[d] = n => d = c
    BY <2>1, UniqueTasks
  <2>3. n # NULL => \A d \in CPU : curr[d] = n => d = c
    BY <2>1, UniqueTasks, ConstantsAssumption DEF NextReadyAt, IInv, StackOwner
  <2>4. QED BY <2>1, <2>2, <2>3, ConstantsAssumption
<1>2. /\ \A d \in CPU : phase'[d] = IF d = c THEN "run" ELSE phase[d]
      /\ \A d \in CPU : next'[d] = IF d = c THEN NULL ELSE next[d]
      /\ \A d \in CPU : curr'[d] = IF d = c THEN n ELSE curr[d]
      /\ \A d \in CPU : was_running'[d] = IF d = c THEN FALSE ELSE was_running[d]
      /\ \A u \in Task : stack_in_use'[u] = IF u = n THEN c
                           ELSE IF u = curr[c] THEN NO_CPU ELSE stack_in_use[u]
  BY DEF finish_switch, IInv, TypeOK
<1>3. \A d \in CPU : scheduled'[d] = IF d = c THEN n ELSE scheduled[d]
  BY <1>1 DEF finish_switch, IInv, TypeOK, EntryFollows, NextReadyAt
<1>4. TypeOK'
  BY DEF finish_switch, IInv, TypeOK
<1>5. EntryFollows'
  BY <1>1, <1>2, <1>3 DEF finish_switch, IInv, EntryFollows, NextReadyAt
<1>6. StackOwner'
  BY <1>1, <1>2 DEF IInv, TypeOK, StackOwner
<1>7. ScheduledOnFollows'
  BY <1>1, <1>2 DEF finish_switch, IInv, ScheduledOnFollows, Switching
<1>8. NextReady'
  <2> SUFFICES ASSUME NEW d \in CPU
               PROVE  NextReadyAt(d)'
    BY DEF NextReady
  <2>1. CASE d = c
    BY <1>2, <2>1 DEF NextReadyAt, Switching
  <2>2. CASE d # c
    <3>1. NextReadyAt(d) /\ next[d] \in Task \cup {NULL} /\ (next[d] # NULL => next[d] # n)
      BY <1>1, <2>2 DEF IInv, NextReady, TypeOK
    <3>2. QED BY <1>2, <2>2, <3>1 DEF finish_switch, NextReadyAt, Switching
  <2>3. QED BY <2>1, <2>2
<1>9. LockOwner' /\ ResimUnplaced'
  BY <1>1, <1>2 DEF finish_switch, IInv, LockOwner, ResimUnplaced, is_queued
<1>10. WaitingLeaves'
  BY <1>1, <1>2 DEF finish_switch, IInv, WaitingLeaves, Switching, NextReadyAt
<1>11. /\ LinksAgree' /\ OnePlace' /\ LinkedWhereScheduled' /\ NoPanic'
       /\ PlacedRuns' /\ Released'
  BY DEF finish_switch, IInv, LinksAgree, OnePlace, LinkedWhereScheduled,
         NoPanic, PlacedRuns, Released, is_queued
<1>12. QED BY <1>4, <1>5, <1>6, <1>7, <1>8, <1>9, <1>10, <1>11 DEF IInv

-----------------------------------------------------------------------------
\* Every step preserves the invariant.
LEMMA NextStep ==
  ASSUME SupportedUse, IInv, [Next]_vars
  PROVE  IInv'
<1>1. CASE UNCHANGED vars
  BY <1>1
     DEF vars, IInv, TypeOK, LinksAgree, OnePlace, LinkedWhereScheduled,
         NoPanic,
         PlacedRuns, EntryFollows, StackOwner, ScheduledOnFollows, NextReady,
         NextReadyAt, LockOwner, ResimUnplaced, WaitingLeaves, Released,
         is_queued, Switching, Free
<1>2. CASE Handler
  BY <1>2, TaskNewStep, TaskExitStep, WakeStep, OnReleaseTimerStep,
     ReleaseJobsStep, ExhaustStep, TickStep, RescheduleInterruptStep,
     EnterNpStep, ExitNpStep DEF Handler
<1>3. CASE Schedule
  <2>1. ~ \E c \in CPU : spin_timeout(c)
    BY DEF spin_timeout, SupportedUse
  <2>2. QED
    BY <1>3, <2>1, ScheduleStep, CompleteJobStep, BlockStep, GsnedfScheduleStep,
       ResimBlockStep, ResimWakeUpStep, AttachStep, FinishSwitchStep DEF Schedule
<1>4. CASE check_for_preemptions \/ check_done \/ link_pending \/ decide \/ clock
  BY <1>4, CheckForPreemptionsStep, CheckDoneStep, LinkPendingStep, DecideStep,
     ClockStep
<1>5. QED BY <1>1, <1>2, <1>3, <1>4 DEF Next

\* The invariant holds when the plugin is activated.
LEMMA InitInv ==
  ASSUME Init
  PROVE  IInv
<1>1. NULL \notin Task /\ NO_CPU \notin CPU
  BY ConstantsAssumption
<1>2. TypeOK
  BY DEF Init, TypeOK, Free
<1>3. LinksAgree /\ OnePlace /\ LinkedWhereScheduled /\ NoPanic /\ PlacedRuns
  BY <1>1 DEF Init, LinksAgree, OnePlace, LinkedWhereScheduled, NoPanic,
              PlacedRuns, is_queued
<1>4. EntryFollows /\ StackOwner /\ ScheduledOnFollows /\ NextReady
  BY <1>1 DEF Init, EntryFollows, StackOwner, ScheduledOnFollows, NextReady,
              NextReadyAt, Switching
<1>5. LockOwner /\ ResimUnplaced /\ WaitingLeaves /\ Released
  BY <1>1 DEF Init, LockOwner, ResimUnplaced, WaitingLeaves, Released, Free
<1>6. QED BY <1>2, <1>3, <1>4, <1>5 DEF IInv

\* IInv is an invariant of the plugin.
THEOREM Invariance ==
  ASSUME SupportedUse
  PROVE  Spec => []IInv
<1>1. Init => IInv
  BY InitInv
<1>2. IInv /\ [Next]_vars => IInv'
  BY NextStep
<1>3. QED BY <1>1, <1>2, PTL DEF Spec

\* The variables have their types, for any instance.
THEOREM TypeCorrectness ==
  ASSUME SupportedUse
  PROVE  Spec => []TypeOK
<1>1. IInv => TypeOK
  BY DEF IInv
<1>2. QED BY <1>1, Invariance, PTL

\* entry->linked and linked_on never disagree, no task is in two places, and a
\* task is never linked away from the processor that is executing it.
THEOREM LinkConsistency ==
  ASSUME SupportedUse
  PROVE  Spec => [](LinksAgree /\ OnePlace /\ LinkedWhereScheduled)
<1>1. IInv => LinksAgree /\ OnePlace /\ LinkedWhereScheduled
  BY DEF IInv
<1>2. QED BY <1>1, Invariance, PTL

\* No task executes on two processors or on a stack that is still in use.
THEOREM StackSafety ==
  ASSUME SupportedUse
  PROVE  Spec => []OneStack
<1>1. IInv => OneStack
  BY DEF IInv, StackOwner, OneStack
<1>2. QED BY <1>1, Invariance, PTL

\* No BUG_ON() of the plugin can fire and no heap is corrupted.
THEOREM PanicFreedom ==
  ASSUME SupportedUse
  PROVE  Spec => []NoPanic
<1>1. IInv => NoPanic
  BY DEF IInv
<1>2. QED BY <1>1, Invariance, PTL

\* Only jobs whose release time has come are linked.
THEOREM ReleaseRespected ==
  ASSUME SupportedUse
  PROVE  Spec => []ReleasedBeforeRun
<1>1. IInv => ReleasedBeforeRun
  <2> SUFFICES ASSUME IInv, NEW c \in CPU, linked[c] # NULL
               PROVE  release[linked[c]] <= now
    BY DEF ReleasedBeforeRun
  <2>1. linked[c] \in Task /\ c # NO_CPU
    BY ConstantsAssumption DEF IInv, TypeOK
  <2>2. linked_on[linked[c]] = c
    BY <2>1 DEF IInv, LinksAgree
  <2>3. linked[c] \in rt /\ linked[c] \notin relq
    BY <2>1, <2>2 DEF IInv, OnePlace, PlacedRuns, is_queued
  <2>4. QED BY <2>3 DEF IInv, Released
<1>2. QED BY <1>1, Invariance, PTL

\* A task is in one queue, or on its way from the release queue to the ready
\* queue, or linked to one processor.
THEOREM EveryTaskOnce ==
  ASSUME SupportedUse
  PROVE  Spec => []OnePlace
<1>1. IInv => OnePlace
  BY DEF IInv
<1>2. QED BY <1>1, Invariance, PTL

-----------------------------------------------------------------------------
(* No task is lost without non-preemptive sections                         *)

\* link_task_to_cpu() takes the link from nobody but what was linked to c.
LEMMA Relinking ==
  ASSUME NEW t \in Task, NEW c \in CPU, TypeOK, link_task_to_cpu(t, c)
  PROVE  /\ linked_on'[t] # NO_CPU
         /\ \A u \in Task \ {t} : u # linked[c] /\ linked_on[u] # NO_CPU => linked_on'[u] # NO_CPU
BY ConstantsAssumption DEF link_task_to_cpu, TypeOK

\* Steps that move no task keep Placed.
LEMMA PlacedKept ==
  ASSUME Placed, np' = {}, UNCHANGED <<linked_on, curr>>, rt' \cap running' \subseteq rt \cap running,
         \A c \in CPU : phase[c] = "resim" => phase'[c] = "resim",
         \A t \in rt \cap running : is_queued(t) => is_queued(t)'
  PROVE  Placed'
BY DEF Placed

\* Every step keeps Placed.
LEMMA PlacedStep ==
  ASSUME SupportedUse, NPTask = {}, IInv, Placed, [Next]_vars
  PROVE  Placed'
<1> USE DEF IInv
<1>1. np = {} /\ TypeOK /\ NULL \notin Task /\ NO_CPU \notin CPU
  BY ConstantsAssumption DEF Placed
<1>2. CASE UNCHANGED vars
  BY <1>1, <1>2, PlacedKept DEF vars, is_queued
<1>3. ASSUME NEW t \in Task, NEW e \in CPU, NEW m \in AdmitModes, NEW c \in CPU, task_new(t, m, c, e)
      PROVE  Placed'
  <2>1. /\ rt' = rt \cup {t} /\ running' \subseteq running \cup {t} /\ ready' = ready \cup {t}
        /\ linked_on' = [linked_on EXCEPT ![t] = NO_CPU]
        /\ (curr' = curr \/ (curr[c] = NULL /\ curr' = [curr EXCEPT ![c] = t]))
        /\ UNCHANGED <<np, relq, irq, phase>>
    BY <1>3 DEF task_new
  <2>2. t \in ready'
    BY <2>1
  <2>3. ASSUME NEW u \in rt' \cap running', u # t
        PROVE  \/ linked_on'[u] # NO_CPU
               \/ is_queued(u)'
               \/ \E b \in CPU : phase'[b] = "resim" /\ curr'[b] = u
    <3>1. u \in rt \cap running /\ u \in Task
      BY <1>1, <2>1, <2>3 DEF TypeOK
    <3>2. linked_on'[u] = linked_on[u]
      BY <1>1, <2>1, <2>3, <3>1 DEF TypeOK
    <3>3. \A b \in CPU : curr[b] = u => curr'[b] = u
      BY <1>1, <2>1, <3>1 DEF TypeOK
    <3> QED BY <2>1, <3>1, <3>2, <3>3 DEF Placed, is_queued
  <2> QED BY <1>1, <2>1, <2>2, <2>3 DEF Placed, is_queued
<1>4. ASSUME NEW t \in Task, NEW e \in CPU, task_exit(t, e) PROVE Placed'
  <2>1. /\ rt' = rt \ {t} /\ running' = running \cup {t} /\ np' = np \ {t}
        /\ unlinked(t) /\ ready \ {t} \subseteq ready'
        /\ curr' = (IF curr[e] = t THEN [curr EXCEPT ![e] = NULL] ELSE curr)
        /\ UNCHANGED <<relq, irq, phase>>
    BY <1>4 DEF task_exit, unlink
  <2>2. ASSUME NEW u \in rt' \cap running'
        PROVE  \/ linked_on'[u] # NO_CPU
               \/ is_queued(u)'
               \/ \E b \in CPU : phase'[b] = "resim" /\ curr'[b] = u
    <3>1. u \in rt \cap running /\ u \in Task /\ u # t
      BY <1>1, <2>1 DEF TypeOK
    <3>2. linked_on'[u] = linked_on[u]
      BY <1>1, <2>1, <3>1 DEF TypeOK, unlinked
    <3>3. \A b \in CPU : curr[b] = u => curr'[b] = u
      BY <1>1, <2>1, <3>1 DEF TypeOK
    <3> QED BY <2>1, <3>1, <3>2, <3>3 DEF Placed, is_queued
  <2> QED BY <1>1, <2>1, <2>2 DEF Placed
<1>5. ASSUME NEW t \in Task, NEW e \in CPU, wake(t, e) PROVE Placed'
  <2>1. running' = running \cup {t} /\ UNCHANGED <<np, rt, linked_on, curr, phase, irq>>
    BY <1>5 DEF wake
  <2>2. ready \subseteq ready' /\ relq \subseteq relq' /\ t \in ready' \cup relq'
    BY <1>5 DEF wake, task_wake_up, job_arrival
  <2> QED BY <1>1, <2>1, <2>2 DEF Placed, is_queued
<1>6. ASSUME NEW c \in CPU, NEW r \in 0 .. now, on_release_timer(c, r) PROVE Placed'
  <2>1. \A t \in Task : is_queued(t) => is_queued(t)'
    BY <1>1, <1>6 DEF on_release_timer, is_queued, Open, Busy, TypeOK
  <2> QED BY <1>1, <1>6, <2>1, PlacedKept DEF on_release_timer, TypeOK
<1>7. ASSUME NEW c \in CPU, release_jobs(c) PROVE Placed'
  <2>1. \A t \in Task : is_queued(t) => is_queued(t)'
    BY <1>1, <1>7 DEF release_jobs, is_queued, TypeOK
  <2> QED BY <1>1, <1>7, <2>1, PlacedKept DEF release_jobs, TypeOK
<1>8. ASSUME NEW c \in CPU, exhaust(c) \/ tick(c) \/ reschedule_interrupt(c) \/ enter_np(c) \/ exit_np(c)
      PROVE  Placed'
  <2>1. np' = {} /\ UNCHANGED <<rt, running, linked_on, curr, phase, ready, relq, irq>>
    BY <1>1, <1>8 DEF exhaust, tick, reschedule_interrupt, enter_np, exit_np
  <2> QED BY <2>1, PlacedKept DEF is_queued
<1>9. ASSUME NEW c \in CPU, schedule(c) \/ complete_job(c) PROVE Placed'
  <2>1. UNCHANGED <<np, rt, running, linked_on, curr, ready, relq, irq>>
    BY <1>9 DEF schedule, complete_job
  <2>2. \A b \in CPU : phase[b] = "resim" => phase'[b] = "resim"
    BY <1>1, <1>9 DEF schedule, complete_job, TypeOK, Open
  <2> QED BY <1>1, <2>1, <2>2, PlacedKept DEF is_queued
<1>10. ASSUME NEW c \in CPU, block(c) PROVE Placed'
  <2>1. curr[c] \in Task
    BY <1>10, ConstantsAssumption DEF block
  <2>2. /\ running' = running \ {curr[c]} /\ unlinked(curr[c]) /\ ready \ {curr[c]} \subseteq ready'
        /\ phase[c] = "run" /\ phase' = [phase EXCEPT ![c] = "sched"]
        /\ UNCHANGED <<np, rt, relq, irq, curr>>
    BY <1>10 DEF block, unlink, Open
  <2>3. \A u \in Task \ {curr[c]} : linked_on'[u] = linked_on[u]
    BY <1>1, <2>1, <2>2 DEF unlinked, TypeOK
  <2>4. \A b \in CPU : phase[b] = "resim" => phase'[b] = "resim"
    BY <1>1, <2>2 DEF TypeOK
  <2> QED BY <1>1, <2>2, <2>3, <2>4 DEF Placed, is_queued, TypeOK
<1>11. ASSUME NEW c \in CPU, gsnedf_schedule(c) PROVE Placed'
  <2> DEFINE s == scheduled[c]
  <2>1. UNCHANGED <<np, rt, running, irq, curr, phase>>
    BY <1>11 DEF gsnedf_schedule
  <2>2. s = NULL \/ s \in Task
    BY <1>1 DEF TypeOK
  <2>3. \/ s # NULL /\ s \notin running /\ unlink(s)
        \/ s # NULL /\ unlinked(s) /\ s \in ready' \cup relq' /\ ready \subseteq ready' /\ relq \subseteq relq'
        \/ UNCHANGED <<queueVars, linkVars>>
    <3>1. s \notin np
      BY <1>1
    <3>2. Enforced \subseteq Task
      BY ConstantsAssumption
    <3> QED BY <1>1, <1>11, <3>1, <3>2 DEF gsnedf_schedule
  <2>4. CASE s # NULL /\ s \notin running /\ unlink(s)
    <3>1. (\A u \in Task \ {s} : linked_on'[u] = linked_on[u]) /\ ready \ {s} \subseteq ready' /\ relq' = relq
      BY <1>1, <2>2, <2>4 DEF unlink, unlinked, TypeOK
    <3> QED BY <1>1, <2>1, <2>4, <3>1 DEF Placed, is_queued, TypeOK
  <2>5. CASE s # NULL /\ unlinked(s) /\ s \in ready' \cup relq' /\ ready \subseteq ready' /\ relq \subseteq relq'
    <3>1. (\A u \in Task \ {s} : linked_on'[u] = linked_on[u])
      BY <1>1, <2>2, <2>5 DEF unlinked, TypeOK
    <3> QED BY <1>1, <2>1, <2>5, <3>1 DEF Placed, is_queued, TypeOK
  <2>6. CASE UNCHANGED <<queueVars, linkVars>>
    BY <1>1, <2>1, <2>6, PlacedKept DEF is_queued
  <2> QED BY <2>3, <2>4, <2>5, <2>6
<1>12. ASSUME NEW c \in CPU, resim_block(c) PROVE Placed'
  <2>1. /\ curr[c] \in Task /\ unlinked(curr[c]) /\ ready \ {curr[c]} \subseteq ready'
        /\ phase' = [phase EXCEPT ![c] = "resim"]
        /\ UNCHANGED <<np, rt, running, relq, irq, curr>>
    BY <1>1, <1>12 DEF resim_block, unlink, PrevUnblocked, TypeOK
  <2>2. \A u \in Task \ {curr[c]} : linked_on'[u] = linked_on[u]
    BY <1>1, <2>1 DEF unlinked, TypeOK
  <2>3. phase'[c] = "resim" /\ \A b \in CPU : phase[b] = "resim" => phase'[b] = "resim"
    BY <1>1, <2>1 DEF TypeOK
  <2> QED BY <1>1, <2>1, <2>2, <2>3 DEF Placed, is_queued, TypeOK
<1>13. ASSUME NEW c \in CPU, resim_wake_up(c) PROVE Placed'
  <2>1. UNCHANGED <<np, rt, running, linked_on, curr, irq>> /\ phase' = [phase EXCEPT ![c] = "attach"]
    BY <1>13 DEF resim_wake_up
  <2>2. ready \subseteq ready' /\ relq \subseteq relq' /\ curr[c] \in ready' \cup relq'
    BY <1>13 DEF resim_wake_up, task_wake_up, job_arrival
  <2>3. \A b \in CPU \ {c} : phase'[b] = phase[b]
    BY <1>1, <2>1 DEF TypeOK
  <2> QED BY <1>1, <2>1, <2>2, <2>3 DEF Placed, is_queued
<1>14. ASSUME NEW c \in CPU, attach(c) PROVE Placed'
  <2>1. UNCHANGED <<np, rt, running, linked_on, curr, ready, relq, irq>>
    BY <1>14 DEF attach
  <2>2. \A b \in CPU : phase[b] = "resim" => phase'[b] = "resim"
    BY <1>1, <1>14 DEF attach, StackFree, TypeOK
  <2> QED BY <1>1, <2>1, <2>2, PlacedKept DEF is_queued
<1>15. ASSUME NEW c \in CPU, finish_switch(c) PROVE Placed'
  <2>1. UNCHANGED <<np, rt, running, linked_on, ready, relq, irq>>
    BY <1>15 DEF finish_switch
  <2>2. \A b \in CPU : phase[b] = "resim" => phase'[b] = "resim" /\ curr'[b] = curr[b]
    BY <1>1, <1>15 DEF finish_switch, TypeOK
  <2> QED BY <1>1, <2>1, <2>2 DEF Placed, is_queued
<1>16. ASSUME NEW c \in CPU, NEW t \in ready, link_task_to_cpu(t, c), ready \ {t} \subseteq ready',
              relq \subseteq relq', linked[c] = NULL \/ linked[c] \in ready' \cup relq',
              UNCHANGED <<np, rt, running, irq, curr, phase>>
       PROVE  Placed'
  <2>1. t \in Task
    BY <1>1 DEF TypeOK
  <2>2. /\ linked_on'[t] # NO_CPU
        /\ \A u \in Task \ {t} : u # linked[c] /\ linked_on[u] # NO_CPU => linked_on'[u] # NO_CPU
    BY <1>1, <1>16, <2>1, Relinking
  <2> QED BY <1>1, <1>16, <2>2 DEF Placed, is_queued, TypeOK
<1>17. CASE check_for_preemptions
  <2>1. PICK c \in CPU, t \in ready :
          /\ link_task_to_cpu(t, c) /\ ready \ {t} \subseteq ready' /\ relq \subseteq relq'
          /\ linked[c] = NULL \/ linked[c] \in ready' \cup relq'
    BY <1>17 DEF check_for_preemptions
  <2> QED BY <1>16, <1>17, <2>1 DEF check_for_preemptions
<1>18. CASE link_pending
  <2>1. CASE UNCHANGED <<ready, linkVars>>
    BY <1>1, <1>18, <2>1, PlacedKept DEF link_pending, is_queued
  <2>2. CASE \E t \in ready : linked[lock.cpu] = NULL /\ ready' = ready \ {t} /\ link_task_to_cpu(t, lock.cpu)
    <3>1. lock.cpu \in CPU
      BY <1>18 DEF link_pending, LockOwner
    <3> QED BY <1>16, <1>18, <2>2, <3>1 DEF link_pending
  <2> QED BY <1>18, <2>1, <2>2 DEF link_pending
<1>19. CASE check_done \/ clock
  BY <1>1, <1>19, PlacedKept DEF check_done, clock, is_queued
<1>20. CASE decide
  <2>1. UNCHANGED <<np, rt, running, linked_on, curr, ready, relq, irq>>
    BY <1>20 DEF decide
  <2>2. \A b \in CPU : phase[b] = "resim" => phase'[b] = "resim"
    BY <1>1, <1>20 DEF decide, LockOwner, TypeOK
  <2> QED BY <1>1, <2>1, <2>2, PlacedKept DEF is_queued
<1>21. CASE Handler
  BY <1>3, <1>4, <1>5, <1>6, <1>7, <1>8, <1>21 DEF Handler
<1>22. CASE Schedule
  <2>1. ~ \E c \in CPU : spin_timeout(c)
    BY DEF spin_timeout, SupportedUse
  <2> QED BY <1>9, <1>10, <1>11, <1>12, <1>13, <1>14, <1>15, <1>22, <2>1 DEF Schedule
<1> QED BY <1>2, <1>17, <1>18, <1>19, <1>20, <1>21, <1>22 DEF Next

\* Without non-preemptive sections no runnable real-time task is lost: it is
\* linked, or queued, or it executes.
THEOREM NoneLost ==
  ASSUME SupportedUse, NPTask = {}
  PROVE  Spec => []NoLostTask
<1>1. Init => Placed
  BY DEF Init, Placed
<1>2. IInv /\ Placed /\ [Next]_vars => Placed'
  BY PlacedStep
<1>3. Placed => NoLostTask
  BY DEF Placed, NoLostTask
<1> QED BY <1>1, <1>2, <1>3, Invariance, PTL DEF Spec

-----------------------------------------------------------------------------
(* The EDF order of linked and ready jobs                                  *)

\* A non-empty set of numbers has a least element.
LEMMA LeastNumber ==
  ASSUME NEW S \in SUBSET Nat, S # {}
  PROVE  \E x \in S : \A y \in S : x <= y
<1>1. PICK x \in S : \A y \in S : ~(<<y, x>> \in OpToRel(<, Nat))
  BY NatLessThanWellFounded, WFMin
<1>2. ASSUME NEW y \in S PROVE x <= y
  <2>1. ~(y < x)
    BY <1>1 DEF OpToRel
  <2> QED BY <2>1
<1> QED BY <1>2

\* edf_higher_prio() orders the real-time tasks linearly: equal deadlines are
\* told apart by the pid.
LEMMA PriorityOrder ==
  ASSUME TypeOK, NEW a \in rt, NEW b \in rt, NEW d \in rt
  PROVE  /\ ~edf_higher_prio(a, a)
         /\ a # b => edf_higher_prio(a, b) \/ edf_higher_prio(b, a)
         /\ edf_higher_prio(a, b) => ~edf_higher_prio(b, a)
         /\ edf_higher_prio(a, b) /\ edf_higher_prio(b, d) => edf_higher_prio(a, d)
<1>1. /\ a \in Nat /\ b \in Nat /\ d \in Nat
      /\ a # NULL /\ b # NULL /\ d # NULL
      /\ deadline[a] \in Nat /\ deadline[b] \in Nat /\ deadline[d] \in Nat
  BY ConstantsAssumption DEF TypeOK
<1> QED BY <1>1 DEF edf_higher_prio

\* Every real-time task precedes the absence of a task.
LEMMA BeforeNone ==
  ASSUME TypeOK, NEW a \in rt
  PROVE  edf_higher_prio(a, NULL)
<1>1. NULL \notin rt
  BY ConstantsAssumption DEF TypeOK
<1> QED BY <1>1 DEF edf_higher_prio

\* __take_ready() takes a task from a ready queue that is not empty.
LEMMA FirstReady ==
  ASSUME TypeOK, ready \subseteq rt, ready # {}
  PROVE  \E t \in ready : next_ready(t)
<1>1. Task \subseteq Nat /\ \A t \in Task : deadline[t] \in Nat
  BY ConstantsAssumption DEF TypeOK
<1> DEFINE D == {deadline[t] : t \in ready}
<1>2. PICK d \in D : \A e \in D : d <= e
  <2>0. \A t \in ready : deadline[t] \in Nat
    BY <1>1 DEF TypeOK
  <2>1. D \in SUBSET Nat /\ D # {}
    BY <2>0
  <2> HIDE DEF D
  <2> QED BY <2>1, LeastNumber
<1> DEFINE P == {t \in ready : deadline[t] = d}
<1>3. PICK x \in P : \A y \in P : x <= y
  <2>1. P \in SUBSET Nat /\ P # {}
    BY <1>1, <1>2 DEF TypeOK
  <2> HIDE DEF P
  <2> QED BY <2>1, LeastNumber
<1>4. ASSUME NEW u \in ready PROVE ~edf_higher_prio(u, x)
  <2>1. /\ x \in ready /\ x \in rt /\ deadline[x] = d /\ u \in Nat /\ x \in Nat
        /\ deadline[u] \in Nat /\ d \in Nat
    BY <1>1, <1>2, <1>3 DEF TypeOK
  <2>2. d <= deadline[u]
    BY <1>2
  <2>3. deadline[u] = d => x <= u
    BY <1>3
  <2> QED BY <2>1, <2>2, <2>3 DEF edf_higher_prio
<1> QED BY <1>3, <1>4 DEF next_ready

\* gsnedf_cpu_heap has a lowest-priority processor on top: one without a link
\* if there is one.
LEMMA LastLinked ==
  ASSUME TypeOK, IsFiniteSet(CPU), CPU # {},
         \A c \in CPU : linked[c] # NULL => linked[c] \in rt
  PROVE  \E c \in CPU : lowest_prio_cpu(c)
<1> DEFINE later(c) == {d \in CPU : edf_higher_prio(linked[c], linked[d])}
<1>1. \A c \in CPU : later(c) \in SUBSET CPU /\ IsFiniteSet(later(c)) /\ Cardinality(later(c)) \in Nat
  BY FS_Subset, FS_CardinalityType
<1>2. CASE \E c \in CPU : linked[c] = NULL
  BY <1>2 DEF lowest_prio_cpu, edf_higher_prio
<1>3. CASE \A c \in CPU : linked[c] # NULL
  <2> DEFINE N == {Cardinality(later(c)) : c \in CPU}
  <2>1. PICK n \in N : \A m \in N : n <= m
    <3>1. N \in SUBSET Nat /\ N # {}
      BY <1>1
    <3> HIDE DEF N
    <3> QED BY <3>1, LeastNumber
  <2>2. PICK c \in CPU : Cardinality(later(c)) = n
    BY <2>1
  <2>3. ASSUME NEW d \in CPU, edf_higher_prio(linked[c], linked[d]) PROVE FALSE
    <3>1. linked[c] \in rt /\ linked[d] \in rt /\ \A e \in CPU : linked[e] \in rt
      BY <1>3
    <3>2. d \in later(c) /\ d \notin later(d)
      BY <2>3, <3>1, PriorityOrder
    <3>3. \A e \in later(d) : e \in later(c)
      BY <2>3, <3>1, PriorityOrder
    <3>4. later(d) \in SUBSET later(c) /\ later(d) # later(c)
      BY <3>2, <3>3
    <3>5. Cardinality(later(d)) <= Cardinality(later(c)) /\ Cardinality(later(d)) # Cardinality(later(c))
      <4> HIDE DEF later
      <4> QED BY <1>1, <3>4, FS_Subset
    <3>6. n <= Cardinality(later(d))
      BY <2>1
    <3> HIDE DEF later
    <3> QED BY <1>1, <2>2, <3>5, <3>6
  <2> QED BY <2>3 DEF lowest_prio_cpu
<1> QED BY <1>2, <1>3

\* Linked and queued tasks are real-time tasks.
LEMMA PlacedTasks ==
  ASSUME IInv
  PROVE  /\ ready \subseteq rt \cap running
         /\ \A c \in CPU : linked[c] # NULL => linked[c] \in rt \cap running
         /\ TypeOK /\ NULL \notin Task /\ NO_CPU \notin CPU
<1>1. TypeOK /\ NULL \notin Task /\ NO_CPU \notin CPU
  BY ConstantsAssumption DEF IInv
<1>2. ready \subseteq rt \cap running
  BY <1>1 DEF IInv, PlacedRuns, is_queued, TypeOK
<1>3. ASSUME NEW c \in CPU, linked[c] # NULL PROVE linked[c] \in rt \cap running
  <2>1. linked[c] \in Task /\ linked_on[linked[c]] = c
    BY <1>1, <1>3 DEF IInv, TypeOK, LinksAgree
  <2> QED BY <1>1, <2>1 DEF IInv, PlacedRuns
<1> QED BY <1>1, <1>2, <1>3

\* When the loop of check_for_preemptions() ends while jobs are ready, every
\* processor has a link and no ready job precedes any of them, although only
\* one ready job and one processor have been compared.
LEMMA LoopEnd ==
  ASSUME IInv, IsFiniteSet(CPU),
         ~ \E c \in CPU, t \in ready : lowest_prio_cpu(c) /\ edf_preemption_needed(t, c)
  PROVE  \A t \in ready, c \in CPU : linked[c] # NULL /\ ~edf_higher_prio(t, linked[c])
<1> SUFFICES ASSUME NEW t \in ready, NEW c \in CPU
             PROVE  linked[c] # NULL /\ ~edf_higher_prio(t, linked[c])
  OBVIOUS
<1>0. TypeOK /\ ready \subseteq rt /\ \A d \in CPU : linked[d] # NULL => linked[d] \in rt
  BY PlacedTasks
<1>1. PICK f \in ready : next_ready(f)
  BY <1>0, FirstReady
<1>2. PICK z \in CPU : lowest_prio_cpu(z)
  BY <1>0, LastLinked
<1>3. ~edf_higher_prio(f, linked[z])
  BY <1>1, <1>2 DEF edf_preemption_needed
<1>4. linked[z] # NULL /\ linked[z] \in rt /\ f \in rt /\ t \in rt
  BY <1>0, <1>3, BeforeNone
<1>5. linked[c] # NULL /\ linked[c] \in rt
  BY <1>0, <1>2, <1>4, BeforeNone DEF lowest_prio_cpu
<1>6. linked[c] = linked[z] \/ edf_higher_prio(linked[c], linked[z])
  BY <1>0, <1>2, <1>4, <1>5, PriorityOrder DEF lowest_prio_cpu
<1>7. t = f \/ edf_higher_prio(f, t)
  BY <1>0, <1>1, <1>4, PriorityOrder DEF next_ready
<1>8. ASSUME edf_higher_prio(t, linked[c]) PROVE FALSE
  <2>1. edf_higher_prio(t, linked[z])
    BY <1>0, <1>4, <1>5, <1>6, <1>8, PriorityOrder
  <2>2. edf_higher_prio(f, linked[z])
    BY <1>0, <1>4, <1>7, <2>1, PriorityOrder
  <2> QED BY <1>3, <2>2
<1> QED BY <1>5, <1>8

\* A step that adds no ready job and links only tasks that were linked, or the
\* first ready one, keeps the order.
LEMMA OrderKept ==
  ASSUME Ordered, lock.pc \notin {"check", "schedcheck"},
         ready' \subseteq ready, UNCHANGED <<deadline, rt>>,
         \A d \in CPU : \/ linked'[d] = NULL
                        \/ \E e \in CPU : linked'[d] = linked[e]
                        \/ next_ready(linked'[d])
  PROVE  Ordered'
<1> SUFFICES ASSUME NEW t \in ready', NEW c \in CPU, linked'[c] # NULL
             PROVE  ~edf_higher_prio(t, linked'[c])
  BY DEF Ordered, edf_higher_prio
<1>1. CASE \E e \in CPU : linked'[c] = linked[e]
  BY <1>1 DEF Ordered
<1>2. CASE next_ready(linked'[c])
  BY <1>2 DEF next_ready
<1> QED BY <1>1, <1>2

\* Every step keeps the order: the loop of check_for_preemptions() restores it,
\* and "link pending task" takes the first ready one.
LEMMA OrderedStep ==
  ASSUME SupportedUse, IsFiniteSet(CPU), IInv, Ordered, [Next]_vars
  PROVE  Ordered'
<1>1. /\ ready \subseteq rt /\ TypeOK /\ NULL \notin Task /\ NO_CPU \notin CPU
      /\ \A d \in CPU : linked[d] # NULL => linked[d] \in rt
  BY PlacedTasks
<1>2. CASE lock'.pc \in {"check", "schedcheck"}
  BY <1>2 DEF Ordered
<1>3. CASE UNCHANGED <<ready, linked, deadline, rt>> /\ lock.pc \notin {"check", "schedcheck"}
  BY <1>3, OrderKept
<1>4. ASSUME NEW t \in Task, NEW e \in CPU, task_exit(t, e) PROVE Ordered'
  <2>1. /\ rt' = rt \ {t} /\ unlinked(t) /\ deadline' = [deadline EXCEPT ![t] = 0]
        /\ ready' = (IF linked_on[t] = NO_CPU THEN ready \ {t} ELSE ready)
        /\ lock' = lock /\ lock = Free
    BY <1>4 DEF task_exit, unlink
  <2>2. t \notin ready' /\ ready' \subseteq ready
    BY <2>1 DEF IInv, OnePlace, is_queued
  <2>3. \A c \in CPU : linked'[c] # NULL => linked'[c] = linked[c] /\ linked[c] # t
    <3>1. \A c \in CPU : linked'[c] = IF c = linked_on[t] THEN NULL ELSE linked[c]
      BY <2>1 DEF unlinked
    <3> QED BY <3>1 DEF IInv, LinksAgree
  <2> SUFFICES ASSUME NEW u \in ready', NEW c \in CPU, linked'[c] # NULL
               PROVE  ~edf_higher_prio(u, linked[c])'
    BY DEF Ordered
  <2>4. ~edf_higher_prio(u, linked[c])
    BY <2>1, <2>2, <2>3 DEF Ordered, Free
  <2>5. linked[c] \in rt /\ linked[c] \in rt' /\ linked[c] # NULL
    BY <1>1, <2>1, <2>3
  <2>6. deadline'[u] = deadline[u] /\ deadline'[linked[c]] = deadline[linked[c]]
    BY <1>1, <2>1, <2>2, <2>3, <2>5 DEF TypeOK
  <2> QED BY <2>3, <2>4, <2>5, <2>6 DEF edf_higher_prio
<1>5. ASSUME NEW t \in Task, unlink(t), UNCHANGED <<deadline, rt>>, lock = Free PROVE Ordered'
  <2>1. ready' \subseteq ready /\ \A d \in CPU : linked'[d] = NULL \/ linked'[d] = linked[d]
    BY <1>5 DEF unlink, unlinked
  <2> QED BY <1>5, <2>1, OrderKept DEF Free
<1>6. CASE UNCHANGED vars
  BY <1>2, <1>3, <1>6 DEF vars
<1>7. CASE Handler
  <2>1. ASSUME NEW t \in Task, NEW e \in CPU, wake(t, e) PROVE Ordered'
    BY <1>2, <2>1 DEF wake, task_wake_up, job_arrival
  <2>2. ASSUME NEW t \in Task, NEW e \in CPU, NEW m \in AdmitModes, NEW c \in CPU, task_new(t, m, c, e)
        PROVE  Ordered'
    BY <1>2, <2>2 DEF task_new
  <2>3. ASSUME NEW c \in CPU, NEW r \in 0 .. now, on_release_timer(c, r) PROVE Ordered'
    BY <1>2, <1>3, <2>3 DEF on_release_timer
  <2>4. ASSUME NEW c \in CPU, release_jobs(c) PROVE Ordered'
    BY <1>2, <2>4 DEF release_jobs
  <2>5. ASSUME NEW c \in CPU, exhaust(c) \/ tick(c) \/ reschedule_interrupt(c) \/ enter_np(c) \/ exit_np(c)
        PROVE  Ordered'
    BY <1>2, <1>3, <2>5 DEF exhaust, tick, reschedule_interrupt, enter_np, exit_np
  <2> QED BY <1>4, <1>7, <2>1, <2>2, <2>3, <2>4, <2>5 DEF Handler
<1>8. CASE Schedule
  <2>1. ~ \E c \in CPU : spin_timeout(c)
    BY DEF spin_timeout, SupportedUse
  <2>2. ASSUME NEW c \in CPU, schedule(c) \/ complete_job(c) \/ attach(c) \/ finish_switch(c) PROVE Ordered'
    BY <1>2, <1>3, <2>2 DEF schedule, complete_job, attach, finish_switch
  <2>3. ASSUME NEW c \in CPU, block(c) PROVE Ordered'
    <3>1. curr[c] \in Task
      BY <2>3, ConstantsAssumption DEF block
    <3> QED BY <1>5, <2>3, <3>1 DEF block
  <2>4. ASSUME NEW c \in CPU, resim_block(c) PROVE Ordered'
    <3>1. curr[c] \in Task
      BY <1>1, <2>4 DEF resim_block, PrevUnblocked, TypeOK
    <3> QED BY <1>5, <2>4, <3>1 DEF resim_block
  <2>5. ASSUME NEW c \in CPU, resim_wake_up(c) PROVE Ordered'
    BY <1>2, <2>5 DEF resim_wake_up, task_wake_up, job_arrival
  <2>6. ASSUME NEW c \in CPU, gsnedf_schedule(c) PROVE Ordered'
    <3>1. UNCHANGED rt /\ lock = Free
      BY <2>6 DEF gsnedf_schedule
    <3>2. \/ scheduled[c] \in Task /\ unlink(scheduled[c]) /\ UNCHANGED deadline
          \/ lock'.pc = "schedcheck"
          \/ UNCHANGED <<ready, linked, deadline>>
      <4>1. np \subseteq Task /\ scheduled[c] \in Task \cup {NULL}
        BY <1>1 DEF TypeOK
      <4> QED BY <2>6, <4>1 DEF gsnedf_schedule
    <3> QED BY <1>2, <1>3, <1>5, <3>1, <3>2 DEF Free
  <2> QED BY <1>8, <2>1, <2>2, <2>3, <2>4, <2>5, <2>6 DEF Schedule
<1>9. CASE check_for_preemptions
  BY <1>2, <1>9 DEF check_for_preemptions
<1>10. CASE check_done
  <2>1. \A t \in ready, c \in CPU : ~edf_higher_prio(t, linked[c])
    BY <1>10, LoopEnd DEF check_done
  <2> QED BY <1>10, <2>1 DEF check_done, Ordered, edf_higher_prio
<1>11. CASE link_pending
  <2>1. lock.pc = "link" /\ UNCHANGED <<deadline, rt>>
    BY <1>11 DEF link_pending
  <2>2. CASE UNCHANGED <<ready, linked>>
    BY <1>3, <2>1, <2>2
  <2>3. ASSUME NEW t \in ready, next_ready(t), ready' = ready \ {t}, link_task_to_cpu(t, lock.cpu)
        PROVE  Ordered'
    <3>1. scheduled_on[t] \in CPU \cup {NO_CPU}
      BY <1>1 DEF TypeOK
    <3>2. \A d \in CPU : linked'[d] = t \/ \E e \in CPU : linked'[d] = linked[e]
      BY <2>3, <3>1 DEF link_task_to_cpu
    <3> QED BY <2>1, <2>3, <3>2, OrderKept
  <2> QED BY <1>11, <2>2, <2>3 DEF link_pending
<1>12. CASE decide \/ clock
  BY <1>2, <1>3, <1>12 DEF decide, clock
<1> QED BY <1>6, <1>7, <1>8, <1>9, <1>10, <1>11, <1>12 DEF Next

\* A step that gives no new work, takes no link and keeps the processors
\* without one where they are.
LEMMA AssignedKept ==
  ASSUME Assigned, lock.pc \notin {"check", "schedcheck"},
         ready' \subseteq ready, ~Resimulating' => ~Resimulating,
         \A d \in CPU : linked'[d] = NULL =>
           (linked[d] = NULL /\ (LooksForTask(d) => LooksForTask(d)')) \/ LooksForTask(d)'
  PROVE  Assigned'
BY DEF Assigned

\* A task that runs, and not yet on its way out, has its link on its processor.
LEMMA LinkAtHome ==
  ASSUME IInv, NEW c \in CPU, NEW t \in Task, curr[c] = t, ~Switching(c)
  PROVE  scheduled_on[t] = c /\ linked_on[t] \in {c, NO_CPU}
<1>1. scheduled_on[t] = c
  BY DEF IInv, ScheduledOnFollows
<1> QED BY <1>1, ConstantsAssumption DEF IInv, LinkedWhereScheduled

\* Every step keeps Assigned: a swap of "link pending task" takes the link of a
\* processor that runs the task, and such a processor has one.
LEMMA AssignedStep ==
  ASSUME SupportedUse, IsFiniteSet(CPU), IInv, Assigned, [Next]_vars
  PROVE  Assigned'
<1>1. /\ ready \subseteq rt \cap running /\ TypeOK /\ NULL \notin Task /\ NO_CPU \notin CPU
      /\ Task \cap CPU = {}
  BY PlacedTasks, ConstantsAssumption
<1>2. CASE lock'.pc \in {"check", "schedcheck"}
  BY <1>2 DEF Assigned
<1>3. ASSUME lock.pc \notin {"check", "schedcheck"}, tif \subseteq tif',
             UNCHANGED <<ready, linked, running, phase, curr, lock>>
      PROVE  Assigned'
  BY <1>3, AssignedKept DEF Resimulating, LooksForTask
<1>4. ASSUME NEW t \in Task, NEW e \in CPU, task_exit(t, e) PROVE Assigned'
  <2>1. /\ unlinked(t) /\ ready' \subseteq ready /\ running' = running \cup {t}
        /\ lock' = lock /\ lock = Free /\ phase' = phase /\ phase[e] = "run"
        /\ curr' = (IF curr[e] = t THEN [curr EXCEPT ![e] = NULL] ELSE curr)
        /\ tif' = (IF curr[e] = t THEN (tif \ {t}) \cup {e} ELSE tif \ {t})
        /\ (curr[e] = t \/ (t \notin running /\ stack_in_use[t] = NO_CPU))
    BY <1>4 DEF task_exit, unlink, Open, SupportedUse
  <2>2. \A d \in CPU : linked'[d] = IF d = linked_on[t] THEN NULL ELSE linked[d]
    BY <2>1 DEF unlinked
  <2>3. \A d \in CPU \ {e} : curr[d] # t /\ curr'[d] = curr[d]
    <3>1. \A d \in CPU : curr[d] = t => stack_in_use[t] = d
      BY DEF IInv, StackOwner
    <3> QED BY <1>1, <2>1, <3>1 DEF TypeOK
  <2>4. linked_on[t] = NO_CPU \/ (linked_on[t] = e /\ curr[e] = t)
    <3>1. CASE curr[e] = t
      BY <2>1, <3>1, LinkAtHome DEF Switching
    <3>2. CASE t \notin running
      BY <3>2 DEF IInv, PlacedRuns
    <3> QED BY <2>1, <3>1, <3>2
  <2>5. curr[e] = t => LooksForTask(e)'
    <3>1. ASSUME curr[e] = t PROVE curr'[e] = NULL /\ e \in tif' /\ phase'[e] = "run"
      BY <1>1, <2>1, <3>1 DEF TypeOK
    <3> QED BY <3>1 DEF LooksForTask
  <2>6. ASSUME NEW d \in CPU, linked[d] = NULL, LooksForTask(d), d # e \/ curr[e] # t
        PROVE  LooksForTask(d)'
    <3>1. curr[d] # t /\ curr'[d] = curr[d]
      BY <2>1, <2>3, <2>6
    <3>2. d \in tif => d \in tif'
      BY <1>1, <2>1
    <3> QED BY <2>1, <2>6, <3>1, <3>2 DEF LooksForTask, Free
  <2> QED BY <1>1, <2>1, <2>2, <2>4, <2>5, <2>6, AssignedKept DEF Free, Resimulating
<1>5. CASE UNCHANGED vars
  BY <1>2, <1>3, <1>5 DEF vars
<1>6. CASE Handler
  <2>1. ASSUME NEW t \in Task, NEW e \in CPU, wake(t, e) PROVE Assigned'
    BY <1>2, <2>1 DEF wake, task_wake_up, job_arrival
  <2>2. ASSUME NEW t \in Task, NEW e \in CPU, NEW m \in AdmitModes, NEW c \in CPU, task_new(t, m, c, e)
        PROVE  Assigned'
    BY <1>2, <2>2 DEF task_new
  <2>3. ASSUME NEW c \in CPU, NEW r \in 0 .. now, on_release_timer(c, r) PROVE Assigned'
    BY <1>2, <1>3, <2>3 DEF on_release_timer
  <2>4. ASSUME NEW c \in CPU, release_jobs(c) PROVE Assigned'
    BY <1>2, <2>4 DEF release_jobs
  <2>5. ASSUME NEW c \in CPU, exhaust(c) \/ tick(c) \/ reschedule_interrupt(c) \/ enter_np(c) \/ exit_np(c)
        PROVE  Assigned'
    BY <1>2, <1>3, <2>5 DEF exhaust, tick, reschedule_interrupt, enter_np, exit_np
  <2> QED BY <1>4, <1>6, <2>1, <2>2, <2>3, <2>4, <2>5 DEF Handler
<1>7. ASSUME NEW c \in CPU, schedule(c) \/ complete_job(c), lock.pc \notin {"check", "schedcheck"}
      PROVE  Assigned'
  <2>1. /\ UNCHANGED <<ready, linked, running, curr, lock>> /\ tif' = tif \ {Current(c)}
        /\ phase[c] = "run" /\ lock.cpu # c /\ phase' = [phase EXCEPT ![c] = "sched"]
    BY <1>1, <1>7, ConstantsAssumption DEF schedule, complete_job, Open, Busy, Current
  <2>2. phase'[c] = "sched" /\ \A d \in CPU \ {c} : phase'[d] = phase[d] /\ Current(c) # d
    BY <1>1, <2>1 DEF TypeOK, Current
  <2>3. LooksForTask(c) => LooksForTask(c)'
    BY <1>1, <2>1, <2>2 DEF LooksForTask, TypeOK
  <2>4. \A d \in CPU \ {c} : LooksForTask(d) => LooksForTask(d)'
    BY <2>1, <2>2 DEF LooksForTask
  <2>5. Resimulating => Resimulating'
    BY <2>1, <2>2 DEF Resimulating
  <2> QED BY <1>7, <2>1, <2>3, <2>4, <2>5, AssignedKept
<1>8. ASSUME NEW c \in CPU, block(c) PROVE Assigned'
  <2>1. curr[c] \in Task
    BY <1>8, ConstantsAssumption DEF block
  <2>2. /\ running' = running \ {curr[c]} /\ unlinked(curr[c]) /\ ready' \subseteq ready
        /\ phase[c] = "run" /\ phase' = [phase EXCEPT ![c] = "sched"]
        /\ tif' = tif \ {curr[c]} /\ lock = Free /\ UNCHANGED <<curr, lock>>
    BY <1>8 DEF block, unlink, Open
  <2>3. linked_on[curr[c]] \in {c, NO_CPU}
    BY <2>1, <2>2, LinkAtHome DEF Switching
  <2>4. \A d \in CPU \ {c} : linked'[d] = linked[d] /\ phase'[d] = phase[d] /\ curr[c] # d
    BY <1>1, <2>1, <2>2, <2>3 DEF unlinked, TypeOK
  <2>5. phase'[c] = "sched"
    BY <1>1, <2>2 DEF TypeOK
  <2>6. LooksForTask(c)'
    BY <2>2, <2>5 DEF LooksForTask, Free
  <2>7. \A d \in CPU \ {c} : LooksForTask(d) => LooksForTask(d)'
    BY <2>2, <2>4 DEF LooksForTask
  <2>8. Resimulating => Resimulating'
    BY <2>2, <2>4 DEF Resimulating
  <2> QED BY <2>2, <2>4, <2>6, <2>7, <2>8, AssignedKept DEF Free
<1>9. ASSUME NEW c \in CPU, gsnedf_schedule(c) PROVE Assigned'
  <2>1. /\ lock = Free /\ phase[c] = "sched" /\ lock'.cpu = c
        /\ UNCHANGED <<running, phase, curr, tif>>
    BY <1>9 DEF gsnedf_schedule
  <2>2. scheduled[c] = curr[c] /\ np \subseteq Task /\ scheduled[c] \in Task \cup {NULL}
    BY <1>1 DEF IInv, EntryFollows, TypeOK
  <2>3. \/ scheduled[c] \in Task /\ unlink(scheduled[c]) /\ lock'.pc = "link"
        \/ lock'.pc = "schedcheck"
        \/ UNCHANGED <<ready, linked>> /\ lock'.pc = "link"
    BY <1>9, <2>2 DEF gsnedf_schedule
  <2>4. ASSUME ready' \subseteq ready, lock'.pc = "link",
               \A d \in CPU \ {c} : linked'[d] = linked[d]
        PROVE  Assigned'
    <3>1. LooksForTask(c)'
      BY <2>1, <2>4 DEF LooksForTask
    <3>2. \A d \in CPU \ {c} : LooksForTask(d) => LooksForTask(d)'
      BY <2>1, <2>4 DEF LooksForTask, Free
    <3> QED BY <2>1, <2>4, <3>1, <3>2, AssignedKept DEF Free, Resimulating
  <2>5. CASE scheduled[c] \in Task /\ unlink(scheduled[c]) /\ lock'.pc = "link"
    <3>1. linked_on[scheduled[c]] \in {c, NO_CPU}
      BY <2>1, <2>2, <2>5, LinkAtHome DEF Switching
    <3> QED BY <1>1, <2>4, <2>5, <3>1 DEF unlink, unlinked
  <2> QED BY <1>2, <2>3, <2>4, <2>5
<1>10. ASSUME NEW c \in CPU, attach(c) \/ finish_switch(c), lock.pc \notin {"check", "schedcheck"}
       PROVE  Assigned'
  <2>1. /\ UNCHANGED <<ready, linked, running, tif, lock>> /\ phase[c] \in {"wait", "attach", "switch"}
        /\ \A d \in CPU \ {c} : phase'[d] = phase[d] /\ curr'[d] = curr[d]
    BY <1>1, <1>10 DEF attach, finish_switch, StackFree, TypeOK
  <2>2. ~LooksForTask(c)
    BY <2>1 DEF LooksForTask, IInv, LockOwner
  <2>3. \A d \in CPU \ {c} : LooksForTask(d) => LooksForTask(d)'
    BY <2>1 DEF LooksForTask
  <2>4. Resimulating => Resimulating'
    BY <2>1 DEF Resimulating
  <2> QED BY <1>10, <2>1, <2>2, <2>3, <2>4, AssignedKept
<1>11. CASE Schedule
  <2>1. ~ \E c \in CPU : spin_timeout(c)
    BY DEF spin_timeout, SupportedUse
  <2>2. ASSUME NEW c \in CPU, schedule(c) \/ complete_job(c) \/ attach(c) \/ finish_switch(c) PROVE Assigned'
    <3>1. lock' = lock
      BY <2>2 DEF schedule, complete_job, attach, finish_switch
    <3> QED BY <1>2, <1>7, <1>10, <2>2, <3>1
  <2>3. ASSUME NEW c \in CPU, resim_block(c) PROVE Assigned'
    <3>1. phase'[c] = "resim"
      BY <1>1, <2>3 DEF resim_block, TypeOK
    <3> QED BY <3>1 DEF Assigned, Resimulating
  <2>4. ASSUME NEW c \in CPU, resim_wake_up(c) PROVE Assigned'
    BY <1>2, <2>4 DEF resim_wake_up, task_wake_up, job_arrival
  <2> QED BY <1>8, <1>9, <1>11, <2>1, <2>2, <2>3, <2>4 DEF Schedule
<1>12. CASE check_for_preemptions
  BY <1>2, <1>12 DEF check_for_preemptions
<1>13. CASE check_done
  <2>1. \A t \in ready, c \in CPU : linked[c] # NULL
    BY <1>13, LoopEnd DEF check_done
  <2> QED BY <1>13, <2>1 DEF check_done, Assigned
<1>14. CASE link_pending
  <2>0. PICK c \in CPU : c = lock.cpu
    BY <1>14 DEF link_pending, IInv, LockOwner
  <2>1. /\ lock.pc = "link" /\ lock'.pc = "decide" /\ lock'.cpu = c
        /\ UNCHANGED <<running, phase, curr, tif>>
    BY <1>1, <1>14, <2>0 DEF link_pending, TypeOK
  <2>2. \A d \in CPU \ {c} : LooksForTask(d) => LooksForTask(d)'
    BY <2>0, <2>1 DEF LooksForTask
  <2>3. CASE UNCHANGED <<ready, linked>> /\ (linked[c] # NULL \/ ready = {})
    BY <2>1, <2>2, <2>3, AssignedKept DEF Resimulating, Assigned
  <2>4. ASSUME NEW t \in ready, ready' = ready \ {t}, link_task_to_cpu(t, c)
        PROVE  Assigned'
    <3>1. t \in Task /\ t \in running /\ t # NULL /\ scheduled_on[t] \in CPU \cup {NO_CPU}
      BY <1>1 DEF TypeOK
    <3>2. PICK s \in CPU \cup {NO_CPU} : s = scheduled_on[t]
      BY <3>1
    <3>3. /\ s = NO_CPU \/ s = c => linked'[c] = t
          /\ s # NO_CPU /\ s # c => linked'[c] = linked[s] /\ linked'[s] = t
          /\ \A d \in CPU \ {c, s} : linked'[d] = linked[d]
      BY <2>4, <3>1, <3>2 DEF link_task_to_cpu
    <3>4. ASSUME s # NO_CPU, s # c PROVE ~LooksForTask(s)
      <4>1. s \in CPU /\ (IF Switching(s) THEN next[s] = t ELSE curr[s] = t)
        BY <3>1, <3>2, <3>4 DEF IInv, ScheduledOnFollows
      <4>2. ASSUME LooksForTask(s) PROVE FALSE
        <5>1. ~Switching(s) /\ (curr[s] = NULL \/ curr[s] \notin running)
          BY <2>0, <2>1, <3>4, <4>2 DEF LooksForTask, Switching
        <5> QED BY <3>1, <4>1, <5>1
      <4> QED BY <4>2
    <3>5. ASSUME lock'.pc \notin {"check", "schedcheck"}, ready' # {}, ~Resimulating',
                 NEW d \in CPU, linked'[d] = NULL
          PROVE  LooksForTask(d)'
      <4>1. \A b \in CPU : linked[b] = NULL => LooksForTask(b)
        BY <2>1, <2>4, <3>5 DEF Assigned, Resimulating
      <4>2. CASE d = c
        <5>1. s # NO_CPU /\ s # c /\ linked[s] = NULL /\ s \in CPU
          BY <3>1, <3>3, <3>5, <4>2
        <5> QED BY <3>4, <4>1, <5>1
      <4>3. CASE d # c
        <5>1. linked[d] = NULL
          BY <1>1, <3>1, <3>3, <3>5, <4>3
        <5> QED BY <2>2, <4>1, <4>3, <5>1
      <4> QED BY <4>2, <4>3
    <3> QED BY <3>5 DEF Assigned
  <2> QED BY <1>14, <2>0, <2>3, <2>4 DEF link_pending
<1>15. CASE decide
  <2>0. PICK c \in CPU : c = lock.cpu
    BY <1>15 DEF decide, IInv, LockOwner
  <2>1. /\ lock.pc = "decide" /\ lock' = Free /\ phase[c] = "sched"
        /\ UNCHANGED <<ready, linked, running, curr, tif>>
        /\ \A d \in CPU \ {c} : phase'[d] = phase[d]
    BY <1>1, <1>15, <2>0 DEF decide, TypeOK, IInv, LockOwner
  <2>2. ~LooksForTask(c)
    BY <2>0, <2>1 DEF LooksForTask
  <2>3. \A d \in CPU \ {c} : LooksForTask(d) => LooksForTask(d)'
    BY <2>1 DEF LooksForTask, Free
  <2>4. Resimulating => Resimulating'
    BY <2>1 DEF Resimulating
  <2> QED BY <2>1, <2>2, <2>3, <2>4, AssignedKept
<1>16. CASE clock
  BY <1>2, <1>3, <1>16 DEF clock
<1> QED BY <1>5, <1>6, <1>11, <1>12, <1>13, <1>14, <1>15, <1>16 DEF Next

\* No ready job precedes a linked one, and no processor without a link is left
\* alone while jobs are ready, for any number of processors and tasks.
THEOREM PriorityRespected ==
  ASSUME SupportedUse, IsFiniteSet(CPU)
  PROVE  Spec => []EDFOrder
<1>1. Init => Ordered /\ Assigned
  BY DEF Init, Ordered, Assigned
<1>2. IInv /\ Ordered /\ Assigned /\ [Next]_vars => Ordered' /\ Assigned'
  BY OrderedStep, AssignedStep
<1>3. Ordered /\ Assigned => EDFOrder
  <2> SUFFICES ASSUME Ordered, Assigned, lock = Free, NEW t \in ready, NEW c \in CPU
               PROVE  IF linked[c] = NULL
                      THEN WillSchedule(c) \/ Delayed(c) \/ Resimulating
                      ELSE ~edf_higher_prio(t, linked[c])
    BY DEF EDFOrder
  <2>1. CASE linked[c] = NULL
    <3>1. Resimulating \/ LooksForTask(c)
      BY <2>1 DEF Assigned, Free
    <3>2. LooksForTask(c) => WillSchedule(c)
      BY DEF LooksForTask, WillSchedule, Current, Free
    <3> QED BY <2>1, <3>1, <3>2
  <2>2. CASE linked[c] # NULL
    BY <2>2 DEF Ordered, Free
  <2> QED BY <2>1, <2>2
<1> QED BY <1>1, <1>2, <1>3, Invariance, PTL DEF Spec

-----------------------------------------------------------------------------
(* Requests to reschedule                                                  *)

\* Who owns the need_resched flag of a processor.
LEMMA OwnFlag ==
  ASSUME IInv, NEW c \in CPU, NEW d \in CPU, c # d
  PROVE  Current(c) # Current(d) /\ (curr[c] # NULL => curr[c] # curr[d])
<1>1. curr[c] # NULL => curr[c] # curr[d]
  BY UniqueTasks DEF IInv, TypeOK
<1> QED BY <1>1, ConstantsAssumption DEF IInv, TypeOK, Current

\* A step outside of schedule(), or of a processor that does not decide, keeps
\* the facts about non-preemptive sections.
LEMMA NonPreemptiveKept ==
  ASSUME NonPreemptive, np' \subseteq np, rt' \ running' \subseteq rt \ running,
         delayed \subseteq delayed', lock' = lock,
         lock.pc \in {"schedcheck", "link", "decide"} =>
            /\ curr'[lock.cpu] = curr[lock.cpu] /\ linked'[lock.cpu] = linked[lock.cpu]
            /\ curr[lock.cpu] \in np => curr[lock.cpu] \in np',
         \A c \in CPU : Switching(c)' => Switching(c) /\ next'[c] = next[c] /\ curr'[c] = curr[c]
  PROVE  NonPreemptive'
BY DEF NonPreemptive

\* Tasks do not block in non-preemptive sections, gsnedf_schedule() does not
\* take the processor from them, and every step keeps it so.
LEMMA NonPreemptiveStep ==
  ASSUME SupportedUse, NPTask \cap Suspending = {}, IInv, NonPreemptive, [Next]_vars
  PROVE  NonPreemptive'
<1>1. /\ TypeOK /\ NULL \notin Task /\ NO_CPU \notin CPU /\ np \subseteq NPTask
      /\ rt \ running \subseteq Suspending
  BY PlacedTasks DEF NonPreemptive
<1>2. ASSUME UNCHANGED <<np, rt, running, lock, curr, linked, phase, next>>, delayed \subseteq delayed'
      PROVE  NonPreemptive'
  BY <1>2, NonPreemptiveKept DEF Switching
<1>3. ASSUME lock = Free, lock'.pc \in {"free", "check"}, np' \subseteq np,
             rt' \ running' \subseteq Suspending,
             \A c \in CPU : Switching(c)' => Switching(c) /\ next'[c] = next[c] /\ curr'[c] = curr[c]
      PROVE  NonPreemptive'
  BY <1>1, <1>3 DEF NonPreemptive
<1>4. CASE UNCHANGED vars
  BY <1>2, <1>4 DEF vars
<1>5. ASSUME NEW t \in Task, NEW e \in CPU, NEW m \in AdmitModes, NEW c \in CPU, task_new(t, m, c, e)
      PROVE  NonPreemptive'
  <2>1. /\ lock = Free /\ lock'.pc = "check" /\ np' = np /\ rt' = rt \cup {t} /\ running' = running \cup {t}
        /\ UNCHANGED <<phase, next>> /\ \A d \in CPU : curr'[d] = curr[d] \/ phase[d] = "run"
    BY <1>1, <1>5 DEF task_new, SupportedUse, Open, TypeOK
  <2> QED BY <1>1, <1>3, <2>1 DEF Switching
<1>6. ASSUME NEW t \in Task, NEW e \in CPU, task_exit(t, e) PROVE NonPreemptive'
  <2>1. /\ lock = Free /\ lock'.pc = "free" /\ np' \subseteq np /\ rt' = rt \ {t} /\ running' = running \cup {t}
        /\ UNCHANGED <<phase, next>> /\ \A d \in CPU : curr'[d] = curr[d] \/ phase[d] = "run"
    BY <1>1, <1>6 DEF task_exit, Open, TypeOK, Free
  <2> QED BY <1>1, <1>3, <2>1 DEF Switching
<1>7. ASSUME NEW t \in Task, NEW e \in CPU, wake(t, e) PROVE NonPreemptive'
  <2>1. /\ lock = Free /\ lock'.pc = "check" /\ np' \subseteq np /\ rt' = rt /\ running' = running \cup {t}
        /\ UNCHANGED <<phase, next, curr>>
    BY <1>7 DEF wake, task_wake_up, job_arrival
  <2> QED BY <1>1, <1>3, <2>1 DEF Switching
<1>8. ASSUME NEW c \in CPU, NEW r \in 0 .. now, on_release_timer(c, r) PROVE NonPreemptive'
  BY <1>2, <1>8 DEF on_release_timer
<1>9. ASSUME NEW c \in CPU, release_jobs(c) PROVE NonPreemptive'
  BY <1>1, <1>3, <1>9 DEF release_jobs, Switching
<1>10. ASSUME NEW c \in CPU, exhaust(c) \/ tick(c) \/ reschedule_interrupt(c) PROVE NonPreemptive'
  BY <1>2, <1>10 DEF exhaust, tick, reschedule_interrupt
<1>11. ASSUME NEW c \in CPU, enter_np(c) PROVE NonPreemptive'
  <2>1. /\ np' = np \cup {curr[c]} /\ curr[c] \in NPTask /\ curr[c] # NULL
        /\ phase[c] = "run" /\ lock.cpu # c
        /\ UNCHANGED <<rt, running, lock, curr, linked, phase, next, delayed>>
    BY <1>1, <1>11, ConstantsAssumption DEF enter_np, Open, Busy
  <2>2. \A d \in CPU \ {c} : curr[d] # curr[c]
    BY <2>1, OwnFlag
  <2>3. lock.pc \in {"schedcheck", "link", "decide"} => lock.cpu \in CPU
    BY DEF IInv, LockOwner
  <2> QED BY <1>1, <2>1, <2>2, <2>3 DEF NonPreemptive, Switching
<1>12. ASSUME NEW c \in CPU, exit_np(c) PROVE NonPreemptive'
  <2>1. /\ np' = np \ {curr[c]} /\ delayed' = delayed \ {curr[c]} /\ curr[c] # NULL
        /\ phase[c] = "run" /\ lock.cpu # c
        /\ UNCHANGED <<rt, running, lock, curr, linked, phase, next>>
    BY <1>1, <1>12 DEF exit_np, Open, Busy, TypeOK
  <2>2. \A d \in CPU \ {c} : curr[d] # curr[c]
    BY <2>1, OwnFlag
  <2>3. lock.pc \in {"schedcheck", "link", "decide"} => lock.cpu \in CPU
    BY DEF IInv, LockOwner
  <2> QED BY <1>1, <2>1, <2>2, <2>3 DEF NonPreemptive, Switching
<1>13. ASSUME NEW c \in CPU, schedule(c) \/ complete_job(c) PROVE NonPreemptive'
  <2>1. UNCHANGED <<np, rt, running, lock, curr, linked, next, delayed>>
    BY <1>13 DEF schedule, complete_job
  <2>2. \A d \in CPU : Switching(d)' => Switching(d)
    BY <1>1, <1>13 DEF schedule, complete_job, Switching, TypeOK
  <2> QED BY <2>1, <2>2, NonPreemptiveKept
<1>14. ASSUME NEW c \in CPU, block(c) PROVE NonPreemptive'
  <2>1. /\ lock = Free /\ UNCHANGED <<lock, np, rt, curr, next>>
        /\ running' = running \ {curr[c]} /\ curr[c] \in Suspending
    BY <1>14 DEF block
  <2>2. \A d \in CPU : Switching(d)' => Switching(d)
    BY <1>1, <1>14 DEF block, Switching, TypeOK
  <2> QED BY <1>1, <1>3, <2>1, <2>2 DEF Free
<1>15. ASSUME NEW c \in CPU, gsnedf_schedule(c) PROVE NonPreemptive'
  <2>1. /\ UNCHANGED <<np, rt, running, curr, next, phase>>
        /\ scheduled[c] = curr[c] /\ lock'.cpu = c
        /\ lock'.go = (scheduled[c] \notin np \/ (scheduled[c] # NULL /\ scheduled[c] \notin running))
    BY <1>15 DEF gsnedf_schedule, IInv, EntryFollows
  <2>2. lock'.go => curr[c] \notin np
    <3>1. ASSUME curr[c] \in np PROVE curr[c] \in running
      <4>1. curr[c] \in rt /\ curr[c] \in NPTask
        BY <1>1, <3>1, ConstantsAssumption DEF IInv, EntryFollows
      <4> QED BY <1>1, <4>1
    <3> QED BY <2>1, <3>1
  <2>3. ~lock'.go => curr[c] \in np /\ lock'.pc # "schedcheck" /\ (curr[c] \in delayed' \/ linked'[c] = curr[c])
    <3>1. ASSUME ~lock'.go PROVE scheduled[c] \in np
      BY <2>1, <3>1
    <3>2. ASSUME ~lock'.go PROVE lock'.pc # "schedcheck" /\ (scheduled[c] \in delayed' \/ linked'[c] = scheduled[c])
      <4>1. scheduled[c] \in np
        BY <3>1, <3>2
      <4> QED BY <1>15, <4>1 DEF gsnedf_schedule
    <3> QED BY <2>1, <3>1, <3>2
  <2> QED BY <1>1, <2>1, <2>2, <2>3 DEF NonPreemptive, Switching
<1>16. ASSUME NEW c \in CPU, resim_block(c) \/ resim_wake_up(c) PROVE NonPreemptive'
  <2>1. lock = Free /\ UNCHANGED <<np, rt, running, curr, next>> /\ lock'.pc \in {"free", "check"}
    BY <1>16 DEF resim_block, resim_wake_up, task_wake_up, job_arrival, Free
  <2>2. \A d \in CPU : Switching(d)' => Switching(d)
    BY <1>1, <1>16 DEF resim_block, resim_wake_up, StackFree, Switching, TypeOK
  <2> QED BY <1>1, <1>3, <2>1, <2>2
<1>17. ASSUME NEW c \in CPU, attach(c) PROVE NonPreemptive'
  <2>1. UNCHANGED <<np, rt, running, lock, curr, linked, delayed>> /\ phase[c] \in {"wait", "attach"}
    BY <1>17 DEF attach, StackFree
  <2>2. next[c] \in rt \cap running
    BY <2>1 DEF IInv, NextReady, NextReadyAt
  <2>3. next' = next
    BY <1>1, <1>17, <2>2 DEF attach, TypeOK
  <2>4. \A d \in CPU : Switching(d)' => Switching(d)
    BY <1>1, <1>17, <2>1 DEF attach, Switching, TypeOK
  <2> QED BY <2>1, <2>3, <2>4, NonPreemptiveKept
<1>18. ASSUME NEW c \in CPU, finish_switch(c) PROVE NonPreemptive'
  <2>1. UNCHANGED <<np, rt, running, lock, linked, delayed>> /\ phase[c] = "switch"
    BY <1>18 DEF finish_switch
  <2>2. /\ ~Switching(c)'
        /\ \A d \in CPU \ {c} : phase'[d] = phase[d] /\ next'[d] = next[d] /\ curr'[d] = curr[d]
    BY <1>1, <1>18 DEF finish_switch, Switching, TypeOK
  <2>3. lock.pc \in {"schedcheck", "link", "decide"} => lock.cpu \in CPU \ {c}
    BY <2>1 DEF IInv, LockOwner
  <2> QED BY <2>1, <2>2, <2>3, NonPreemptiveKept DEF Switching
<1>19. CASE check_for_preemptions
  <2>1. UNCHANGED <<np, rt, running, lock, curr, next, phase>> /\ lock.pc \in {"check", "schedcheck"}
    BY <1>19 DEF check_for_preemptions
  <2> QED BY <2>1 DEF NonPreemptive, Switching
<1>20. CASE check_done
  <2>1. /\ UNCHANGED <<np, rt, running, curr, next, phase, linked, delayed>>
        /\ lock'.pc = "free" \/ (lock.pc = "schedcheck" /\ lock'.cpu = lock.cpu /\ lock'.go = lock.go)
    BY <1>1, <1>20 DEF check_done, Free, TypeOK
  <2> QED BY <2>1 DEF NonPreemptive, Switching
<1>21. CASE link_pending
  <2>1. /\ UNCHANGED <<np, rt, running, curr, next, phase, delayed>> /\ lock.pc = "link"
        /\ lock'.cpu = lock.cpu /\ lock'.go = lock.go /\ lock'.pc = "decide"
        /\ linked[lock.cpu] # NULL => linked' = linked
    BY <1>1, <1>21 DEF link_pending, TypeOK
  <2> QED BY <1>1, <2>1 DEF NonPreemptive, Switching, TypeOK
<1>22. CASE decide
  <2>0. PICK c \in CPU : c = lock.cpu
    BY <1>22 DEF decide, IInv, LockOwner
  <2>1. /\ UNCHANGED <<np, rt, running, curr>> /\ lock'.pc = "free" /\ lock.pc = "decide"
        /\ \A d \in CPU \ {c} : phase'[d] = phase[d] /\ next'[d] = next[d]
    BY <1>1, <1>22, <2>0 DEF decide, TypeOK, Free
  <2>2. scheduled[c] = curr[c]
    BY DEF IInv, EntryFollows
  <2>3. ~lock.go => next'[c] = curr[c]
    BY <1>1, <1>22, <2>0, <2>2 DEF decide, TypeOK
  <2>4. lock.go => curr[c] \notin np
    BY <2>0, <2>1 DEF NonPreemptive
  <2> QED BY <1>1, <2>1, <2>3, <2>4 DEF NonPreemptive, Switching
<1>23. CASE clock
  BY <1>2, <1>23 DEF clock
<1>24. CASE Handler
  BY <1>5, <1>6, <1>7, <1>8, <1>9, <1>10, <1>11, <1>12, <1>24 DEF Handler
<1>25. CASE Schedule
  <2>1. ~ \E c \in CPU : spin_timeout(c)
    BY DEF spin_timeout, SupportedUse
  <2> QED BY <1>13, <1>14, <1>15, <1>16, <1>17, <1>18, <1>25, <2>1 DEF Schedule
<1> QED BY <1>4, <1>19, <1>20, <1>21, <1>22, <1>23, <1>24, <1>25 DEF Next

\* Every step keeps OutsideSwitch: schedule() is entered with interrupts and
\* locks released.
LEMMA OutsideSwitchStep ==
  ASSUME SupportedUse, IInv, OutsideSwitch, [Next]_vars
  PROVE  OutsideSwitch'
<1>1. TypeOK /\ NULL \notin Task /\ NO_CPU \notin CPU
  BY PlacedTasks
<1>2. ASSUME UNCHANGED <<lock, phase, irq, resimulated>> PROVE OutsideSwitch'
  BY <1>2 DEF OutsideSwitch
<1>3. ASSUME NEW c \in CPU, lock'.pc # "check" \/ (lock' = lock /\ lock.cpu # c), irq' = irq, irq[c] = {},
             \A d \in CPU \ {c} : phase'[d] = phase[d] /\ (d \in resimulated => d \in resimulated')
      PROVE  OutsideSwitch'
  <2>1. lock.pc = "check" => lock.cpu \in CPU
    BY DEF IInv, LockOwner
  <2> QED BY <1>3, <2>1 DEF OutsideSwitch
<1>4. CASE UNCHANGED vars
  BY <1>2, <1>4 DEF vars
<1>5. CASE Handler
  <2>1. ASSUME NEW t \in Task, NEW e \in CPU, NEW m \in AdmitModes, NEW c \in CPU, task_new(t, m, c, e)
        PROVE  OutsideSwitch'
    BY <2>1 DEF task_new, OutsideSwitch, Open
  <2>2. ASSUME NEW t \in Task, NEW e \in CPU, task_exit(t, e) PROVE OutsideSwitch'
    BY <1>2, <2>2 DEF task_exit
  <2>3. ASSUME NEW t \in Task, NEW e \in CPU, wake(t, e) PROVE OutsideSwitch'
    BY <2>3 DEF wake, task_wake_up, job_arrival, OutsideSwitch, Open
  <2>4. ASSUME NEW c \in CPU, NEW r \in 0 .. now, on_release_timer(c, r) PROVE OutsideSwitch'
    BY <1>1, <2>4 DEF on_release_timer, OutsideSwitch, Open, TypeOK
  <2>5. ASSUME NEW c \in CPU, release_jobs(c) PROVE OutsideSwitch'
    BY <1>1, <2>5 DEF release_jobs, OutsideSwitch, TypeOK
  <2>6. ASSUME NEW c \in CPU, exhaust(c) \/ tick(c) \/ reschedule_interrupt(c) \/ enter_np(c) \/ exit_np(c)
        PROVE  OutsideSwitch'
    BY <1>2, <2>6 DEF exhaust, tick, reschedule_interrupt, enter_np, exit_np
  <2> QED BY <1>5, <2>1, <2>2, <2>3, <2>4, <2>5, <2>6 DEF Handler
<1>6. CASE Schedule
  <2>1. ~ \E c \in CPU : spin_timeout(c)
    BY DEF spin_timeout, SupportedUse
  <2>2. ASSUME NEW c \in CPU, schedule(c) \/ complete_job(c) \/ block(c) PROVE OutsideSwitch'
    BY <1>1, <1>3, <2>2 DEF schedule, complete_job, block, Open, Busy, TypeOK
  <2>3. ASSUME NEW c \in CPU, gsnedf_schedule(c) PROVE OutsideSwitch'
    BY <2>3 DEF gsnedf_schedule, OutsideSwitch
  <2>4. ASSUME NEW c \in CPU, phase[c] # "run", resimulated \subseteq resimulated', irq' = irq,
               lock'.pc # "check" \/ lock' = lock \/ (lock'.cpu = c /\ c \in resimulated'),
               \A d \in CPU \ {c} : phase'[d] = phase[d]
        PROVE  OutsideSwitch'
    <3>1. lock.pc = "check" => lock.cpu \in CPU
      BY DEF IInv, LockOwner
    <3> QED BY <2>4, <3>1 DEF OutsideSwitch
  <2>5. ASSUME NEW c \in CPU, resim_block(c) PROVE OutsideSwitch'
    BY <1>1, <2>4, <2>5 DEF resim_block, StackFree, TypeOK
  <2>6. ASSUME NEW c \in CPU, resim_wake_up(c) PROVE OutsideSwitch'
    BY <1>1, <2>4, <2>6 DEF resim_wake_up, task_wake_up, job_arrival, TypeOK
  <2>7. ASSUME NEW c \in CPU, attach(c) \/ finish_switch(c) PROVE OutsideSwitch'
    BY <1>1, <2>4, <2>7 DEF attach, StackFree, finish_switch, TypeOK
  <2> QED BY <1>6, <2>1, <2>2, <2>3, <2>5, <2>6, <2>7 DEF Schedule
<1>7. CASE check_for_preemptions
  BY <1>2, <1>7 DEF check_for_preemptions
<1>8. CASE check_done
  <2>1. lock'.pc # "check" /\ UNCHANGED <<phase, irq, resimulated>>
    BY <1>1, <1>8 DEF check_done, Free, TypeOK
  <2> QED BY <2>1 DEF OutsideSwitch
<1>9. CASE link_pending
  <2>1. lock'.pc # "check" /\ UNCHANGED <<phase, irq, resimulated>>
    BY <1>1, <1>9 DEF link_pending, TypeOK
  <2> QED BY <2>1 DEF OutsideSwitch
<1>10. CASE decide
  <2>0. PICK c \in CPU : c = lock.cpu
    BY <1>10 DEF decide, IInv, LockOwner
  <2>1. /\ lock'.pc # "check" /\ UNCHANGED <<irq, resimulated>> /\ phase[c] = "sched"
        /\ \A d \in CPU \ {c} : phase'[d] = phase[d]
    BY <1>1, <1>10, <2>0 DEF decide, Free, TypeOK, IInv, LockOwner
  <2> QED BY <2>1 DEF OutsideSwitch
<1>11. CASE clock
  BY <1>2, <1>11 DEF clock
<1> QED BY <1>4, <1>5, <1>6, <1>7, <1>8, <1>9, <1>10, <1>11 DEF Next

\* A processor keeps its requests if they are not taken back.
LEMMA AskedKept ==
  ASSUME NEW c \in CPU, AskedAt(c),
         phase'[c] = phase[c] \/ (Switching(c) /\ Switching(c)'),
         curr'[c] = curr[c], next'[c] = next[c], linked'[c] \in {NULL, linked[c]},
         c \in ipi => c \in ipi', Current(c) \in tif => Current(c) \in tif',
         curr[c] \in np \cap delayed => curr[c] \in np' \cap delayed',
         c \in resimulated => c \in resimulated'
  PROVE  AskedAt(c)'
<1>1. Current(c)' = Current(c)
  BY DEF Current
<1> QED BY <1>1 DEF AskedAt, Delayed, Switching

\* link_task_to_cpu() without preempt(): the task that changes places runs, or
\* is about to run, where it is linked.
LEMMA AskedLinking ==
  ASSUME IInv, Asked, NEW t \in ready, NEW c \in CPU, link_task_to_cpu(t, c),
         UNCHANGED <<phase, curr, next, np, resimulated>>,
         tif \subseteq tif', ipi \subseteq ipi', delayed \subseteq delayed'
  PROVE  \A d \in CPU \ {c} : AskedAt(d)'
<1> SUFFICES ASSUME NEW d \in CPU \ {c} PROVE AskedAt(d)'
  OBVIOUS
<1>1. t \in Task /\ scheduled_on[t] \in CPU \cup {NO_CPU}
  BY DEF IInv, TypeOK
<1>2. linked'[d] = linked[d] \/ (linked'[d] = t /\ d = scheduled_on[t])
  BY <1>1 DEF link_task_to_cpu
<1>3. CASE linked'[d] = linked[d]
  <2>1. AskedAt(d)
    BY DEF Asked
  <2> QED BY <1>3, <2>1, AskedKept
<1>4. CASE linked'[d] = t /\ d = scheduled_on[t]
  <2>1. IF Switching(d) THEN next[d] = t ELSE curr[d] = t
    BY <1>1, <1>4 DEF IInv, ScheduledOnFollows
  <2> QED BY <1>4, <2>1 DEF AskedAt, Switching
<1> QED BY <1>2, <1>3, <1>4

\* Every step keeps the requests: preempt() asks the processor whose link
\* changes, or its task at the end of its non-preemptive section, and a request
\* that arrives during a switch survives it.
LEMMA AskedStep ==
  ASSUME SupportedUse, IInv, NonPreemptive, OutsideSwitch, Asked, [Next]_vars
  PROVE  Asked'
<1>1. TypeOK /\ NULL \notin Task /\ NO_CPU \notin CPU /\ Task \cap CPU = {}
  BY PlacedTasks, ConstantsAssumption
<1>2. ASSUME UNCHANGED <<phase, curr, next, linked, np, resimulated>>,
             tif \subseteq tif', ipi \subseteq ipi', delayed \subseteq delayed'
      PROVE  Asked'
  BY <1>2, AskedKept DEF Asked
<1>3. CASE UNCHANGED vars
  BY <1>2, <1>3 DEF vars
<1>4. ASSUME NEW t \in Task, NEW e \in CPU, NEW m \in AdmitModes, NEW c \in CPU, task_new(t, m, c, e)
      PROVE  Asked'
  <2>1. /\ UNCHANGED <<phase, next, linked, np, ipi, delayed, resimulated>>
        /\ \/ UNCHANGED <<curr, tif>>
           \/ /\ curr[c] = NULL /\ curr' = [curr EXCEPT ![c] = t] /\ phase[c] = "run"
              /\ tif' = IF c \in tif THEN (tif \ {c}) \cup {t} ELSE tif
    BY <1>4 DEF task_new, Open
  <2>2. CASE UNCHANGED <<curr, tif>>
    BY <1>2, <2>1, <2>2
  <2>3. CASE /\ curr[c] = NULL /\ curr' = [curr EXCEPT ![c] = t] /\ phase[c] = "run"
             /\ tif' = IF c \in tif THEN (tif \ {c}) \cup {t} ELSE tif
    <3>1. curr'[c] = t /\ \A d \in CPU \ {c} : curr'[d] = curr[d]
      BY <1>1, <2>3 DEF TypeOK
    <3>2. ASSUME NEW d \in CPU \ {c} PROVE AskedAt(d)'
      <4>1. Current(d) \in tif => Current(d) \in tif'
        BY <1>1, <2>3 DEF Current, TypeOK
      <4> QED BY <2>1, <3>1, <4>1, AskedKept DEF Asked
    <3>3. AskedAt(c)'
      <4>1. AskedAt(c) /\ curr[c] \notin np /\ ~Switching(c)
        BY <1>1, <2>3 DEF Asked, TypeOK, Switching
      <4>2. Current(c) = c /\ Current(c)' = t /\ (c \in tif => t \in tif')
        BY <1>1, <2>3, <3>1 DEF Current
      <4> QED BY <2>1, <2>3, <3>1, <4>1, <4>2 DEF AskedAt, Delayed, Switching
    <3> QED BY <3>2, <3>3 DEF Asked
  <2> QED BY <2>1, <2>2, <2>3
<1>5. ASSUME NEW t \in Task, NEW e \in CPU, task_exit(t, e) PROVE Asked'
  <2>1. /\ unlinked(t) /\ np' = np \ {t} /\ delayed' = delayed \ {t}
        /\ phase[e] = "run" /\ UNCHANGED <<phase, next, ipi, resimulated>>
        /\ curr' = (IF curr[e] = t THEN [curr EXCEPT ![e] = NULL] ELSE curr)
        /\ tif' = (IF curr[e] = t THEN (tif \ {t}) \cup {e} ELSE tif \ {t})
        /\ (curr[e] = t \/ stack_in_use[t] = NO_CPU)
    BY <1>5 DEF task_exit, unlink, Open, SupportedUse
  <2>2. \A d \in CPU : linked'[d] \in {NULL, linked[d]}
    BY <2>1 DEF unlinked
  <2>3. \A d \in CPU : d # e \/ curr[e] # t => curr[d] # t /\ curr'[d] = curr[d]
    <3>1. \A d \in CPU : curr[d] = t => stack_in_use[t] = d
      BY DEF IInv, StackOwner
    <3> QED BY <1>1, <2>1, <3>1 DEF TypeOK
  <2>4. ASSUME NEW d \in CPU, d # e \/ curr[e] # t PROVE AskedAt(d)'
    <3>1. curr[d] # t /\ curr'[d] = curr[d]
      BY <2>3, <2>4
    <3>2. Current(d) \in tif => Current(d) \in tif'
      BY <1>1, <2>1, <3>1 DEF Current
    <3> QED BY <2>1, <2>2, <3>1, <3>2, AskedKept DEF Asked
  <2>5. ASSUME curr[e] = t PROVE AskedAt(e)'
    <3>1. curr'[e] = NULL /\ e \in tif'
      BY <1>1, <2>1, <2>5 DEF TypeOK
    <3> QED BY <2>1, <3>1 DEF AskedAt, Switching, Current
  <2> QED BY <2>4, <2>5 DEF Asked
<1>6. ASSUME NEW t \in Task, NEW e \in CPU, wake(t, e) PROVE Asked'
  BY <1>2, <1>6 DEF wake
<1>7. ASSUME NEW c \in CPU, NEW r \in 0 .. now, on_release_timer(c, r) PROVE Asked'
  BY <1>2, <1>7 DEF on_release_timer
<1>8. ASSUME NEW c \in CPU, release_jobs(c) \/ exhaust(c) \/ tick(c) PROVE Asked'
  BY <1>2, <1>8 DEF release_jobs, exhaust, tick
<1>9. ASSUME NEW c \in CPU, reschedule_interrupt(c) PROVE Asked'
  <2>1. /\ UNCHANGED <<phase, curr, next, linked, np, delayed, resimulated>>
        /\ ipi' = ipi \ {c} /\ tif' = tif \cup {Current(c)} /\ phase[c] = "run"
    BY <1>9 DEF reschedule_interrupt, Open
  <2>2. \A d \in CPU \ {c} : AskedAt(d)'
    BY <2>1, AskedKept DEF Asked
  <2>3. AskedAt(c)'
    BY <2>1 DEF AskedAt, Switching, Current
  <2> QED BY <2>2, <2>3 DEF Asked
<1>10. ASSUME NEW c \in CPU, enter_np(c) PROVE Asked'
  <2>1. /\ UNCHANGED <<phase, curr, next, linked, delayed, resimulated, tif, ipi>> /\ np \subseteq np'
    BY <1>10 DEF enter_np
  <2> QED BY <2>1, AskedKept DEF Asked
<1>11. ASSUME NEW c \in CPU, exit_np(c) PROVE Asked'
  <2>1. /\ np' = np \ {curr[c]} /\ delayed' = delayed \ {curr[c]} /\ curr[c] \in np /\ curr[c] # NULL
        /\ tif' = (IF curr[c] \in delayed THEN tif \cup {curr[c]} ELSE tif)
        /\ phase[c] = "run" /\ UNCHANGED <<phase, curr, next, linked, ipi, resimulated>>
    BY <1>1, <1>11 DEF exit_np, Open, TypeOK
  <2>2. ASSUME NEW d \in CPU \ {c} PROVE AskedAt(d)'
    <3>1. curr[d] # curr[c]
      BY <2>1, OwnFlag
    <3> QED BY <2>1, <3>1, AskedKept DEF Asked
  <2>3. AskedAt(c)'
    <3>1. AskedAt(c) /\ Current(c) = curr[c] /\ Current(c)' = curr[c]
      BY <2>1 DEF Asked, Current
    <3> QED BY <2>1, <3>1 DEF AskedAt, Delayed, Switching
  <2> QED BY <2>2, <2>3 DEF Asked
<1>12. ASSUME NEW c \in CPU, schedule(c) \/ complete_job(c) \/ block(c) PROVE Asked'
  <2>1. /\ UNCHANGED <<curr, next, np, ipi, delayed>> /\ resimulated' = resimulated \ {c}
        /\ phase' = [phase EXCEPT ![c] = "sched"] /\ tif' = tif \ {Current(c)}
    BY <1>1, <1>12, ConstantsAssumption DEF schedule, complete_job, block, Current
  <2>2. \A d \in CPU : linked'[d] \in {NULL, linked[d]}
    BY <1>12 DEF schedule, complete_job, block, unlink, unlinked
  <2>3. ASSUME NEW d \in CPU \ {c} PROVE AskedAt(d)'
    <3>1. Current(d) # Current(c) /\ phase'[d] = phase[d]
      BY <1>1, <2>1, OwnFlag DEF TypeOK
    <3> QED BY <2>1, <2>2, <3>1, AskedKept DEF Asked
  <2>4. AskedAt(c)'
    <3>1. phase'[c] = "sched"
      BY <1>1, <2>1 DEF TypeOK
    <3> QED BY <3>1 DEF AskedAt, Switching
  <2> QED BY <2>3, <2>4 DEF Asked
<1>13. ASSUME NEW c \in CPU, gsnedf_schedule(c) PROVE Asked'
  <2>1. UNCHANGED <<phase, curr, next, np, resimulated, tif, ipi>>
    BY <1>13 DEF gsnedf_schedule
  <2>2. (\A d \in CPU : linked'[d] \in {NULL, linked[d]}) /\ delayed \subseteq delayed'
    BY <1>13 DEF gsnedf_schedule, unlink, unlinked
  <2> QED BY <2>1, <2>2, AskedKept DEF Asked
<1>14. ASSUME NEW c \in CPU, resim_block(c) \/ resim_wake_up(c) PROVE Asked'
  <2>1. UNCHANGED <<curr, next, np, tif, ipi, delayed>> /\ resimulated \subseteq resimulated'
    BY <1>14 DEF resim_block, resim_wake_up
  <2>2. \A d \in CPU : linked'[d] \in {NULL, linked[d]}
    BY <1>14 DEF resim_block, resim_wake_up, unlink, unlinked
  <2>3. \A d \in CPU : phase'[d] = phase[d] \/ (Switching(d) /\ Switching(d)')
    BY <1>1, <1>14 DEF resim_block, resim_wake_up, StackFree, TypeOK, Switching
  <2> QED BY <2>1, <2>2, <2>3, AskedKept DEF Asked
<1>15. ASSUME NEW c \in CPU, attach(c) PROVE Asked'
  <2>1. UNCHANGED <<np, curr, linked, tif, ipi, delayed, resimulated>> /\ phase[c] \in {"wait", "attach"}
    BY <1>15 DEF attach, StackFree
  <2>2. next[c] \in rt \cap running
    BY <2>1 DEF IInv, NextReady, NextReadyAt
  <2>3. next' = next
    BY <1>1, <1>15, <2>2 DEF attach, TypeOK
  <2>4. \A d \in CPU : phase'[d] = phase[d] \/ (Switching(d) /\ Switching(d)')
    BY <1>1, <1>15, <2>1 DEF attach, Switching, TypeOK
  <2> QED BY <2>1, <2>3, <2>4, AskedKept DEF Asked
<1>16. ASSUME NEW c \in CPU, finish_switch(c) PROVE Asked'
  <2>1. UNCHANGED <<np, linked, tif, ipi, delayed, resimulated>> /\ phase[c] = "switch"
    BY <1>16 DEF finish_switch
  <2>2. /\ phase'[c] = "run" /\ curr'[c] = next[c]
        /\ \A d \in CPU \ {c} : phase'[d] = phase[d] /\ next'[d] = next[d] /\ curr'[d] = curr[d]
    BY <1>1, <1>16 DEF finish_switch, TypeOK
  <2>3. \A d \in CPU \ {c} : AskedAt(d)'
    BY <2>1, <2>2, AskedKept DEF Asked
  <2>4. AskedAt(c)'
    <3>1. AskedAt(c)
      BY DEF Asked
    <3> QED BY <2>1, <2>2, <3>1 DEF AskedAt, Switching, Delayed
  <2> QED BY <2>3, <2>4 DEF Asked
<1>17. CASE check_for_preemptions
  <2>1. PICK c \in CPU, t \in ready : link_task_to_cpu(t, c) /\ preempt(c, lock.cpu)
    BY <1>17 DEF check_for_preemptions
  <2>2. /\ UNCHANGED <<phase, curr, next, np, resimulated, lock>>
        /\ lock.pc \in {"check", "schedcheck"} /\ scheduled[c] = curr[c]
    BY <1>17 DEF check_for_preemptions, IInv, EntryFollows
  <2>3. /\ curr[c] \in np => curr[c] \in delayed'
        /\ curr[c] \notin np /\ c # lock.cpu => c \in ipi'
        /\ curr[c] \notin np /\ c = lock.cpu => Current(c) \in tif'
        /\ tif \subseteq tif' /\ ipi \subseteq ipi' /\ delayed \subseteq delayed'
    BY <2>1, <2>2 DEF preempt, Current
  <2>4. \A d \in CPU \ {c} : AskedAt(d)'
    BY <2>1, <2>2, <2>3, AskedLinking
  <2>5. AskedAt(c)'
    <3>1. phase[c] = "run" => c \in ipi' \/ Current(c)' \in tif' \/ Delayed(c)'
      BY <2>2, <2>3 DEF Current, Delayed
    <3>2. Switching(c) => c \in ipi' \/ c \in resimulated \/ (next[c] = curr[c] /\ curr[c] \in np \cap delayed')
      <4>1. c = lock.cpu /\ Switching(c) => c \in resimulated
        BY <2>2 DEF IInv, LockOwner, OutsideSwitch, Switching
      <4> QED BY <2>3, <4>1 DEF NonPreemptive
    <3> QED BY <2>2, <3>1, <3>2 DEF AskedAt, Switching
  <2> QED BY <2>4, <2>5 DEF Asked
<1>18. CASE check_done \/ clock
  BY <1>2, <1>18 DEF check_done, clock
<1>19. CASE link_pending
  <2>0. PICK c \in CPU : c = lock.cpu
    BY <1>19 DEF link_pending, IInv, LockOwner
  <2>1. UNCHANGED <<phase, curr, next, np, resimulated, tif, ipi, delayed>> /\ phase[c] = "sched"
    BY <1>19, <2>0 DEF link_pending, IInv, LockOwner
  <2>2. CASE linked' = linked
    BY <1>2, <2>1, <2>2
  <2>3. CASE \E t \in ready : link_task_to_cpu(t, c)
    <3>1. \A d \in CPU \ {c} : AskedAt(d)'
      BY <2>1, <2>3, AskedLinking
    <3>2. AskedAt(c)'
      BY <2>1 DEF AskedAt, Switching
    <3> QED BY <3>1, <3>2 DEF Asked
  <2> QED BY <1>19, <2>0, <2>2, <2>3 DEF link_pending
<1>20. CASE decide
  <2>0. PICK c \in CPU : c = lock.cpu
    BY <1>20 DEF decide, IInv, LockOwner
  <2>1. /\ UNCHANGED <<curr, linked, np, resimulated, tif, ipi, delayed>> /\ lock.pc = "decide"
        /\ \A d \in CPU \ {c} : phase'[d] = phase[d] /\ next'[d] = next[d]
        /\ phase'[c] # "run" /\ scheduled[c] = curr[c]
    BY <1>1, <1>20, <2>0 DEF decide, TypeOK, IInv, EntryFollows
  <2>2. next'[c] = IF lock.go /\ linked[c] # curr[c] THEN linked[c] ELSE curr[c]
    BY <1>1, <1>20, <2>0, <2>1 DEF decide, TypeOK
  <2>3. \A d \in CPU \ {c} : AskedAt(d)'
    BY <2>1, AskedKept DEF Asked
  <2>4. ~lock.go => curr[c] \in np /\ (curr[c] \in delayed \/ linked[c] = curr[c])
    BY <2>0, <2>1 DEF NonPreemptive
  <2>5. AskedAt(c)'
    BY <2>1, <2>2, <2>4 DEF AskedAt, Switching
  <2> QED BY <2>3, <2>5 DEF Asked
<1>21. CASE Handler
  BY <1>4, <1>5, <1>6, <1>7, <1>8, <1>9, <1>10, <1>11, <1>21 DEF Handler
<1>22. CASE Schedule
  <2>1. ~ \E c \in CPU : spin_timeout(c)
    BY DEF spin_timeout, SupportedUse
  <2> QED BY <1>12, <1>13, <1>14, <1>15, <1>16, <1>22, <2>1 DEF Schedule
<1> QED BY <1>3, <1>17, <1>18, <1>19, <1>20, <1>21, <1>22 DEF Next

\* Unless tasks suspend inside non-preemptive sections, a processor that does
\* not run what is linked to it is in schedule() or has been told to call it,
\* but for one that simulated a wake-up in its last schedule().
THEOREM RequestsReach ==
  ASSUME SupportedUse, NPTask \cap Suspending = {}
  PROVE  Spec => []PreemptionRequested
<1>1. Init => NonPreemptive /\ OutsideSwitch /\ Asked
  <2>1. ASSUME Init PROVE NonPreemptive
    BY <2>1 DEF Init, NonPreemptive, Switching, Free
  <2>2. ASSUME Init PROVE OutsideSwitch
    BY <2>2 DEF Init, OutsideSwitch, Free
  <2>3. ASSUME Init PROVE Asked
    BY <2>3 DEF Init, Asked, AskedAt, Switching
  <2> QED BY <2>1, <2>2, <2>3
<1>2. IInv /\ NonPreemptive /\ OutsideSwitch /\ Asked /\ [Next]_vars
        => NonPreemptive' /\ OutsideSwitch' /\ Asked'
  BY NonPreemptiveStep, OutsideSwitchStep, AskedStep
<1>3. IInv /\ Asked => PreemptionRequested
  BY DEF IInv, EntryFollows, Asked, AskedAt, PreemptionRequested, WillSchedule
<1> QED BY <1>1, <1>2, <1>3, Invariance, PTL DEF Spec
=============================================================================
