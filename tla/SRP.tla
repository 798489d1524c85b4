--------------------------------- MODULE SRP ---------------------------------
(***************************************************************************)
(* SRP semaphores (litmus/srp.c).  A semaphore has no wait queue: it       *)
(* excludes others only by raising the ceiling of its processor, which     *)
(* every schedule() tests before it returns.  The level of a task is its   *)
(* period, with ties broken by pid; a ceiling is the task with the highest *)
(* level that has opened the semaphore, or NULL.  A task that does not     *)
(* exceed the ceiling sleeps in ceiling_blocked.                           *)
(***************************************************************************)
EXTENDS PSNEDF

CONSTANT OpenHeld  \* may a semaphore be opened while the ceiling is raised?

VARIABLES
  ceiling,         \* sem->ceiling
  opened,          \* opened[s]: tasks that have opened s
  owner,           \* sem->owner
  srp,             \* srp[c]: held semaphores, highest ceiling first
  ceiling_blocked  \* ceiling_blocked[c]: wait queue

srpVars == <<ceiling, opened, owner, srp, ceiling_blocked>>

\* Mutant: no tie-break.
srp_higher_or_equal(a, b) ==
  a # NULL /\ (b = NULL \/ Period[a] <= Period[b])

\* Is the level of a higher?
srp_higher_prio(a, b) ==
  /\ a # NULL
  /\ \/ b = NULL
     \/ Period[a] < Period[b]
     \/ Period[a] = Period[b] /\ a < b

\* With held semaphores h on the processor of t and owners o.
srp_exceeds_ceiling(t, h, o) ==
  h = <<>> \/ srp_higher_prio(t, ceiling[Head(h)]) \/ o[Head(h)] = t

\* srp_add_prio(): behind all that s is not higher than.
srp_add_prio(h, s) ==
  LET before == {i \in 1 .. Len(h) :
                   \A j \in 1 .. i : ~srp_higher_prio(ceiling[s], ceiling[h[j]])}
      n == Cardinality(before)
  IN SubSeq(h, 1, n) \o <<s>> \o SubSeq(h, n + 1, Len(h))

\* A semaphore belongs to the partition of the task that opens it first.
open_srp_semaphore(c, s) ==
  LET t == curr[c] IN
  /\ InUser(t) /\ t \in setup.srp[s] \ opened[s]
  /\ \A u \in opened[s] : Home[u] = c
  /\ OpenHeld \/ srp[c] = <<>>
  /\ opened' = [opened EXCEPT ![s] = @ \cup {t}]
  /\ ceiling' = [ceiling EXCEPT ![s] = IF srp_higher_prio(t, @) THEN t ELSE @]
  /\ UNCHANGED <<psnVars, owner, srp, ceiling_blocked>>

\* sys_srp_down()
srp_down(c, s) ==
  LET t == curr[c] IN
  /\ InUser(t) /\ t \in opened[s] /\ sec[t] = "no"
  /\ srp' = IF s \in Range(srp[c]) THEN srp
            ELSE [srp EXCEPT ![c] = srp_add_prio(@, s)]
  /\ BugOn(s \in Range(srp[c]) \/ owner[s] # NULL)
  /\ owner' = [owner EXCEPT ![s] = t]
  /\ sec' = [sec EXCEPT ![t] = s]
  /\ UNCHANGED <<now, rt, state, on_rq, jobVars, prioVars, queueVars, scheduled,
                 curr, pos, tail, active, ceil, sigVars, ceiling, opened,
                 ceiling_blocked>>

\* Mutant: waiters are compared with the ceiling before the release.
srp_wake_up_before(c, h, o) ==
  {w \in ceiling_blocked[c] : srp_exceeds_ceiling(w, srp[c], owner)}

\* The waiters that wake_up_all() wakes.
srp_wake_up(c, h, o) ==
  {w \in ceiling_blocked[c] : srp_exceeds_ceiling(w, h, o)}

\* sys_srp_up(): all waiters that exceed the new ceiling are woken.
srp_up(c, s) ==
  LET t    == curr[c]
      held == list_del(srp[c], s)
      own  == [owner EXCEPT ![s] = NULL]
      ws   == srp_wake_up(c, held, own)
  IN
  /\ InUser(t) /\ sec[t] = s
  /\ srp' = [srp EXCEPT ![c] = held]
  /\ owner' = own
  /\ sec' = [sec EXCEPT ![t] = "no"]
  /\ try_to_wake_up(ws, c, c, s \notin Range(srp[c]))
  /\ UNCHANGED <<now, rt, prioVars, scheduled, curr, pos, tail, active, ceil,
                 ceiling, opened, ceiling_blocked>>

\* The task on c prepares to block in do_ceiling_block() if it has to, and
\* otherwise returns from the innermost schedule().
ceiling_test(c) ==
  LET t    == curr[c]
      pass == srp_exceeds_ceiling(t, srp[c], owner)
  IN
  /\ state' = IF pass THEN state ELSE state \ {t}
  /\ ceiling_blocked' = [ceiling_blocked EXCEPT ![c] =
                           IF pass THEN @ \ {t} ELSE @ \cup {t}]
  /\ ceil' = [ceil EXCEPT ![t] = IF pass THEN "no" ELSE "prep"]
  /\ tail' = IF pass /\ active[t] = "no" THEN tail \ {t} ELSE tail
  /\ active' = IF pass THEN [active EXCEPT ![t] = "no"] ELSE active
  /\ UNCHANGED <<now, rt, on_rq, jobVars, prioVars, queueVars, scheduled, curr,
                 pos, sec, sigVars, panic, ceiling, opened, owner, srp>>

\* srp_ceiling_block() at the end of schedule().
srp_ceiling_block(c) ==
  LET t == curr[c] IN
  /\ t # NULL /\ ceil[t] = "no" /\ (active[t] = "nest" \/ t \in tail)
  /\ ceiling_test(c)

\* The schedule() of do_ceiling_block(), which does not block a task that is
\* being preempted.
ceiling_suspend(c) ==
  LET t == curr[c] IN
  /\ t # NULL /\ ceil[t] = "prep"
  /\ switch(c, active[t] # "no", flags, state)
  /\ ceil' = [ceil EXCEPT ![t] = "ret"]
  /\ resume(c, active)
  /\ UNCHANGED <<pos, tail, sec, srpVars>>

\* remove_wait_queue() and the next turn of the loop in srp_ceiling_block().
ceiling_return(c) ==
  LET t == curr[c] IN
  /\ t # NULL /\ ceil[t] = "ret"
  /\ ceiling_test(c)

srpInit ==
  /\ ceiling = [s \in SrpSem |-> NULL]
  /\ opened = [s \in SrpSem |-> {}]
  /\ owner = [s \in SrpSem |-> NULL]
  /\ srp = [c \in CPU |-> <<>>]
  /\ ceiling_blocked = [c \in CPU |-> {}]

srpNext(busy) ==
  \E c \in CPU \ busy :
    \/ \E s \in SrpSem : open_srp_semaphore(c, s) \/ srp_down(c, s) \/ srp_up(c, s)
    \/ srp_ceiling_block(c)
    \/ ceiling_suspend(c)
    \/ ceiling_return(c)
=============================================================================
