------------------------------ MODULE PartSync ------------------------------
(***************************************************************************)
(* PSN-EDF with an FMLP semaphore and SRP semaphores in use at the same    *)
(* time, never nested.                                                     *)
(***************************************************************************)
EXTENDS FMLP, SRP

vars == <<setup, psnVars, fmlpVars, srpVars>>

Init == psnInit /\ fmlpInit /\ srpInit

\* Nothing follows a BUG().
Next ==
  /\ ~panic /\ UNCHANGED setup
  /\ \/ psnNext(Waking) /\ UNCHANGED <<fmlpVars, srpVars>>
     \/ fmlpNext /\ UNCHANGED srpVars
     \/ srpNext(Waking) /\ UNCHANGED fmlpVars

Spec == Init /\ [][Next]_vars

-----------------------------------------------------------------------------
(* Properties                                                              *)

TypeOK ==
  /\ now \in Nat
  /\ rt \subseteq Task /\ state \subseteq Task /\ on_rq \subseteq Task
  /\ flags \in [Task -> {"RUNNING", "SLEEP", "EXIT_SEM"}]
  /\ job \in [Task -> [release : Nat, deadline : Nat]]
  /\ spent \subseteq setup.enforced
  /\ kernel_np \in [Task -> 0 .. 1]
  /\ inh_task \in [Task -> Task \cup {NULL}]
  /\ ready \in [CPU -> SUBSET Task] /\ relq \in [CPU -> SUBSET Task]
  /\ scheduled \in [CPU -> Task \cup {NULL}] /\ curr \in [CPU -> Task \cup {NULL}]
  /\ pos \in [Task -> {"user", "down", "got", "gone"}]
  /\ tail \subseteq Task
  /\ active \in [Task -> {"no", "nest", "hold"}]
  /\ ceil \in [Task -> {"no", "prep", "ret"}]
  /\ sec \in [Task -> {"no", "fmlp"} \cup SrpSem]
  /\ tif \subseteq Task \cup CPU /\ ipi \subseteq CPU
  /\ count \in Int /\ holder \in Task \cup {NULL} /\ wait \in Seq(Task)
  /\ hp \in [CPU -> Task \cup {NULL}] /\ waking \in [CPU -> Task \cup {NULL}]
  /\ ceiling \in [SrpSem -> Task \cup {NULL}]
  /\ opened \in [SrpSem -> SUBSET Task]
  /\ owner \in [SrpSem -> Task \cup {NULL}]
  /\ srp \in [CPU -> Seq(SrpSem)] /\ ceiling_blocked \in [CPU -> SUBSET Task]
  /\ panic \in BOOLEAN

\* No BUG_ON() or WARN_ON() fires: SRP semaphores are never taken while they
\* have an owner, although srp_down() does not wait; holders of an FMLP
\* semaphore leave their non-preemptive section with the counter at zero; no
\* entry of a wait queue is used after it was converted.
NoPanic == ~panic

Places(t) ==
  {<<"ready", c>> : c \in {d \in CPU : t \in ready[d]}} \cup
  {<<"relq", c>> : c \in {d \in CPU : t \in relq[d]}} \cup
  {<<"scheduled", c>> : c \in {d \in CPU : scheduled[d] = t}}

\* The variables have their types, and a real-time task that has not been
\* deactivated is in exactly one place, a deactivated one in none: however
\* wake-ups, preemptions on the way into schedule() and ceiling blocking
\* interleave, no task is lost or duplicated.
OnePlace ==
  /\ TypeOK
  /\ \A t \in rt : Cardinality(Places(t)) = IF t \in on_rq THEN 1 ELSE 0

\* The semaphore as a lock: the owner, if it has left the wait queue, and the
\* wait queue.
Queue ==
  LET in == {t \in Task : sec[t] = "fmlp" /\ t \notin Range(wait)} IN
  (IF in = {} THEN <<>> ELSE <<CHOOSE t \in in : TRUE>>) \o wait

Lock == INSTANCE FIFOLock WITH Client <- Task, queue <- Queue,
                               inside <- {t \in Task : sec[t] = "fmlp"}

\* The semaphore is a FIFO lock: woken tasks need not check again whether they
\* have it.
ImplementsFIFOLock == Lock!Spec

\* Exactly the owner of the semaphore is non-preemptive, from the moment it is
\* chosen.
NpIsOwner ==
  \A t \in Task : is_np(t) <=>
     \/ sec[t] = "fmlp"
     \/ wait # <<>> /\ t = Head(wait) /\ \A u \in Task : sec[u] # "fmlp"

\* No hand-over and no wake-up is missed: the owner, and nobody else, is
\* non-preemptive; a task that sleeps in ceiling_blocked does not exceed the
\* ceiling; if nobody is in the critical section, the first entry of the wait
\* queue, unless the ceiling blocks it, is awake or about to be woken.
NoMissedWakeUp ==
  /\ NpIsOwner
  /\ \A c \in CPU : \A t \in ceiling_blocked[c] \ state :
        ~srp_exceeds_ceiling(t, srp[c], owner)
  /\ wait # <<>> /\ (\A t \in Task : sec[t] # "fmlp") =>
        Head(wait) \in state \/ ceil[Head(wait)] # "no" \/ Waking # {}

Claims(c) ==
  {t \in Task : Home[t] = c /\ (sec[t] = "fmlp" \/ t \in Range(wait))}

\* Users of the FMLP semaphore do not run on a preemptible kernel, and not on
\* a processor where SRP semaphores are used: no claimant gets a new job.
Undisturbed ==
  \A u \in setup.fmlp :
    ~setup.preempt /\ \A s \in SrpSem : \A t \in setup.srp[s] : Home[t] # Home[u]

\* hp.cpu_task[c] is the task with the highest priority on c among the owner
\* and the waiters, although only pi_block() and the release by that very task
\* maintain it, and jobs of other tasks are released, overrun and complete in
\* between.  Where a claimant may get a new job it is not: a ceiling holds the
\* claimant up in down() until its budget is used up, or it is preempted there.
HighestWaiter ==
  Undisturbed =>
    \A c \in CPU :
      IF Claims(c) = {} THEN hp[c] = NULL
      ELSE hp[c] = take_ready(job, [t \in Task |-> NULL], Claims(c))

\* The tasks that return from do_fmlp_down() "are guaranteed to have the lock":
\* there is at most one in the critical section.
OneOwner == \A t, u \in Task : sec[t] = "fmlp" /\ sec[u] = "fmlp" => t = u

-----------------------------------------------------------------------------
(* The inductive invariant                                                 *)

\* What the proofs ask of the set-ups: on a preemptible kernel the users of the
\* FMLP semaphore and those of SRP semaphores have different processors (see
\* OneOwner), and semaphores are opened before they are used.
SeparateUse ==
  /\ ~OpenHeld
  /\ \A d \in Setups : d.preempt =>
       \A s \in SrpSem : \A t \in d.srp[s], u \in d.fmlp : Home[t] # Home[u]

\* A task is in at most one queue, of its own processor, or current there, and
\* in none if it is deactivated.
Placed ==
  /\ setup \in Setups /\ scheduled = curr /\ state \subseteq on_rq
  /\ \A t \in Task, c \in CPU :
       /\ t \in ready[c] \/ t \in relq[c] \/ curr[c] = t =>
            Home[t] = c /\ t \in rt /\ t \in on_rq
       /\ ~(t \in ready[c] /\ t \in relq[c])
       /\ curr[c] = t => t \notin ready[c] /\ t \notin relq[c]
  /\ \A t \in rt \cap on_rq :
       t \in ready[Home[t]] \/ t \in relq[Home[t]] \/ curr[Home[t]] = t

\* Tasks that are not real-time tasks take no part.
Outside ==
  \A t \in Task \ rt :
    /\ t \in state /\ pos[t] \in {"user", "gone"} /\ sec[t] = "no"
    /\ ceil[t] = "no"
    /\ pos[t] = "user" => \A s \in SrpSem : t \notin opened[s]

\* Has t returned from the ceiling test of every schedule()?
Tested(t) == t \notin tail /\ active[t] = "no" /\ ceil[t] = "no"

\* A task that comes back has its test ahead; a waiter on its way into
\* schedule() is not held up by a ceiling; only tasks on their way to sleep are
\* runnable and not awake.
Returning ==
  /\ \A t \in rt : curr[Home[t]] # t => ~Tested(t)
  /\ \A t \in Task : active[t] = "hold" => ceil[t] # "no"
  /\ \A t \in Task : active[t] # "no" => setup.preempt
  /\ \A t \in Task : pos[t] = "down" =>
       t \in setup.fmlp /\ t \notin tail /\ ceil[t] = "no"
  /\ \A t \in on_rq : t \in state \/ ceil[t] # "no" \/ pos[t] = "down"

Inside == {t \in Task : sec[t] = "fmlp"}

\* The counter and the wait queue of the semaphore; only the owner is awake.
Semaphore ==
  /\ \A t \in Task : t \in Range(wait) <=> pos[t] \in {"down", "got"}
  /\ \A i, j \in 1 .. Len(wait) : wait[i] = wait[j] => i = j
  /\ \A t, u \in Inside : t = u
  /\ \A t \in Task : pos[t] # "user" => sec[t] = "no"
  /\ count = 1 - Len(wait) - (IF Inside = {} THEN 0 ELSE 1)
  /\ NpIsOwner
  /\ \A t \in Task : pos[t] = "down" /\ t \in state => is_np(t)
  /\ \A t \in Task : pos[t] = "got" /\ (t \in on_rq \/ ceil[t] # "no") => is_np(t)
  /\ \A c \in Waking : Inside = {} /\ wait # <<>> /\ waking[c] = Head(wait)
  /\ \A c, d \in Waking : c = d

\* Inherited priorities are those of claimants; only the owner has one.
Inherited ==
  /\ holder # NULL => holder \in Inside
  /\ \A c \in CPU : hp[c] # NULL => hp[c] \in Claims(c)
  /\ \A t \in Task : inh_task[t] # NULL =>
       is_np(t) /\ (sec[inh_task[t]] = "fmlp" \/ inh_task[t] \in Range(wait))

\* The held semaphores of a processor are a stack: who takes one exceeds the
\* ceilings of those below.
Stacked ==
  /\ \A s \in SrpSem : ceiling[s] # NULL => ceiling[s] \in opened[s]
  /\ \A s \in SrpSem : \A t \in opened[s] :
       /\ t \in setup.srp[s]
       /\ ceiling[s] \in opened[s] /\ ~srp_higher_prio(t, ceiling[s])
       /\ \A u \in opened[s] : Home[t] = Home[u]
  /\ \A s \in SrpSem, t \in Task : owner[s] = t <=> sec[t] = s
  /\ \A s \in SrpSem : owner[s] # NULL =>
       owner[s] \in opened[s] /\ s \in Range(srp[Home[owner[s]]])
  /\ \A c \in CPU : \A i \in 1 .. Len(srp[c]) :
       /\ owner[srp[c][i]] # NULL /\ Home[owner[srp[c][i]]] = c
       /\ \A j \in 1 .. Len(srp[c]) : i < j =>
            srp_higher_prio(owner[srp[c][i]], ceiling[srp[c][j]])

\* Who sleeps below the ceiling does not exceed it; who is back in its own code
\* does.
Blocking ==
  /\ \A c \in CPU, t \in Task :
       t \in ceiling_blocked[c] <=> Home[t] = c /\ ceil[t] # "no"
  /\ \A c \in CPU : \A t \in ceiling_blocked[c] \ state :
       ~srp_exceeds_ceiling(t, srp[c], owner)
  /\ \A c \in CPU, t \in Task : curr[c] = t /\ Tested(t) =>
       \/ srp_exceeds_ceiling(t, srp[c], owner)
       \/ \A s \in SrpSem : t \notin opened[s]

\* The semaphore is in use, or its next owner is awake, about to be woken, or
\* held up by the ceiling.
HandedOver ==
  wait # <<>> /\ Inside = {} =>
    Head(wait) \in state \/ ceil[Head(wait)] # "no" \/ Waking # {}

IInv ==
  /\ ~panic /\ TypeOK /\ Placed /\ Outside /\ Returning /\ Semaphore
  /\ Inherited /\ Stacked /\ Blocking /\ HandedOver

-----------------------------------------------------------------------------
(* Waiters in undisturbed systems                                          *)

\* Has a the higher priority of its own?
Precedes(a, b) ==
  \/ job[a].deadline < job[b].deadline
  \/ job[a].deadline = job[b].deadline /\ a < b

\* Claimants are users of the semaphore that no ceiling holds up, the owner is
\* awake, and the one to be woken keeps the mark that spares it a new job.
Claimants ==
  /\ \A c \in CPU : Claims(c) \subseteq setup.fmlp
  /\ \A t \in setup.fmlp : ceil[t] = "no"
  /\ Inside \subseteq state
  /\ \A c \in Waking : waking[c] \notin state /\ flags[waking[c]] = "EXIT_SEM"

\* hp.cpu_task[c] precedes the other claimants and has its own priority.
Leading ==
  \A c \in CPU :
    /\ hp[c] = NULL => Claims(c) = {}
    /\ hp[c] # NULL => inh_task[hp[c]] \in {NULL, hp[c]}
    /\ \A t \in Claims(c) : t = hp[c] \/ Precedes(hp[c], t)
=============================================================================
