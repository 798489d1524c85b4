---------------------------- MODULE PFAIR_proofs ----------------------------
(***************************************************************************)
(* Proofs about PFAIR: the inductive invariant IInv holds for any number   *)
(* of tasks and processors, any parameters that pfair_admit_task() accepts *)
(* and any interleaving of ticks, system calls, wake-ups and schedule().   *)
(***************************************************************************)
EXTENDS PFAIR, FiniteSetTheorems, WellFoundedInduction, TLAPS

\* What is assumed of the system: there are finitely many tasks, the wheel has
\* several slots, pfair_admit_task() has accepted the tasks, no task is woken at
\* the very beginning of a quantum, and interrupts do not delay a synchronous
\* release past the quantum it is for.  Without the last two OnePlace does not
\* hold (see the README).
SupportedUse ==
  /\ IsFiniteSet(Task) /\ PFAIR_MAX_PERIOD > 1
  /\ \A s \in Setups :
       /\ s \in Setup /\ ~s.exact /\ (s.lag => s.synched = {})
       /\ \A t \in Task : s.quanta[t] \in 1 .. PFAIR_MAX_PERIOD
                          /\ s.period[t] \in 1 .. PFAIR_MAX_PERIOD

USE DEF clockVars, taskVars, jobVars, syncVars, queueVars, linkVars, switchVars,
        tickVars, pickVars, sigVars

-----------------------------------------------------------------------------
(* Subtasks and slots of the release wheel                                 *)

\* Division with remainder.
LEMMA Division ==
  ASSUME NEW n \in Nat \ {0}, NEW a \in Nat
  PROVE  \E q, r \in Nat : q = a \div n /\ r = a % n /\ r < n /\ a = n * q + r
<1>1. a \div n \in Nat /\ a % n \in Nat
  OBVIOUS
<1>2. \A q, r \in Nat : q = a \div n /\ r = a % n => r < n /\ a = n * q + r
  BY SMTT(30)
<1>3. \E q, r \in Nat : q = a \div n /\ r = a % n
  BY <1>1, Zenon
<1> QED
  BY <1>2, <1>3, Zenon

\* Two different times that are less than a turn of the wheel apart are polled
\* in different slots.
LEMMA DistinctSlots ==
  ASSUME NEW x \in Nat, NEW y \in Nat, x < y, y < x + PFAIR_MAX_PERIOD
  PROVE  Slot(x) # Slot(y)
<1>1. PFAIR_MAX_PERIOD \in Nat \ {0}
  BY ConstantsAssumption
<1>2. PICK q \in Nat, r \in Nat :
        r = x % PFAIR_MAX_PERIOD /\ x = PFAIR_MAX_PERIOD * q + r
  BY <1>1, Division
<1>3. PICK p \in Nat, s \in Nat :
        s = y % PFAIR_MAX_PERIOD /\ y = PFAIR_MAX_PERIOD * p + s
  BY <1>1, Division
<1>4. SUFFICES ASSUME r = s PROVE FALSE
  BY <1>2, <1>3 DEF Slot
<1>5. y - x = PFAIR_MAX_PERIOD * (p - q)
  BY <1>1, <1>2, <1>3, <1>4
<1>6. CASE p <= q
  <2>1. \A n \in Nat \ {0}, d \in Int : d <= 0 => n * d <= 0
    BY SMTT(30)
  <2> QED BY <1>1, <1>5, <1>6, <2>1
<1>7. CASE p > q
  <2>1. \A n \in Nat \ {0}, d \in Int : d >= 1 => n * d >= n
    BY SMTT(30)
  <2> QED BY <1>1, <1>5, <1>7, <2>1
<1> QED BY <1>6, <1>7

\* Slots are slots of the wheel.
LEMMA SlotType ==
  ASSUME NEW x \in Nat
  PROVE  Slot(x) \in 0 .. PFAIR_MAX_PERIOD - 1
BY ConstantsAssumption DEF Slot

\* The parameters of admitted tasks, with those of weight 1 reduced.
LEMMA Weights ==
  ASSUME SupportedUse, setup \in Setups, NEW t \in Task
  PROVE  Quanta(t) \in 1 .. PFAIR_MAX_PERIOD /\ Period(t) \in 1 .. PFAIR_MAX_PERIOD
BY ConstantsAssumption DEF SupportedUse, Quanta, Period

\* The table of subtasks.
LEMMA SubtaskTable ==
  ASSUME NEW q \in 1 .. PFAIR_MAX_PERIOD, NEW p \in 1 .. PFAIR_MAX_PERIOD,
         NEW i \in 0 .. q - 1
  PROVE  subtasks[q][p][i] = init_subtask(i, q, p)
BY DEF subtasks

\* When the current subtask is released; the first one with its job.
LEMMA Release ==
  ASSUME SupportedUse, setup \in Setups, NEW t \in Task,
         NEW a, a.cur \in 0 .. Quanta(t) - 1, a.release \in Nat
  PROVE  /\ cur_release(t, a) = a.release + (Period(t) * a.cur) \div Quanta(t)
         /\ cur_release(t, a) \in Nat
         /\ a.cur = 0 => cur_release(t, a) = a.release
<1>1. Quanta(t) \in 1 .. PFAIR_MAX_PERIOD /\ Period(t) \in 1 .. PFAIR_MAX_PERIOD
  BY Weights
<1>2. PICK q \in Nat \ {0}, p \in Nat \ {0} : q = Quanta(t) /\ p = Period(t)
  BY <1>1, ConstantsAssumption
<1>3. PICK i \in Nat : i = a.cur
  BY <1>2
<1>4. cur_sub(t, a) = init_subtask(i, q, p)
  BY <1>1, <1>2, <1>3, SubtaskTable DEF cur_sub
<1>5. init_subtask(i, q, p).release = (p * i) \div q
  BY DEF init_subtask
<1>6. cur_release(t, a) = a.release + (p * i) \div q
  BY <1>4, <1>5 DEF cur_release
<1>7. (p * i) \div q \in Nat
  <2>1. p * i \in Nat
    OBVIOUS
  <2> QED BY <2>1
<1>8. i = 0 => (p * i) \div q = 0
  <2>1. i = 0 => p * i = 0
    OBVIOUS
  <2>2. 0 \div q = 0
    OBVIOUS
  <2> QED BY <2>1, <2>2
<1> QED BY <1>2, <1>3, <1>6, <1>7, <1>8

\* The fractions that are rounded when subtasks are laid out grow by at most
\* the period from one subtask to the next.
LEMMA NextFraction ==
  ASSUME NEW q \in Nat \ {0}, NEW p \in Nat \ {0}, NEW i \in Nat
  PROVE  (p * (i + 1)) \div q <= (p * i) \div q + p
<1>1. p * i \in Nat /\ p * (i + 1) \in Nat /\ p * (i + 1) = p * i + p
  OBVIOUS
<1>2. PICK u \in Nat, r \in Nat : u = (p * i) \div q /\ r < q /\ p * i = q * u + r
  BY <1>1, Division
<1>3. PICK v \in Nat, s \in Nat :
        v = (p * (i + 1)) \div q /\ s < q /\ p * (i + 1) = q * v + s
  BY <1>1, Division
<1>4. q * v + s = q * u + r + p
  BY <1>1, <1>2, <1>3
<1>5. SUFFICES ASSUME v > u + p PROVE FALSE
  BY <1>2, <1>3
<1>6. q * v >= q * (u + p + 1)
  <2>1. \A x, y \in Nat : x >= y => q * x >= q * y
    BY SMTT(30)
  <2> QED BY <1>5, <2>1
<1>7. q * (u + p + 1) = q * u + q * p + q
  BY SMTT(30)
<1>8. q * p >= p
  BY SMTT(30)
<1>9. q * u \in Nat /\ q * v \in Nat /\ q * p \in Nat
  OBVIOUS
<1> QED BY <1>2, <1>3, <1>4, <1>6, <1>7, <1>8, <1>9

\* advance_subtask(): the next subtask of a task is released within a turn of
\* the wheel after the release of the current one.
LEMMA NextSubtask ==
  ASSUME SupportedUse, setup \in Setups, NEW t \in Task,
         NEW a, a.cur \in 0 .. Quanta(t) - 1, a.release \in Nat,
         NEW b, b.cur = (a.cur + 1) % Quanta(t),
         NEW P, b.release = a.release
                            + (IF a.cur + 1 = Quanta(t) /\ P THEN Period(t) ELSE 0)
  PROVE  /\ b.cur \in 0 .. Quanta(t) - 1 /\ b.release \in Nat
         /\ a.cur + 1 = Quanta(t) => b.cur = 0
         /\ cur_release(t, b) <= cur_release(t, a) + PFAIR_MAX_PERIOD
<1>1. PICK q \in Nat \ {0}, p \in Nat \ {0} :
        q = Quanta(t) /\ p = Period(t) /\ p <= PFAIR_MAX_PERIOD
  BY Weights, ConstantsAssumption
<1>2. PICK i \in 0 .. q - 1 : i = a.cur
  BY <1>1
<1>3. b.cur \in 0 .. Quanta(t) - 1 /\ b.release \in Nat
  <2>1. (i + 1) % q \in 0 .. q - 1
    OBVIOUS
  <2> QED BY <1>1, <1>2, <2>1
<1>4. cur_release(t, a) = a.release + (p * i) \div q /\ cur_release(t, a) \in Nat
      /\ cur_release(t, b) = b.release + (p * b.cur) \div q /\ cur_release(t, b) \in Nat
      /\ (b.cur = 0 => cur_release(t, b) = b.release)
  BY <1>1, <1>2, <1>3, Release
<1>5. (p * i) \div q \in Nat
  <2>1. p * i \in Nat
    OBVIOUS
  <2> QED BY <2>1
<1>6. CASE i + 1 = q
  <2>1. b.cur = 0
    <3>1. q % q = 0
      OBVIOUS
    <3> QED BY <1>1, <1>2, <1>6, <3>1
  <2>2. b.release <= a.release + p
    BY <1>1, <1>2, <1>6
  <2>3. PICK x \in Nat, y \in Nat, z \in Nat :
          x = a.release /\ y = (p * i) \div q /\ z = cur_release(t, b)
    BY <1>4, <1>5
  <2>4. z <= x + p /\ cur_release(t, a) = x + y
    BY <1>4, <2>1, <2>2, <2>3
  <2>5. z <= x + y + PFAIR_MAX_PERIOD
    BY <1>1, <2>4, ConstantsAssumption
  <2> QED BY <1>3, <2>1, <2>3, <2>4, <2>5
<1>7. CASE i + 1 < q
  <2>1. b.cur = i + 1 /\ b.release = a.release
    <3>1. (i + 1) % q = i + 1
      BY <1>7
    <3> QED BY <1>1, <1>2, <1>7, <3>1
  <2>2. (p * (i + 1)) \div q <= (p * i) \div q + p
    BY NextFraction
  <2>3. (p * (i + 1)) \div q \in Nat
    <3>1. p * (i + 1) \in Nat
      OBVIOUS
    <3> QED BY <3>1
  <2> QED BY <1>1, <1>2, <1>3, <1>4, <1>5, <1>7, <2>1, <2>2, <2>3, ConstantsAssumption
<1> QED BY <1>2, <1>6, <1>7

\* What PD^2 compares are numbers.
LEMMA RankType ==
  ASSUME SupportedUse, setup \in Setups, NEW t \in Task,
         NEW a, a.cur \in 0 .. Quanta(t) - 1, a.release \in Nat
  PROVE  /\ cur_deadline(t, a) \in Int /\ cur_overlap(t, a) \in Int
         /\ cur_group_deadline(t, a) \in Int
<1>1. Quanta(t) \in 1 .. PFAIR_MAX_PERIOD /\ Period(t) \in 1 .. PFAIR_MAX_PERIOD
  BY Weights
<1>2. PICK q \in Nat \ {0}, p \in Nat \ {0} : q = Quanta(t) /\ p = Period(t)
  BY <1>1, ConstantsAssumption
<1>3. PICK i \in Nat : i = a.cur
  BY <1>2
<1>4. cur_sub(t, a) = init_subtask(i, q, p)
  BY <1>1, <1>2, <1>3, SubtaskTable DEF cur_sub
<1>5. \A x \in Int, y \in Nat \ {0} : ceil(x, y) \in Int
  BY DEF ceil
<1>6. p * (i + 1) \in Int
  OBVIOUS
<1>7. PICK d \in Int : d = ceil(p * (i + 1), q)
  BY <1>5, <1>6
<1>8. init_subtask(i, q, p).deadline = d
  BY <1>7 DEF init_subtask
<1>9. (p * (i + 1)) \div q \in Int
  BY <1>6
<1>10. init_subtask(i, q, p).overlap \in Int
  BY <1>7, <1>9 DEF init_subtask
<1>11. PICK m \in Int : m = (d - (i + 1)) * p
  OBVIOUS
<1>12. init_subtask(i, q, p).group_deadline \in Int
  <2>1. init_subtask(i, q, p).group_deadline =
          IF 2 * q < p THEN 0 ELSE IF p > q THEN ceil(m, p - q) ELSE m
    BY <1>7, <1>11 DEF init_subtask
  <2>2. p > q => ceil(m, p - q) \in Int
    BY <1>5
  <2> QED BY <2>1, <2>2
<1> QED
  BY <1>4, <1>8, <1>10, <1>12 DEF cur_deadline, cur_overlap, cur_group_deadline

-----------------------------------------------------------------------------
(* Priorities                                                              *)

\* Facts about the parameters of a task.
LEMMA ParamType ==
  ASSUME SupportedUse, TypeOK, Params, NEW t \in Task
  PROVE  /\ setup \in Setups /\ t # NULL /\ t \in Nat
         /\ pfair[t].cur \in 0 .. Quanta(t) - 1 /\ pfair[t].release \in Nat
         /\ cur_release(t, pfair[t]) \in Nat
<1>1. setup \in Setups /\ t # NULL /\ t \in Nat
  BY ConstantsAssumption DEF TypeOK
<1>2. pfair[t].cur \in 0 .. Quanta(t) - 1
  BY DEF TypeOK
<1>3. pfair[t].release \in Nat
  BY DEF Params
<1> QED BY <1>1, <1>2, <1>3, Release

\* pfair_higher_prio() orders the real-time tasks linearly: ties are broken by
\* the pid.
LEMMA PriorityOrder ==
  ASSUME SupportedUse, TypeOK, Params, NEW a \in rt, NEW b \in rt, NEW d \in rt
  PROVE  /\ ~pfair_higher_prio(a, a)
         /\ a # b => pfair_higher_prio(a, b) \/ pfair_higher_prio(b, a)
         /\ pfair_higher_prio(a, b) /\ pfair_higher_prio(b, d) => pfair_higher_prio(a, d)
<1>1. a \in Task /\ b \in Task /\ d \in Task
  BY DEF TypeOK
<1>2. /\ a \in Nat /\ b \in Nat /\ d \in Nat
      /\ a # NULL /\ b # NULL /\ d # NULL
  BY <1>1, ParamType
<1>3. \A t \in {a, b, d} : /\ cur_deadline(t, pfair[t]) \in Int
                           /\ cur_overlap(t, pfair[t]) \in Int
                           /\ cur_group_deadline(t, pfair[t]) \in Int
  BY <1>1, ParamType, RankType
<1> QED BY <1>2, <1>3 DEF pfair_higher_prio

\* A nonempty set of numbers has a least element.
LEMMA LeastNumber ==
  ASSUME NEW S \in SUBSET Nat, S # {}
  PROVE  \E x \in S : \A y \in S : x <= y
<1>1. PICK x \in S : \A y \in S : ~(<<y, x>> \in OpToRel(<, Nat))
  BY NatLessThanWellFounded, WFMin
<1>2. ASSUME NEW y \in S PROVE x <= y
  <2>1. ~(y < x)
    BY <1>1 DEF OpToRel
  <2> QED BY <2>1
<1> QED BY <1>2

\* __peek_ready() finds a ready task: one of them precedes all others.
LEMMA PeekReady ==
  ASSUME SupportedUse, TypeOK, Params, ready \subseteq rt, ready # {}
  PROVE  peek_ready \in ready
<1> DEFINE before(t) == {u \in ready : pfair_higher_prio(u, t)}
<1>1. IsFiniteSet(ready)
  BY FS_Subset DEF SupportedUse, TypeOK
<1>2. \A t \in ready : before(t) \in SUBSET ready /\ IsFiniteSet(before(t))
                       /\ Cardinality(before(t)) \in Nat
  BY <1>1, FS_Subset, FS_CardinalityType
<1> DEFINE N == {Cardinality(before(t)) : t \in ready}
<1>3. PICK n \in N : \A m \in N : n <= m
  <2>1. N \in SUBSET Nat /\ N # {}
    BY <1>2
  <2> HIDE DEF N
  <2> QED BY <2>1, LeastNumber
<1>4. PICK t \in ready : Cardinality(before(t)) = n
  BY <1>3
<1>5. ASSUME NEW u \in ready \ {t}, ~pfair_higher_prio(t, u) PROVE FALSE
  <2>1. pfair_higher_prio(u, t)
    BY <1>5, PriorityOrder
  <2>2. u \in before(t) /\ u \notin before(u)
    BY <2>1, PriorityOrder
  <2>3. \A v \in before(u) : v \in before(t)
    BY <2>1, PriorityOrder
  <2>4. before(u) \in SUBSET before(t) /\ before(u) # before(t)
    BY <2>2, <2>3
  <2>5. /\ Cardinality(before(u)) <= Cardinality(before(t))
        /\ Cardinality(before(u)) # Cardinality(before(t))
    <3> HIDE DEF before
    <3> QED BY <1>2, <2>4, FS_Subset
  <2>6. n <= Cardinality(before(u))
    BY <1>3
  <2> HIDE DEF before
  <2> QED BY <1>2, <1>4, <2>5, <2>6
<1>6. \E v \in ready : \A u \in ready \ {v} : pfair_higher_prio(v, u)
  BY <1>5
<1> QED BY <1>6 DEF peek_ready

-----------------------------------------------------------------------------
(* Parts of the invariant that a step keeps                                *)

\* The processors do not change.
LEMMA SameCPU ==
  ASSUME setup' = setup
  PROVE  CPU' = CPU
BY DEF CPU

\* The same processors are in a phase of S before and after a step.
SamePhase(S) == \A d \in CPU : phase'[d] \in S <=> phase[d] \in S

LEMMA WheelKept ==
  ASSUME IInv,
         UNCHANGED <<setup, rt, pfair, merge_time, queueVars, linkVars>>
  PROVE  Wheel' /\ Params'
<1>1. CPU' = CPU
  BY SameCPU
<1>2. \A t \in Task : cur_release(t, pfair[t])' = cur_release(t, pfair[t])
  BY DEF cur_release, cur_sub, Quanta, Period
<1>3. \A t \in Task : InPlace(t)' <=> InPlace(t)
  BY <1>1, <1>2 DEF InPlace, Linked, Waiting
<1>4. Wheel'
  BY <1>1, <1>3 DEF IInv, Wheel, Linked, Waiting
<1>5. Params'
  BY <1>1 DEF IInv, Params
<1> QED BY <1>4, <1>5

LEMMA TurnsKept ==
  ASSUME IInv, UNCHANGED <<setup, now, clockVars>>,
         \A d \in CPU : cur'[d] <= now,
         SamePhase({"turn"}), SamePhase({"link"}),
         \A d \in CPU : phase[d] \in {"turn", "link"} => quantum'[d] = quantum[d]
  PROVE  Turns'
<1>1. CPU' = CPU
  BY SameCPU
<1>2. Locked' <=> Locked
  BY <1>1 DEF Locked, SamePhase
<1>3. \A d \in CPU : /\ phase'[d] \in {"turn", "link"} <=> phase[d] \in {"turn", "link"}
                     /\ phase'[d] = "link" <=> phase[d] = "link"
  BY DEF SamePhase
<1> QED BY <1>1, <1>2, <1>3 DEF IInv, Turns

LEMMA StacksKept ==
  ASSUME IInv, UNCHANGED <<setup, taskVars, scheduled_on, switchVars, next>>,
         SamePhase({"sched"}), SamePhase({"wait"}), SamePhase({"switch"})
  PROVE  Stacks'
<1>1. CPU' = CPU
  BY SameCPU
<1>2. \A d \in CPU : /\ Switching(d)' <=> Switching(d)
                     /\ phase'[d] = "sched" <=> phase[d] = "sched"
                     /\ phase'[d] = "wait" <=> phase[d] = "wait"
                     /\ phase'[d] = "switch" <=> phase[d] = "switch"
  BY DEF SamePhase, Switching
<1>3. \A d \in CPU : Execution(d)' <=> Execution(d)
  BY <1>2 DEF Execution
<1> QED BY <1>1, <1>2, <1>3 DEF IInv, Stacks

LEMMA ReleasingKept ==
  ASSUME IInv, UNCHANGED <<setup, now, rt, running, syncVars>>, SamePhase({"release"})
  PROVE  Releasing'
<1>1. CPU' = CPU
  BY SameCPU
<1>2. \A d \in CPU : phase'[d] = "release" <=> phase[d] = "release"
  BY DEF SamePhase
<1> QED BY <1>1, <1>2 DEF IInv, Releasing

-----------------------------------------------------------------------------
(* The tick                                                                *)

Phases == {"run", "adv", "turn", "catch", "link", "copy", "store",
           "sched", "wait", "switch", "release"}

TickTypes ==
  /\ pfair_time \in Nat /\ cur_tick \in Nat /\ now \in Nat /\ merge_time \in Nat
  /\ cur \in [CPU -> Nat] /\ quantum \in [CPU -> Nat]
  /\ phase \in [CPU -> Phases] /\ catching \subseteq CPU /\ at \in 0 .. setup.cpus
  /\ local \in [CPU -> Task \cup {NULL}] /\ loaded \in [CPU -> Task \cup {NULL}]

LEMMA TickTyped ==
  ASSUME IInv
  PROVE  TickTypes /\ TypeOK
BY DEF IInv, TickTypes, TypeOK, Phases

\* The types of what a tick leaves alone are kept.
LEMMA TypeKept ==
  ASSUME IInv, TickTypes',
         UNCHANGED <<setup, taskVars, jobVars, syncVars, queueVars, linkVars,
                     scheduled_on, switchVars, pickVars, panic, ipi>>
  PROVE  TypeOK' /\ ~panic'
<1>1. CPU' = CPU
  BY SameCPU
<1>2. \A t \in Task : Quanta(t)' = Quanta(t)
  BY DEF Quanta
<1>3. TypeOK /\ ~panic
  BY DEF IInv
<1> QED BY <1>1, <1>2, <1>3 DEF TypeOK, TickTypes, Phases

LEMMA TickStep ==
  ASSUME IInv, NEW c \in CPU, tick(c)
  PROVE  IInv'
<1>1. TickTypes /\ CPU' = CPU
  BY TickTyped, SameCPU DEF tick
<1>2. TypeOK' /\ ~panic'
  <2>1. TickTypes'
    BY <1>1 DEF tick, TickTypes, Phases
  <2> QED BY <2>1, TypeKept DEF tick
<1>3. \A d \in CPU \ {c} : phase'[d] = phase[d] /\ cur'[d] = cur[d]
  BY <1>1 DEF tick, TickTypes
<1>4. phase[c] = "run" /\ phase'[c] = "adv" /\ cur'[c] = now
  BY <1>1 DEF tick, TickTypes, Open
<1>5. \A S : ("run" \notin S /\ "adv" \notin S) => SamePhase(S)
  BY <1>3, <1>4 DEF SamePhase
<1>6. Turns'
  <2>1. \A d \in CPU : cur[d] <= now
    BY DEF IInv, Turns
  <2>2. \A d \in CPU : cur'[d] <= now
    BY <1>1, <1>3, <1>4, <2>1 DEF TickTypes
  <2> QED BY <1>5, <2>2, TurnsKept DEF tick
<1>7. Stacks' /\ Releasing' /\ Wheel' /\ Params'
  BY <1>5, StacksKept, ReleasingKept, WheelKept DEF tick
<1> QED BY <1>2, <1>6, <1>7 DEF IInv

LEMMA ExchangeStep ==
  ASSUME IInv, NEW c \in CPU, exchange(c)
  PROVE  IInv'
<1>1. TickTypes
  BY TickTyped
<1>2. CPU' = CPU
  BY SameCPU DEF exchange
<1>3. PICK n \in Nat, p \in Nat : n = now /\ p = pfair_time
  BY <1>1 DEF TickTypes
<1>4. phase[c] = "adv" /\ cur[c] \in Nat /\ cur[c] <= n
  <2>1. cur[c] <= now
    BY DEF IInv, Turns
  <2> QED BY <1>1, <1>3, <2>1 DEF exchange, TickTypes
<1>5. \A d \in CPU : d # c => phase'[d] = phase[d] /\ quantum'[d] = quantum[d]
                              /\ cur'[d] = cur[d]
  BY <1>1 DEF exchange, TickTypes, Phases
<1>6. \/ /\ p + 1 = cur[c] /\ pfair_time' = p + 1 /\ cur' = cur
         /\ quantum'[c] = p + 1 /\ phase'[c] = "turn"
      \/ /\ pfair_time' = p /\ phase'[c] \in {"catch", "adv", "copy"}
         /\ cur'[c] \in Nat /\ cur'[c] <= n
  BY <1>1, <1>3, <1>4 DEF exchange, TickTypes, Phases
<1>7. TypeOK' /\ ~panic'
  <2>1. TickTypes'
    BY <1>1, <1>2 DEF exchange, TickTypes, Phases
  <2> QED BY <2>1, TypeKept DEF exchange
<1>8. \A S : S \cap {"adv", "turn", "catch", "copy"} = {} => SamePhase(S)
  BY <1>4, <1>5, <1>6 DEF SamePhase
<1>9. Turns'
  <2>1. cur_tick' = cur_tick /\ merge_time' = merge_time /\ now' = now
    BY DEF exchange
  <2>2. Locked' <=> Locked
    BY <1>2, <1>8 DEF Locked, SamePhase
  <2>3. \A d \in CPU : phase[d] = "link" <=> phase'[d] = "link"
    BY <1>8 DEF SamePhase
  <2>4. \A d \in CPU : quantum[d] \in Nat
    BY <1>1 DEF TickTypes
  <2>5. \A d \in CPU : cur'[d] <= n
    BY <1>3, <1>4, <1>5, <1>6 DEF IInv, Turns
  <2>6. cur_tick \in Nat /\ merge_time \in Nat
    BY <1>1 DEF TickTypes
  <2>7. Turns
    BY DEF IInv
  <2>8. CASE pfair_time' = p /\ phase'[c] \in {"catch", "adv", "copy"}
    BY <1>2, <1>3, <1>4, <1>5, <2>1, <2>2, <2>3, <2>4, <2>5, <2>6, <2>7, <2>8 DEF Turns
  <2>9. CASE /\ p + 1 = cur[c] /\ pfair_time' = p + 1
             /\ quantum'[c] = p + 1 /\ phase'[c] = "turn"
    BY <1>2, <1>3, <1>4, <1>5, <2>1, <2>2, <2>3, <2>4, <2>5, <2>6, <2>7, <2>9 DEF Turns
  <2> QED BY <1>6, <2>8, <2>9
<1>10. Stacks' /\ Releasing' /\ Wheel' /\ Params'
  BY <1>8, StacksKept, ReleasingKept, WheelKept DEF exchange
<1> QED BY <1>7, <1>9, <1>10 DEF IInv

LEMMA CatchupStep ==
  ASSUME IInv, NEW c \in CPU, catchup(c)
  PROVE  IInv'
<1>1. TickTypes
  BY TickTyped
<1>2. CPU' = CPU
  BY SameCPU DEF catchup
<1>3. PICK n \in Nat, p \in Nat, q \in Nat : n = now /\ p = pfair_time /\ q = quantum[c]
  BY <1>1 DEF TickTypes
<1>4. phase[c] = "catch" /\ cur[c] \in Nat /\ cur[c] <= n
  <2>1. cur[c] <= now
    BY DEF IInv, Turns
  <2> QED BY <1>1, <1>3, <2>1 DEF catchup, TickTypes
<1>5. \A d \in CPU : d # c => phase'[d] = phase[d] /\ quantum'[d] = quantum[d]
                              /\ cur'[d] = cur[d]
  BY <1>1 DEF catchup, TickTypes, Phases
<1>6. \/ /\ p = q /\ q < cur[c] /\ pfair_time' = p + 1 /\ cur' = cur
         /\ quantum'[c] = p + 1 /\ phase'[c] = "turn"
      \/ /\ pfair_time' = p /\ phase'[c] \in {"catch", "adv"}
         /\ cur'[c] \in Nat /\ cur'[c] <= n
  BY <1>1, <1>3, <1>4 DEF catchup, TickTypes, Phases
<1>7. TypeOK' /\ ~panic'
  <2>1. TickTypes'
    BY <1>1, <1>2 DEF catchup, TickTypes, Phases
  <2> QED BY <2>1, TypeKept DEF catchup
<1>8. \A S : S \cap {"adv", "turn", "catch"} = {} => SamePhase(S)
  BY <1>4, <1>5, <1>6 DEF SamePhase
<1>9. Turns'
  <2>1. cur_tick' = cur_tick /\ merge_time' = merge_time /\ now' = now
    BY DEF catchup
  <2>2. Locked' <=> Locked
    BY <1>2, <1>8 DEF Locked, SamePhase
  <2>3. \A d \in CPU : phase[d] = "link" <=> phase'[d] = "link"
    BY <1>8 DEF SamePhase
  <2>4. \A d \in CPU : quantum[d] \in Nat
    BY <1>1 DEF TickTypes
  <2>5. \A d \in CPU : cur'[d] <= n
    BY <1>3, <1>4, <1>5, <1>6 DEF IInv, Turns
  <2>6. cur_tick \in Nat /\ merge_time \in Nat
    BY <1>1 DEF TickTypes
  <2>7. Turns
    BY DEF IInv
  <2>8. CASE pfair_time' = p /\ phase'[c] \in {"catch", "adv"}
    BY <1>2, <1>3, <1>4, <1>5, <2>1, <2>2, <2>3, <2>4, <2>5, <2>6, <2>7, <2>8 DEF Turns
  <2>9. CASE /\ p < cur[c] /\ pfair_time' = p + 1
             /\ quantum'[c] = p + 1 /\ phase'[c] = "turn"
    BY <1>2, <1>3, <1>4, <1>5, <2>1, <2>2, <2>3, <2>4, <2>5, <2>6, <2>7, <2>9 DEF Turns
  <2> QED BY <1>6, <2>8, <2>9
<1>10. Stacks' /\ Releasing' /\ Wheel' /\ Params'
  BY <1>8, StacksKept, ReleasingKept, WheelKept DEF catchup
<1> QED BY <1>7, <1>9, <1>10 DEF IInv

LEMMA AnnounceStep ==
  ASSUME IInv, NEW c \in CPU, announce(c)
  PROVE  IInv'
<1>1. TickTypes
  BY TickTyped
<1>2. CPU' = CPU
  BY SameCPU DEF announce
<1>3. \A d \in CPU : quantum[d] \in Nat
  BY <1>1 DEF TickTypes
<1>4. phase[c] = "link" /\ phase'[c] \in {"catch", "copy"}
  BY <1>1 DEF announce, TickTypes, Phases
<1>5. \A d \in CPU : d # c => phase'[d] = phase[d]
  BY <1>1 DEF announce, TickTypes, Phases
<1>6. TypeOK' /\ ~panic'
  <2>1. TickTypes'
    BY <1>1, <1>2 DEF announce, TickTypes, Phases
  <2> QED BY <2>1, TypeKept DEF announce
<1>7. \A S : S \cap {"link", "catch", "copy"} = {} => SamePhase(S)
  BY <1>4, <1>5 DEF SamePhase
<1>8. Turns'
  <2>1. /\ cur_tick' = quantum[c] /\ quantum[c] = cur_tick + 1 /\ merge_time = quantum[c]
        /\ UNCHANGED <<now, pfair_time, merge_time, cur, quantum>>
    BY <1>4 DEF announce, IInv, Turns
  <2>2. \A d \in CPU : d # c => phase[d] # "link"
    BY <1>4, <2>1 DEF IInv, Turns
  <2>3. ~Locked'
    BY <1>2, <1>4, <1>5, <2>2 DEF Locked
  <2>4. {now, pfair_time, merge_time, cur_tick} \subseteq Nat
    BY <1>1 DEF TickTypes
  <2>5. Turns
    BY DEF IInv
  <2>6. ASSUME NEW d \in CPU, phase'[d] \in {"turn", "link"}
        PROVE  d # c /\ phase[d] = "turn" /\ quantum[d] > cur_tick + 1
    BY <1>3, <1>4, <1>5, <2>1, <2>2, <2>4, <2>5, <2>6 DEF Turns
  <2> QED BY <1>2, <1>3, <1>4, <1>5, <2>1, <2>2, <2>3, <2>4, <2>5, <2>6 DEF Turns
<1>9. Stacks' /\ Releasing' /\ Wheel' /\ Params'
  BY <1>7, StacksKept, ReleasingKept, WheelKept DEF announce
<1> QED BY <1>6, <1>8, <1>9 DEF IInv

LEMMA LoadLinkedStep ==
  ASSUME IInv, NEW c \in CPU, load_linked(c)
  PROVE  IInv'
<1>1. TickTypes /\ CPU' = CPU
  BY TickTyped, SameCPU DEF load_linked
<1>2. TypeOK' /\ ~panic'
  <2>1. linked[c] \in Task \cup {NULL}
    BY TickTyped DEF TypeOK
  <2>2. TickTypes'
    BY <1>1, <2>1 DEF load_linked, TickTypes, Phases
  <2> QED BY <2>2, TypeKept DEF load_linked
<1>3. \A d \in CPU \ {c} : phase'[d] = phase[d]
  BY <1>1 DEF load_linked, TickTypes
<1>4. phase[c] = "copy" /\ phase'[c] = "store"
  BY <1>1 DEF load_linked, TickTypes
<1>5. \A S : ("copy" \notin S /\ "store" \notin S) => SamePhase(S)
  BY <1>3, <1>4 DEF SamePhase
<1>6. Turns'
  <2>1. \A d \in CPU : cur'[d] <= now
    BY DEF IInv, Turns, load_linked
  <2> QED BY <1>5, <2>1, TurnsKept DEF load_linked
<1>7. Stacks' /\ Releasing' /\ Wheel' /\ Params'
  BY <1>5, StacksKept, ReleasingKept, WheelKept DEF load_linked
<1> QED BY <1>2, <1>6, <1>7 DEF IInv

LEMMA StoreLocalStep ==
  ASSUME IInv, NEW c \in CPU, store_local(c)
  PROVE  IInv'
<1>1. TickTypes /\ CPU' = CPU
  BY TickTyped, SameCPU DEF store_local
<1>2. TypeOK' /\ ~panic'
  <2>1. TickTypes'
    BY <1>1 DEF store_local, TickTypes, Phases
  <2> QED BY <2>1, TypeKept DEF store_local
<1>3. \A d \in CPU \ {c} : phase'[d] = phase[d] /\ quantum'[d] = quantum[d]
  BY <1>1 DEF store_local, TickTypes
<1>4. phase[c] = "store" /\ phase'[c] = "run"
  BY <1>1 DEF store_local, TickTypes
<1>5. \A S : ("run" \notin S /\ "store" \notin S) => SamePhase(S)
  BY <1>3, <1>4 DEF SamePhase
<1>6. Turns'
  <2>1. \A d \in CPU : cur'[d] <= now
    BY DEF IInv, Turns, store_local
  <2>2. \A d \in CPU : phase[d] \in {"turn", "link"} => quantum'[d] = quantum[d]
    BY <1>3, <1>4
  <2> QED BY <1>5, <2>1, <2>2, TurnsKept DEF store_local
<1>7. Stacks' /\ Releasing' /\ Wheel' /\ Params'
  BY <1>5, StacksKept, ReleasingKept, WheelKept DEF store_local
<1> QED BY <1>2, <1>6, <1>7 DEF IInv

-----------------------------------------------------------------------------
(* Interrupts, the clock and schedule()                                    *)

StackTypes ==
  /\ now \in Nat /\ start \in Nat
  /\ rt \subseteq Task /\ running \subseteq Task /\ present \subseteq Task
  /\ flags \in [Task -> {"RUNNING", "SLEEP"}]
  /\ sync \in [Task -> {"new", "wait", "done"}]
  /\ scheduled_on \in [Task -> CPU \cup {NO_CPU}]
  /\ curr \in [CPU -> Task \cup {NULL}] /\ task_cpu \in [Task -> CPU]
  /\ stack_in_use \in [Task -> CPU \cup {NO_CPU}]
  /\ phase \in [CPU -> Phases]
  /\ next \in [CPU -> Task \cup {NULL}]
  /\ was_running \subseteq CPU /\ ipi \subseteq CPU

LEMMA StackTyped ==
  ASSUME SupportedUse, IInv
  PROVE  /\ StackTypes /\ TypeOK /\ NO_CPU \notin CPU /\ NULL \notin Task
         /\ local \in [CPU -> Task \cup {NULL}]
<1>1. TypeOK
  BY DEF IInv
<1>2. StackTypes /\ local \in [CPU -> Task \cup {NULL}]
  BY <1>1 DEF StackTypes, TypeOK, Phases
<1>3. CPU \subseteq Nat
  <2>1. setup.cpus \in Nat
    BY <1>1 DEF TypeOK, SupportedUse, Setup
  <2> QED BY <2>1 DEF CPU
<1>4. NO_CPU \notin CPU /\ NULL \notin Task
  BY <1>3, ConstantsAssumption
<1> QED BY <1>1, <1>2, <1>4

\* The types of what the tick keeps to itself are kept.
LEMMA OtherTypesKept ==
  ASSUME IInv, StackTypes',
         UNCHANGED <<setup, clockVars, pfair, queueVars, linkVars, local, tickVars,
                     panic>>
  PROVE  TypeOK' /\ ~panic'
<1>1. CPU' = CPU
  BY SameCPU
<1>2. \A t \in Task : Quanta(t)' = Quanta(t)
  BY DEF Quanta
<1>3. TypeOK /\ ~panic
  BY DEF IInv
<1> QED BY <1>1, <1>2, <1>3 DEF TypeOK, StackTypes, Phases

LEMMA ReleaseTsStep ==
  ASSUME SupportedUse, IInv, NEW c \in CPU, release_ts(c)
  PROVE  IInv'
<1>1. StackTypes /\ CPU' = CPU
  BY StackTyped, SameCPU DEF release_ts
<1>2. TypeOK' /\ ~panic'
  <2>1. StackTypes'
    BY <1>1 DEF release_ts, StackTypes, Phases
  <2> QED BY <2>1, OtherTypesKept DEF release_ts
<1>3. \A d \in CPU \ {c} : phase'[d] = phase[d]
  BY <1>1 DEF release_ts, StackTypes
<1>4. phase[c] = "run" /\ phase'[c] = "release"
  BY <1>1 DEF release_ts, StackTypes, Open
<1>5. \A S : ("run" \notin S /\ "release" \notin S) => SamePhase(S)
  BY <1>3, <1>4 DEF SamePhase
<1>6. Turns'
  <2>1. \A d \in CPU : cur'[d] <= now
    BY DEF IInv, Turns, release_ts
  <2> QED BY <1>5, <2>1, TurnsKept DEF release_ts
<1>7. Releasing'
  <2>1. \A d \in CPU : phase'[d] = "release" => d = c
    BY <1>3 DEF release_ts
  <2>2. UNCHANGED <<setup, sync, rt, running, now>> /\ start' = now + 1
    BY DEF release_ts
  <2> QED BY <1>1, <2>1, <2>2 DEF IInv, Releasing
<1>8. Stacks' /\ Wheel' /\ Params'
  BY <1>5, StacksKept, WheelKept DEF release_ts
<1> QED BY <1>2, <1>6, <1>7, <1>8 DEF IInv

LEMMA ReleaseTsEndStep ==
  ASSUME SupportedUse, IInv, NEW c \in CPU, release_ts_end(c)
  PROVE  IInv'
<1>1. StackTypes /\ CPU' = CPU
  BY StackTyped, SameCPU DEF release_ts_end
<1>2. TypeOK' /\ ~panic'
  <2>1. StackTypes'
    BY <1>1 DEF release_ts_end, StackTypes, Phases
  <2> QED BY <2>1, OtherTypesKept DEF release_ts_end
<1>3. \A d \in CPU \ {c} : phase'[d] = phase[d]
  BY <1>1 DEF release_ts_end, StackTypes
<1>4. phase[c] = "release" /\ phase'[c] = "run"
  BY <1>1 DEF release_ts_end, StackTypes
<1>5. \A S : ("run" \notin S /\ "release" \notin S) => SamePhase(S)
  BY <1>3, <1>4 DEF SamePhase
<1>6. Turns'
  <2>1. \A d \in CPU : cur'[d] <= now
    BY DEF IInv, Turns, release_ts_end
  <2> QED BY <1>5, <2>1, TurnsKept DEF release_ts_end
<1>7. Releasing'
  <2>1. \A d \in CPU : phase'[d] # "release"
    BY <1>3, <1>4 DEF IInv, Releasing
  <2>2. UNCHANGED <<setup, sync, rt, running, now>>
    BY DEF release_ts_end
  <2> QED BY <1>1, <2>1, <2>2 DEF IInv, Releasing
<1>8. Stacks' /\ Wheel' /\ Params'
  BY <1>5, StacksKept, WheelKept DEF release_ts_end
<1> QED BY <1>2, <1>6, <1>7, <1>8 DEF IInv

LEMMA RescheduleInterruptStep ==
  ASSUME SupportedUse, IInv, NEW c \in CPU, reschedule_interrupt(c)
  PROVE  IInv'
<1>1. StackTypes /\ CPU' = CPU
  BY StackTyped, SameCPU DEF reschedule_interrupt
<1>2. TypeOK' /\ ~panic'
  <2>1. StackTypes'
    BY <1>1 DEF reschedule_interrupt, StackTypes, Phases
  <2> QED BY <2>1, OtherTypesKept DEF reschedule_interrupt
<1>3. \A S : SamePhase(S)
  BY DEF SamePhase, reschedule_interrupt
<1>4. Turns'
  <2>1. \A d \in CPU : cur'[d] <= now
    BY DEF IInv, Turns, reschedule_interrupt
  <2> QED BY <1>3, <2>1, TurnsKept DEF reschedule_interrupt
<1>5. Stacks' /\ Releasing' /\ Wheel' /\ Params'
  BY <1>3, StacksKept, ReleasingKept, WheelKept DEF reschedule_interrupt
<1> QED BY <1>2, <1>4, <1>5 DEF IInv

LEMMA ClockStep ==
  ASSUME SupportedUse, IInv, clock
  PROVE  IInv'
<1>1. StackTypes /\ CPU' = CPU
  BY StackTyped, SameCPU DEF clock
<1>2. TypeOK' /\ ~panic'
  <2>1. StackTypes'
    BY <1>1 DEF clock, StackTypes, Phases
  <2> QED BY <2>1, OtherTypesKept DEF clock
<1>3. \A S : SamePhase(S)
  BY DEF SamePhase, clock
<1>4. Turns'
  <2>1. now' = now + 1 /\ UNCHANGED <<clockVars, cur, quantum, phase>> /\ TickTypes
    BY TickTyped DEF clock
  <2>2. Turns /\ (Locked' <=> Locked)
    BY <1>1, <2>1 DEF IInv, Locked
  <2>3. pfair_time' <= now' /\ \A d \in CPU : cur'[d] <= now'
    BY <2>1, <2>2 DEF Turns, TickTypes
  <2> QED BY <1>1, <2>1, <2>2, <2>3 DEF Turns
<1>5. Releasing'
  <2>1. setup.lag \/ \A d \in CPU : phase[d] # "release"
    BY DEF clock, Quiet, Open
  <2>2. UNCHANGED <<setup, sync, rt, running, start, phase>>
    BY DEF clock
  <2> QED BY <1>1, <2>1, <2>2 DEF IInv, Releasing
<1>6. Stacks' /\ Wheel' /\ Params'
  BY <1>3, StacksKept, WheelKept DEF clock
<1> QED BY <1>2, <1>4, <1>5, <1>6 DEF IInv

\* A processor enters schedule(), and its task may have blocked: no other
\* processor executes or has picked that task.
LEMMA Entering ==
  ASSUME SupportedUse, IInv, NEW c \in CPU, phase[c] = "run", phase'[c] = "sched",
         \A d \in CPU \ {c} : phase'[d] = phase[d],
         UNCHANGED <<setup, rt, scheduled_on, switchVars, next>>,
         running' = running \/ running' = running \ {curr[c]},
         present' = present \cap running'
  PROVE  Stacks'
<1>1. StackTypes /\ CPU' = CPU /\ NULL \notin Task
  BY StackTyped, SameCPU
<1>2. Stacks
  BY DEF IInv
<1>3. ~Switching(c) /\ ~Switching(c)' /\ \A d \in CPU \ {c} : Switching(d)' <=> Switching(d)
  BY DEF Switching
<1>4. Execution(c)'
  BY <1>2, <1>3 DEF Stacks, Execution
<1>5. ASSUME NEW d \in CPU \ {c} PROVE Execution(d)'
  <2>1. curr[d] # NULL => curr[d] # curr[c]
    <3>1. curr[d] # NULL => curr[d] \in Task
      BY <1>1 DEF StackTypes
    <3>2. \A t \in Task : curr[d] = t /\ curr[c] = t => FALSE
      BY <1>2 DEF Stacks
    <3> QED BY <3>1, <3>2
  <2>2. next[d] # NULL => next[d] # curr[c]
    <3>1. next[d] # NULL => next[d] \in Task /\ Switching(d)
      BY <1>1, <1>2 DEF StackTypes, Stacks, Execution
    <3>2. \A t \in Task : Switching(d) /\ next[d] = t => scheduled_on[t] = d
      BY <1>2 DEF Stacks
    <3>3. \A t \in Task : curr[c] = t => scheduled_on[t] = c
      BY <1>2, <1>3 DEF Stacks
    <3> QED BY <3>1, <3>2, <3>3
  <2>3. Execution(d) /\ phase'[d] = phase[d]
    BY <1>2 DEF Stacks
  <2> QED BY <1>3, <2>1, <2>2, <2>3 DEF Execution
<1>6. \A t \in Task, d \in CPU :
        /\ (stack_in_use[t] = d <=> curr[d] = t)'
        /\ (scheduled_on[t] = d <=> (IF Switching(d) THEN next[d] = t ELSE curr[d] = t))'
  BY <1>2, <1>3 DEF Stacks
<1>7. (present \subseteq rt \cap running /\ Task \ rt \subseteq running)'
  <2>1. curr[c] \in Task => curr[c] \in rt
    BY <1>1, <1>2 DEF Stacks, Execution
  <2> QED BY <1>2, <2>1 DEF Stacks
<1> QED BY <1>1, <1>4, <1>5, <1>6, <1>7 DEF Stacks

LEMMA ScheduleStep ==
  ASSUME SupportedUse, IInv, NEW c \in CPU, schedule(c)
  PROVE  IInv'
<1>1. StackTypes /\ CPU' = CPU
  BY StackTyped, SameCPU DEF schedule
<1>2. TypeOK' /\ ~panic'
  <2>1. StackTypes'
    BY <1>1 DEF schedule, enter, StackTypes, Phases
  <2> QED BY <2>1, OtherTypesKept DEF schedule
<1>3. \A d \in CPU \ {c} : phase'[d] = phase[d]
  BY <1>1 DEF schedule, enter, StackTypes
<1>4. phase[c] = "run" /\ phase'[c] = "sched"
  BY <1>1 DEF schedule, enter, StackTypes, Open
<1>5. \A S : ("run" \notin S /\ "sched" \notin S) => SamePhase(S)
  BY <1>3, <1>4 DEF SamePhase
<1>6. Turns'
  <2>1. \A d \in CPU : cur'[d] <= now
    BY DEF IInv, Turns, schedule
  <2> QED BY <1>5, <2>1, TurnsKept DEF schedule
<1>7. Stacks'
  <2>1. present' = present \cap running' /\ running' = running
    BY DEF schedule, IInv, Stacks
  <2> QED BY <1>3, <1>4, <2>1, Entering DEF schedule
<1>8. Releasing' /\ Wheel' /\ Params'
  BY <1>5, ReleasingKept, WheelKept DEF schedule
<1> QED BY <1>2, <1>6, <1>7, <1>8 DEF IInv

LEMMA CompleteJobStep ==
  ASSUME SupportedUse, IInv, NEW c \in CPU, complete_job(c)
  PROVE  IInv'
<1>1. StackTypes /\ CPU' = CPU
  BY StackTyped, SameCPU DEF complete_job
<1>2. TypeOK' /\ ~panic'
  <2>1. StackTypes'
    BY <1>1 DEF complete_job, enter, StackTypes, Phases
  <2> QED BY <2>1, OtherTypesKept DEF complete_job
<1>3. \A d \in CPU \ {c} : phase'[d] = phase[d]
  BY <1>1 DEF complete_job, enter, StackTypes
<1>4. phase[c] = "run" /\ phase'[c] = "sched"
  BY <1>1 DEF complete_job, enter, StackTypes, Open
<1>5. \A S : ("run" \notin S /\ "sched" \notin S) => SamePhase(S)
  BY <1>3, <1>4 DEF SamePhase
<1>6. Turns'
  <2>1. \A d \in CPU : cur'[d] <= now
    BY DEF IInv, Turns, complete_job
  <2> QED BY <1>5, <2>1, TurnsKept DEF complete_job
<1>7. Stacks'
  <2>1. present' = present \cap running' /\ running' = running
    BY DEF complete_job, IInv, Stacks
  <2> QED BY <1>3, <1>4, <2>1, Entering DEF complete_job
<1>8. Releasing' /\ Wheel' /\ Params'
  BY <1>5, ReleasingKept, WheelKept DEF complete_job
<1> QED BY <1>2, <1>6, <1>7, <1>8 DEF IInv

LEMMA BlockStep ==
  ASSUME SupportedUse, IInv, NEW c \in CPU, block(c)
  PROVE  IInv'
<1>1. StackTypes /\ CPU' = CPU /\ NULL \notin Task
  BY StackTyped, SameCPU DEF block
<1>2. TypeOK' /\ ~panic'
  <2>1. StackTypes'
    BY <1>1 DEF block, enter, StackTypes, Phases
  <2> QED BY <2>1, OtherTypesKept DEF block
<1>3. \A d \in CPU \ {c} : phase'[d] = phase[d]
  BY <1>1 DEF block, enter, StackTypes
<1>4. phase[c] = "run" /\ phase'[c] = "sched"
  BY <1>1 DEF block, enter, StackTypes, Open
<1>5. \A S : ("run" \notin S /\ "sched" \notin S) => SamePhase(S)
  BY <1>3, <1>4 DEF SamePhase
<1>6. Turns'
  <2>1. \A d \in CPU : cur'[d] <= now
    BY DEF IInv, Turns, block
  <2> QED BY <1>5, <2>1, TurnsKept DEF block
<1>7. Stacks'
  <2>1. present' = present \cap running' /\ running' = running \ {curr[c]}
    BY DEF block, IInv, Stacks
  <2> QED BY <1>3, <1>4, <2>1, Entering DEF block
<1>8. Releasing'
  <2>1. curr[c] \in rt /\ curr[c] \in Task
    BY <1>1 DEF block, IInv, Stacks, Execution, StackTypes
  <2>2. \A t \in Task : sync'[t] = "wait" =>
          t \in setup.synched /\ t \in rt \ running'
    <3>1. \A t \in Task : sync'[t] = "wait" =>
            sync[t] = "wait" \/ (t = curr[c] /\ t \in setup.synched)
      BY <1>1, <2>1 DEF block, StackTypes
    <3>2. running' = running \ {curr[c]}
      BY DEF block
    <3> QED BY <2>1, <3>1, <3>2 DEF IInv, Releasing
  <2>3. \A d \in CPU : phase'[d] = "release" <=> phase[d] = "release"
    BY <1>3, <1>4
  <2>4. UNCHANGED <<setup, start, now, rt>>
    BY DEF block
  <2> QED BY <1>1, <2>2, <2>3, <2>4 DEF IInv, Releasing
<1>9. Wheel' /\ Params'
  BY WheelKept DEF block
<1> QED BY <1>2, <1>6, <1>7, <1>8, <1>9 DEF IInv

LEMMA PfairScheduleStep ==
  ASSUME SupportedUse, IInv, NEW c \in CPU, pfair_schedule(c)
  PROVE  IInv'
<1>1. /\ StackTypes /\ CPU' = CPU /\ NULL \notin Task /\ NO_CPU \notin CPU
      /\ local[c] \in Task \cup {NULL}
  BY StackTyped, SameCPU DEF pfair_schedule
<1>2. Stacks
  BY DEF IInv
<1>3. PICK n \in Task \cup {NULL} :
        /\ next' = [next EXCEPT ![c] = n]
        /\ scheduled_on' = [t \in Task |-> IF curr[c] = n THEN scheduled_on[t]
                                           ELSE IF t = n THEN c
                                           ELSE IF t = curr[c] THEN NO_CPU
                                           ELSE scheduled_on[t]]
        /\ phase' = [phase EXCEPT ![c] =
                       IF n # NULL /\ task_cpu[n] # c THEN "wait" ELSE "switch"]
        /\ n # NULL => n \in present /\ scheduled_on[n] \in {NO_CPU, c}
  BY <1>1 DEF pfair_schedule, safe_to_schedule
<1>4. TypeOK' /\ ~panic'
  <2>1. scheduled_on' \in [Task -> CPU \cup {NO_CPU}]
    BY <1>1, <1>3 DEF StackTypes
  <2>2. next' \in [CPU -> Task \cup {NULL}]
    BY <1>1, <1>3 DEF StackTypes
  <2>3. phase' \in [CPU -> Phases]
    BY <1>1, <1>3 DEF StackTypes, Phases
  <2>4. was_running' \subseteq CPU
    BY <1>1 DEF pfair_schedule, StackTypes
  <2>5. StackTypes'
    BY <1>1, <2>1, <2>2, <2>3, <2>4 DEF pfair_schedule, StackTypes
  <2> QED BY <2>5, OtherTypesKept DEF pfair_schedule
<1>5. \A d \in CPU \ {c} : phase'[d] = phase[d] /\ next'[d] = next[d]
  BY <1>1, <1>3 DEF StackTypes
<1>6. /\ phase[c] = "sched" /\ next'[c] = n
      /\ phase'[c] = IF n # NULL /\ task_cpu[n] # c THEN "wait" ELSE "switch"
  BY <1>1, <1>3 DEF pfair_schedule, StackTypes
<1>7. \A S : S \cap {"sched", "wait", "switch"} = {} => SamePhase(S)
  BY <1>5, <1>6 DEF SamePhase
<1>8. Turns'
  <2>1. \A d \in CPU : cur'[d] <= now
    BY DEF IInv, Turns, pfair_schedule
  <2> QED BY <1>7, <2>1, TurnsKept DEF pfair_schedule
<1>9. Releasing' /\ Wheel' /\ Params'
  BY <1>7, ReleasingKept, WheelKept DEF pfair_schedule
<1>10. Stacks'
  <2>1. UNCHANGED <<rt, running, present, curr, task_cpu, stack_in_use>>
    BY DEF pfair_schedule
  <2>2. /\ ~Switching(c) /\ Switching(c)'
        /\ \A d \in CPU \ {c} : Switching(d)' <=> Switching(d)
    BY <1>5, <1>6 DEF Switching
  <2>3. \A t \in Task : curr[c] = t <=> scheduled_on[t] = c
    BY <1>2, <2>2 DEF Stacks
  <2>4. ASSUME n # NULL, task_cpu[n] = c, n # curr[c] PROVE stack_in_use[n] = NO_CPU
    <3>1. n \in Task /\ stack_in_use[n] \in CPU \cup {NO_CPU}
      BY <1>1, <2>4 DEF StackTypes
    <3>2. \A d \in CPU : curr[d] = n => d = c
      BY <1>2, <2>4 DEF Stacks, Execution
    <3>3. \A d \in CPU : stack_in_use[n] = d => curr[d] = n
      BY <1>2, <3>1 DEF Stacks
    <3> QED BY <2>4, <3>1, <3>2, <3>3
  <2>5. Execution(c)'
    <3>1. Execution(c) /\ (n # NULL => n \in rt \cap running)
      BY <1>2, <1>3 DEF Stacks
    <3> QED BY <1>6, <2>1, <2>2, <2>4, <3>1 DEF Execution
  <2>6. ASSUME NEW d \in CPU \ {c} PROVE Execution(d)'
    <3>1. Execution(d)
      BY <1>2 DEF Stacks
    <3> QED BY <1>5, <2>1, <2>2, <2>6, <3>1 DEF Execution
  <2>7. ASSUME NEW t \in Task, NEW d \in CPU
        PROVE (scheduled_on[t] = d <=> (IF Switching(d) THEN next[d] = t ELSE curr[d] = t))'
    <3>1. CASE d = c
      <4>1. scheduled_on'[t] = c <=> n = t
        BY <1>1, <1>3, <2>3
      <4> QED BY <1>6, <2>2, <3>1, <4>1
    <3>2. CASE d # c
      <4>1. scheduled_on'[t] = d <=> scheduled_on[t] = d
        BY <1>1, <1>3, <2>3, <3>2
      <4>2. scheduled_on[t] = d <=> (IF Switching(d) THEN next[d] = t ELSE curr[d] = t)
        BY <1>2 DEF Stacks
      <4> QED BY <1>5, <2>1, <2>2, <3>2, <4>1, <4>2
    <3> QED BY <3>1, <3>2
  <2> QED BY <1>1, <1>2, <2>1, <2>5, <2>6, <2>7 DEF Stacks
<1> QED BY <1>4, <1>8, <1>9, <1>10 DEF IInv

LEMMA FinishSwitchStep ==
  ASSUME SupportedUse, IInv, NEW c \in CPU, finish_switch(c)
  PROVE  IInv'
<1>1. StackTypes /\ CPU' = CPU /\ NULL \notin Task /\ NO_CPU \notin CPU
  BY StackTyped, SameCPU DEF finish_switch
<1>2. Stacks
  BY DEF IInv
<1>3. PICK n \in Task \cup {NULL} : n = next[c]
  BY <1>1 DEF StackTypes
<1>4. TypeOK' /\ ~panic'
  <2>1. stack_in_use' \in [Task -> CPU \cup {NO_CPU}]
    BY <1>1, <1>3 DEF finish_switch, StackTypes
  <2>2. next' \in [CPU -> Task \cup {NULL}] /\ curr' \in [CPU -> Task \cup {NULL}]
    BY <1>1, <1>3 DEF finish_switch, StackTypes
  <2>3. phase' \in [CPU -> Phases]
    BY <1>1 DEF finish_switch, StackTypes, Phases
  <2>4. was_running' \subseteq CPU
    BY <1>1 DEF finish_switch, StackTypes
  <2>5. StackTypes'
    BY <1>1, <2>1, <2>2, <2>3, <2>4 DEF finish_switch, StackTypes
  <2> QED BY <2>5, OtherTypesKept DEF finish_switch
<1>5. \A d \in CPU \ {c} : phase'[d] = phase[d] /\ next'[d] = next[d] /\ curr'[d] = curr[d]
  BY <1>1 DEF finish_switch, StackTypes
<1>6. phase[c] = "switch" /\ phase'[c] = "run" /\ next'[c] = NULL /\ curr'[c] = n
  BY <1>1, <1>3 DEF finish_switch, StackTypes
<1>7. \A S : S \cap {"switch", "run"} = {} => SamePhase(S)
  BY <1>5, <1>6 DEF SamePhase
<1>8. Turns'
  <2>1. \A d \in CPU : cur'[d] <= now
    BY DEF IInv, Turns, finish_switch
  <2> QED BY <1>7, <2>1, TurnsKept DEF finish_switch
<1>9. Releasing' /\ Wheel' /\ Params'
  BY <1>7, ReleasingKept, WheelKept DEF finish_switch
<1>10. Stacks'
  <2>1. UNCHANGED <<rt, running, present, scheduled_on, task_cpu>>
    BY DEF finish_switch
  <2>2. /\ Switching(c) /\ ~Switching(c)'
        /\ \A d \in CPU \ {c} : Switching(d)' <=> Switching(d)
    BY <1>5, <1>6 DEF Switching
  <2>3. \A t \in Task : curr[c] = t <=> stack_in_use[t] = c
    BY <1>2 DEF Stacks
  <2>4. n # NULL => n \in rt \cap running /\ task_cpu[n] = c
                    /\ (n # curr[c] => stack_in_use[n] = NO_CPU)
    BY <1>2, <1>3, <1>6 DEF Stacks, Execution
  <2>5. Execution(c)'
    BY <1>6, <2>1, <2>2, <2>4 DEF Execution
  <2>6. ASSUME NEW d \in CPU \ {c} PROVE Execution(d)'
    <3>1. Execution(d)
      BY <1>2 DEF Stacks
    <3>2. phase[d] = "switch" /\ next[d] # NULL => next[d] \in Task /\ next[d] # n /\ next[d] # curr[c]
      <4>1. phase[d] = "switch" /\ next[d] # NULL => next[d] \in Task /\ task_cpu[next[d]] = d
        BY <1>1, <3>1 DEF Execution, StackTypes
      <4>2. curr[c] # NULL => task_cpu[curr[c]] = c
        BY <1>2 DEF Stacks, Execution
      <4> QED BY <2>4, <4>1, <4>2
    <3>3. phase[d] = "switch" /\ next[d] # NULL => stack_in_use'[next[d]] = stack_in_use[next[d]]
      BY <1>3, <3>2 DEF finish_switch
    <3> QED BY <1>5, <2>1, <2>2, <3>1, <3>3 DEF Execution
  <2>7. \A t \in Task, d \in CPU :
          (scheduled_on[t] = d <=> (IF Switching(d) THEN next[d] = t ELSE curr[d] = t))'
    BY <1>2, <1>3, <1>5, <1>6, <2>1, <2>2 DEF Stacks
  <2>8. ASSUME NEW t \in Task, NEW d \in CPU
        PROVE  (stack_in_use[t] = d <=> curr[d] = t)'
    <3>1. stack_in_use'[t] = IF t = n THEN c ELSE IF t = curr[c] THEN NO_CPU
                             ELSE stack_in_use[t]
      BY <1>3 DEF finish_switch
    <3>2. stack_in_use[t] = d <=> curr[d] = t
      BY <1>2 DEF Stacks
    <3> QED BY <1>1, <1>5, <1>6, <2>3, <2>4, <3>1, <3>2
  <2> QED BY <1>1, <1>2, <2>1, <2>5, <2>6, <2>7, <2>8 DEF Stacks
<1> QED BY <1>4, <1>8, <1>9, <1>10 DEF IInv

-----------------------------------------------------------------------------
(* Queues and links                                                        *)

WheelAt(t) ==
  IF t \in rt THEN InPlace(t) ELSE t \notin ready /\ ~Waiting(t) /\ ~Linked(t)

QueueTypes ==
  /\ \A t \in Task : pfair[t].cur \in 0 .. Quanta(t) - 1
  /\ ready \subseteq Task /\ relq \in [0 .. PFAIR_MAX_PERIOD - 1 -> SUBSET Task]
  /\ linked \in [CPU -> Task \cup {NULL}] /\ local \in [CPU -> Task \cup {NULL}]
  /\ linked_on \in [Task -> CPU \cup {NO_CPU}]

LEMMA QueueTyped ==
  ASSUME SupportedUse, IInv
  PROVE  /\ QueueTypes /\ Params /\ 0 \in CPU /\ CPU \subseteq Nat
         /\ \A t \in Task : WheelAt(t) /\ cur_release(t, pfair[t]) \in Nat
<1>1. TypeOK /\ Params /\ Wheel
  BY DEF IInv
<1>2. setup.cpus \in Nat \ {0}
  BY <1>1 DEF TypeOK, SupportedUse, Setup
<1>3. 0 \in CPU /\ CPU \subseteq Nat
  BY <1>2 DEF CPU
<1>4. QueueTypes
  BY <1>1 DEF QueueTypes, TypeOK
<1>5. \A t \in Task : WheelAt(t)
  BY <1>1 DEF Wheel, WheelAt
<1> QED BY <1>1, <1>3, <1>4, <1>5, ParamType

\* The types of what only the tick changes are kept.
LEMMA AllTypes ==
  ASSUME IInv, StackTypes', QueueTypes', panic' = FALSE,
         UNCHANGED <<setup, clockVars, tickVars>>
  PROVE  TypeOK' /\ ~panic'
<1>1. CPU' = CPU
  BY SameCPU
<1>2. /\ (setup \in Setups)' /\ ({now, pfair_time, merge_time, cur_tick, start} \subseteq Nat)'
      /\ (cur \in [CPU -> Nat] /\ quantum \in [CPU -> Nat])'
      /\ (catching \subseteq CPU /\ at \in 0 .. setup.cpus)'
      /\ (loaded \in [CPU -> Task \cup {NULL}])'
  <2>1. TypeOK
    BY DEF IInv
  <2> QED BY <1>1, <2>1 DEF TypeOK, StackTypes
<1>3. panic' \in BOOLEAN
  OBVIOUS
<1> QED BY <1>2, <1>3 DEF TypeOK, StackTypes, QueueTypes, Phases

LEMMA PrimedRelease ==
  ASSUME setup' = setup, NEW t \in Task
  PROVE  /\ cur_release(t, pfair[t])' = cur_release(t, pfair'[t])
         /\ Quanta(t)' = Quanta(t)
BY DEF cur_release, cur_sub, Quanta, Period

\* A task that a step does not move stays in place.
LEMMA Unmoved ==
  ASSUME SupportedUse, IInv, UNCHANGED <<setup, merge_time>>,
         NEW t \in Task, pfair'[t] = pfair[t], linked_on'[t] = linked_on[t],
         t \in rt' <=> t \in rt, t \in ready' <=> t \in ready,
         DOMAIN relq' = DOMAIN relq,
         \A s \in DOMAIN relq : t \in relq'[s] <=> t \in relq[s],
         \A c \in CPU : linked'[c] = t <=> linked[c] = t
  PROVE  WheelAt(t)'
<1>1. CPU' = CPU /\ cur_release(t, pfair[t])' = cur_release(t, pfair[t])
  BY SameCPU, PrimedRelease
<1>2. Waiting(t)' <=> Waiting(t)
  BY DEF Waiting
<1>3. Linked(t)' <=> Linked(t)
  BY <1>1 DEF Linked
<1>4. WheelAt(t)
  BY QueueTyped
<1> QED BY <1>1, <1>2, <1>3, <1>4 DEF WheelAt, InPlace

\* A task whose job is released at time r, within a turn of the wheel, and that
\* is put into the slot of r and nowhere else.
LEMMA Arrival ==
  ASSUME SupportedUse, IInv, UNCHANGED <<setup, merge_time>>,
         NEW t \in Task, NEW r \in Nat, merge_time < r,
         r <= merge_time + PFAIR_MAX_PERIOD,
         pfair'[t].cur = 0, pfair'[t].release = r, ~pfair'[t].sporadic_release,
         t \in rt', t \notin ready',
         DOMAIN relq' = 0 .. PFAIR_MAX_PERIOD - 1,
         \A s \in 0 .. PFAIR_MAX_PERIOD - 1 : t \in relq'[s] <=> s = Slot(r),
         \A c \in CPU : linked'[c] # t
  PROVE  WheelAt(t)'
<1>1. CPU' = CPU
  BY SameCPU
<1>2. cur_release(t, pfair[t])' = r
  <2>1. setup \in Setups /\ Quanta(t) \in 1 .. PFAIR_MAX_PERIOD
    BY Weights DEF IInv, TypeOK
  <2>2. pfair'[t].cur \in 0 .. Quanta(t) - 1
    BY <2>1, ConstantsAssumption
  <2>3. cur_release(t, pfair'[t]) = r
    BY <2>1, <2>2, Release
  <2> QED BY <2>3, PrimedRelease
<1>3. ~Linked(t)'
  BY <1>1 DEF Linked
<1>4. Waiting(t)'
  BY SlotType DEF Waiting
<1>5. InPlace(t)'
  BY <1>1, <1>2, <1>3, <1>4 DEF InPlace
<1> QED BY <1>5 DEF WheelAt

\* drop_all_references() finds the task in the queue it infers.
LEMMA Dropping ==
  ASSUME SupportedUse, IInv, NEW t \in rt
  PROVE  /\ ~corrupts(t)
         /\ dropped_heap(t)[1] = ready \ {t}
         /\ dropped_heap(t)[2] \in [0 .. PFAIR_MAX_PERIOD - 1 -> SUBSET Task]
         /\ \A s \in 0 .. PFAIR_MAX_PERIOD - 1 : dropped_heap(t)[2][s] = relq[s] \ {t}
<1>1. t \in Task /\ relq \in [0 .. PFAIR_MAX_PERIOD - 1 -> SUBSET Task]
  BY QueueTyped DEF IInv, TypeOK, QueueTypes
<1>2. PICK r \in Nat : r = cur_release(t, pfair[t])
  BY <1>1, QueueTyped
<1>3. merge_time \in Nat
  BY DEF IInv, TypeOK
<1>4. /\ t \in ready => r <= merge_time /\ ~Waiting(t)
      /\ \A s \in DOMAIN relq : t \in relq[s] => s = Slot(r) /\ merge_time < r
  BY <1>1, <1>2, QueueTyped DEF WheelAt, InPlace
<1>5. Slot(r) \in 0 .. PFAIR_MAX_PERIOD - 1
  BY SlotType
<1>6. CASE r <= merge_time
  <2>1. dropped_heap(t) = <<ready \ {t}, relq>>
    BY <1>2, <1>6 DEF dropped_heap
  <2>2. \A s \in 0 .. PFAIR_MAX_PERIOD - 1 : t \notin relq[s]
    BY <1>1, <1>3, <1>4, <1>6
  <2>3. ~corrupts(t)
    BY <1>1, <1>2, <1>6, <2>2 DEF corrupts, in_heap
  <2> QED BY <1>1, <2>1, <2>2, <2>3
<1>7. CASE ~(r <= merge_time)
  <2>1. dropped_heap(t) = <<ready, [relq EXCEPT ![Slot(r)] = @ \ {t}]>>
    BY <1>2, <1>7 DEF dropped_heap
  <2>2. t \notin ready
    BY <1>4, <1>7
  <2>3. ~corrupts(t)
    BY <1>2, <1>4, <1>7, <2>2 DEF corrupts, in_heap
  <2>4. \A s \in 0 .. PFAIR_MAX_PERIOD - 1 :
          [relq EXCEPT ![Slot(r)] = @ \ {t}][s] = relq[s] \ {t}
    BY <1>1, <1>4
  <2>5. [relq EXCEPT ![Slot(r)] = @ \ {t}] \in [0 .. PFAIR_MAX_PERIOD - 1 -> SUBSET Task]
    BY <1>1, <1>5
  <2> QED BY <2>1, <2>2, <2>3, <2>4, <2>5
<1> QED BY <1>6, <1>7

\* prepare_release() starts a new job and changes no other task.
LEMMA Prepared ==
  ASSUME SupportedUse, IInv, setup' = setup, NEW t \in Task, NEW r \in Nat,
         pfair' = prepare_release(t, r)
  PROVE  /\ pfair'[t].cur = 0 /\ pfair'[t].release = r /\ ~pfair'[t].sporadic_release
         /\ \A u \in Task \ {t} : pfair'[u] = pfair[u]
         /\ (\A u \in Task : pfair[u].cur \in 0 .. Quanta(u) - 1)'
         /\ Params'
<1>1. CPU' = CPU /\ QueueTypes /\ Params
  BY SameCPU, QueueTyped
<1>2. pfair[t] \in [cur : Nat, release : Nat, last_quantum : Nat,
                    last_cpu : CPU, sporadic_release : BOOLEAN]
  BY <1>1 DEF Params
<1>3. /\ pfair'[t] = [pfair[t] EXCEPT !.release = r, !.cur = 0, !.sporadic_release = FALSE]
      /\ \A u \in Task \ {t} : pfair'[u] = pfair[u]
      /\ pfair' \in [Task -> [cur : Nat, release : Nat, last_quantum : Nat,
                              last_cpu : CPU, sporadic_release : BOOLEAN]]
  BY <1>1, <1>2 DEF prepare_release, Params
<1>4. pfair'[t].cur = 0 /\ pfair'[t].release = r /\ ~pfair'[t].sporadic_release
  BY <1>2, <1>3
<1>5. setup \in Setups
  BY DEF IInv, TypeOK
<1>6. ASSUME NEW u \in Task PROVE pfair'[u].cur \in 0 .. Quanta(u)' - 1
  <2>1. Quanta(u)' = Quanta(u) /\ Quanta(u) \in 1 .. PFAIR_MAX_PERIOD
    BY <1>5, PrimedRelease, Weights
  <2>2. CASE u = t
    <3>1. 0 \in 0 .. Quanta(u) - 1
      BY <2>1, ConstantsAssumption
    <3> QED BY <1>4, <2>1, <2>2, <3>1
  <2>3. CASE u # t
    BY <1>1, <1>3, <2>1, <2>3 DEF QueueTypes
  <2> QED BY <2>2, <2>3
<1> QED BY <1>1, <1>3, <1>4, <1>6 DEF Params

\* check_preempt() interrupts processors.
LEMMA PreemptCheck ==
  ASSUME SupportedUse, IInv, NEW lo \in CPU \cup {NO_CPU}, NEW so \in CPU \cup {NO_CPU},
         NEW e \in CPU, NEW k, NEW fl, check_preempt(lo, so, e, k, fl)
  PROVE  ipi' \subseteq CPU
BY StackTyped DEF check_preempt, StackTypes

\* What a step does that wakes t up, or leaves the queues alone.
WokenUp ==
  /\ Wheel' /\ Params' /\ QueueTypes' /\ panic' = FALSE
  /\ flags' \in [Task -> {"RUNNING", "SLEEP"}] /\ ipi' \subseteq CPU

\* pfair_task_wake_up(): a task that waits for a sporadic release is nowhere,
\* and gets a release time that is within a turn of the wheel.
LEMMA WakingUp ==
  ASSUME SupportedUse, IInv, InTime, NEW t \in rt, NEW e \in CPU,
         task_wake_up(t, e, now + 1), UNCHANGED <<setup, rt, merge_time, ready, linkVars, local>>
  PROVE  WokenUp
<1>1. CPU' = CPU /\ QueueTypes /\ Params /\ StackTypes
  BY SameCPU, QueueTyped, StackTyped
<1>2. t \in Task /\ linked_on[t] \in CPU \cup {NO_CPU} /\ scheduled_on[t] \in CPU \cup {NO_CPU}
  BY <1>1 DEF QueueTypes, StackTypes
<1>3. ipi' \subseteq CPU
  BY <1>2, PreemptCheck DEF task_wake_up
<1>4. flags' \in [Task -> {"RUNNING", "SLEEP"}]
  BY <1>1 DEF task_wake_up, StackTypes
<1>5. panic = FALSE
  BY DEF IInv, TypeOK
<1>6. CASE ~pfair[t].sporadic_release
  <2>1. UNCHANGED <<pfair, relq, panic>>
    BY <1>6 DEF task_wake_up
  <2>2. Wheel' /\ Params'
    BY <2>1, WheelKept
  <2>3. QueueTypes'
    BY <1>1, <2>1, PrimedRelease DEF QueueTypes
  <2> QED BY <1>3, <1>4, <1>5, <2>1, <2>2, <2>3 DEF WokenUp
<1>7. CASE pfair[t].sporadic_release
  <2>1. PICK r \in Nat : r = now + 1
    BY <1>1 DEF StackTypes
  <2>2. /\ pfair' = prepare_release(t, r)
        /\ relq' = [relq EXCEPT ![Slot(r)] = @ \cup {t}]
        /\ panic' = (panic \/ in_heap(t))
    BY <1>7, <2>1 DEF task_wake_up, BugOn
  <2>3. t \notin ready /\ ~Waiting(t) /\ ~Linked(t)
    BY <1>2, <1>7, QueueTyped DEF WheelAt, InPlace
  <2>4. panic' = FALSE
    BY <1>5, <2>2, <2>3 DEF in_heap, Waiting
  <2>5. /\ pfair'[t].cur = 0 /\ pfair'[t].release = r /\ ~pfair'[t].sporadic_release
        /\ \A u \in Task \ {t} : pfair'[u] = pfair[u]
        /\ (\A u \in Task : pfair[u].cur \in 0 .. Quanta(u) - 1)'
        /\ Params'
    BY <1>2, <2>2, Prepared
  <2>6. Slot(r) \in 0 .. PFAIR_MAX_PERIOD - 1
    BY SlotType
  <2>7. relq' \in [0 .. PFAIR_MAX_PERIOD - 1 -> SUBSET Task]
    BY <1>1, <1>2, <2>2, <2>6 DEF QueueTypes
  <2>8. \A s \in 0 .. PFAIR_MAX_PERIOD - 1 : relq'[s] = IF s = Slot(r) THEN relq[s] \cup {t} ELSE relq[s]
    BY <1>1, <2>2 DEF QueueTypes
  <2>9. WheelAt(t)'
    <3>1. merge_time < r /\ r <= merge_time + PFAIR_MAX_PERIOD
      <4>1. merge_time \in Nat /\ now \in Nat /\ merge_time <= pfair_time /\ pfair_time <= now
            /\ pfair_time \in Nat
        BY DEF IInv, TypeOK, Turns
      <4> QED BY <2>1, <4>1, ConstantsAssumption DEF InTime
    <3>2. \A s \in 0 .. PFAIR_MAX_PERIOD - 1 : t \in relq'[s] <=> s = Slot(r)
      BY <1>1, <2>3, <2>8 DEF Waiting, QueueTypes
    <3>3. \A c \in CPU : linked'[c] # t
      BY <2>3 DEF Linked
    <3>4. t \in rt' /\ t \notin ready' /\ DOMAIN relq' = 0 .. PFAIR_MAX_PERIOD - 1
      BY <2>3, <2>7
    <3> QED BY <1>2, <2>5, <3>1, <3>2, <3>3, <3>4, Arrival
  <2>10. ASSUME NEW u \in Task \ {t} PROVE WheelAt(u)'
    <3>1. DOMAIN relq' = DOMAIN relq /\ \A s \in DOMAIN relq : u \in relq'[s] <=> u \in relq[s]
      BY <1>1, <2>7, <2>8 DEF QueueTypes
    <3> QED BY <2>5, <3>1, Unmoved
  <2>11. Wheel'
    BY <1>1, <2>9, <2>10 DEF Wheel, WheelAt
  <2>12. QueueTypes'
    BY <1>1, <2>5, <2>7 DEF QueueTypes
  <2> QED BY <1>3, <1>4, <2>4, <2>5, <2>11, <2>12 DEF WokenUp
<1> QED BY <1>6, <1>7

LEMMA WakeStep ==
  ASSUME SupportedUse, IInv, InTime, NEW t \in Task, NEW e \in CPU, wake(t, e)
  PROVE  IInv'
<1>1. CPU' = CPU /\ StackTypes /\ t \in rt
  BY SameCPU, StackTyped DEF wake
<1>2. Ceil(now) = {now + 1}
  BY DEF Ceil, SupportedUse, IInv, TypeOK
<1>3. WokenUp
  BY <1>1, <1>2, WakingUp DEF wake
<1>4. TypeOK' /\ ~panic'
  <2>1. StackTypes'
    BY <1>1, <1>3 DEF wake, StackTypes, WokenUp
  <2> QED BY <1>3, <2>1, AllTypes DEF wake, WokenUp
<1>5. \A S : SamePhase(S)
  BY DEF SamePhase, wake
<1>6. Turns'
  <2>1. \A d \in CPU : cur'[d] <= now
    BY DEF IInv, Turns, wake
  <2> QED BY <1>5, <2>1, TurnsKept DEF wake
<1>7. Releasing'
  <2>1. UNCHANGED <<setup, sync, start, now, rt, phase>> /\ running' = running \cup {t}
        /\ sync[t] # "wait"
    BY DEF wake
  <2> QED BY <1>1, <2>1 DEF IInv, Releasing
<1>8. Stacks'
  <2>1. /\ UNCHANGED <<rt, scheduled_on, curr, task_cpu, stack_in_use, next, phase>>
        /\ running' = running \cup {t} /\ present' = present \cup {t}
    BY DEF wake
  <2>2. Stacks
    BY DEF IInv
  <2>3. \A d \in CPU : Execution(d)' /\ (Switching(d)' <=> Switching(d))
    BY <2>1, <2>2 DEF Stacks, Execution, Switching
  <2>4. (present \subseteq rt \cap running /\ Task \ rt \subseteq running)'
    BY <1>1, <2>1, <2>2 DEF Stacks
  <2> QED BY <1>1, <2>1, <2>2, <2>3, <2>4 DEF Stacks
<1> QED BY <1>3, <1>4, <1>6, <1>7, <1>8 DEF IInv, WokenUp

\* A task that is not real-time executes nowhere and has not been picked.
LEMMA NotReal ==
  ASSUME SupportedUse, IInv, NEW t \in Task \ rt
  PROVE  /\ \A d \in CPU : curr[d] # t /\ next[d] # t /\ scheduled_on[t] # d
         /\ stack_in_use[t] = NO_CPU /\ t \in running
<1>1. StackTypes /\ NULL \notin Task /\ Stacks
  BY StackTyped DEF IInv
<1>2. \A d \in CPU : curr[d] # t /\ next[d] # t
  BY <1>1 DEF Stacks, Execution
<1>3. \A d \in CPU : scheduled_on[t] # d
  BY <1>1, <1>2 DEF Stacks
<1>4. stack_in_use[t] = NO_CPU
  BY <1>1, <1>2 DEF Stacks, StackTypes
<1> QED BY <1>1, <1>2, <1>3, <1>4 DEF Stacks

LEMMA TaskNewStep ==
  ASSUME SupportedUse, IInv, InTime, NEW t \in Task, NEW e \in CPU, task_new(t, e)
  PROVE  IInv'
<1>1. /\ CPU' = CPU /\ StackTypes /\ QueueTypes /\ 0 \in CPU /\ NULL \notin Task
      /\ NO_CPU \notin CPU
  BY SameCPU, StackTyped, QueueTyped DEF task_new
<1>2. t \notin rt /\ rt' = rt \cup {t}
  BY DEF task_new
<1>3. PICK r \in Nat : r = pfair_time + 1
  BY DEF IInv, TypeOK
<1>4. /\ pfair' = prepare_release(t, r)
      /\ relq' = [relq EXCEPT ![Slot(r)] = @ \cup {t}]
      /\ panic' = (panic \/ in_heap(t))
  BY <1>3 DEF task_new, BugOn
<1>5. t \notin ready /\ ~Waiting(t) /\ ~Linked(t)
  BY <1>2, QueueTyped DEF WheelAt
<1>6. panic' = FALSE
  BY <1>4, <1>5 DEF in_heap, Waiting, IInv, TypeOK
<1>7. /\ pfair'[t].cur = 0 /\ pfair'[t].release = r /\ ~pfair'[t].sporadic_release
      /\ \A u \in Task \ {t} : pfair'[u] = pfair[u]
      /\ (\A u \in Task : pfair[u].cur \in 0 .. Quanta(u) - 1)'
      /\ Params'
  BY <1>4, Prepared DEF task_new
<1>8. Slot(r) \in 0 .. PFAIR_MAX_PERIOD - 1
  BY SlotType
<1>9. relq' \in [0 .. PFAIR_MAX_PERIOD - 1 -> SUBSET Task]
  BY <1>1, <1>4, <1>8 DEF QueueTypes
<1>10. \A s \in 0 .. PFAIR_MAX_PERIOD - 1 :
         relq'[s] = IF s = Slot(r) THEN relq[s] \cup {t} ELSE relq[s]
  BY <1>1, <1>4 DEF QueueTypes
<1>11. UNCHANGED <<setup, merge_time, ready, linkVars, local>>
  BY DEF task_new
<1>12. Wheel'
  <2>1. WheelAt(t)'
    <3>1. merge_time < r /\ r <= merge_time + PFAIR_MAX_PERIOD
      <4>1. merge_time \in Nat /\ now \in Nat /\ merge_time <= pfair_time /\ pfair_time <= now
            /\ pfair_time \in Nat
        BY DEF IInv, TypeOK, Turns
      <4> QED BY <1>3, <4>1, ConstantsAssumption DEF InTime
    <3>2. \A s \in 0 .. PFAIR_MAX_PERIOD - 1 : t \in relq'[s] <=> s = Slot(r)
      BY <1>1, <1>5, <1>10 DEF Waiting, QueueTypes
    <3>3. \A c \in CPU : linked'[c] # t
      BY <1>5, <1>11 DEF Linked
    <3>4. t \in rt' /\ t \notin ready' /\ DOMAIN relq' = 0 .. PFAIR_MAX_PERIOD - 1
      BY <1>2, <1>5, <1>9, <1>11
    <3> QED BY <1>7, <1>11, <3>1, <3>2, <3>3, <3>4, Arrival
  <2>2. ASSUME NEW u \in Task \ {t} PROVE WheelAt(u)'
    <3>1. DOMAIN relq' = DOMAIN relq /\ \A s \in DOMAIN relq : u \in relq'[s] <=> u \in relq[s]
      BY <1>1, <1>9, <1>10 DEF QueueTypes
    <3> QED BY <1>2, <1>7, <1>11, <3>1, Unmoved
  <2> QED BY <1>1, <2>1, <2>2 DEF Wheel, WheelAt
<1>13. QueueTypes'
  BY <1>1, <1>7, <1>9, <1>11 DEF QueueTypes
<1>14. \A S : SamePhase(S)
  BY DEF SamePhase, task_new
<1>15. Turns'
  <2>1. \A d \in CPU : cur'[d] <= now
    BY DEF IInv, Turns, task_new
  <2> QED BY <1>14, <2>1, TurnsKept DEF task_new
<1>16. Releasing'
  <2>1. UNCHANGED <<setup, sync, start, now, running, phase>>
    BY DEF task_new
  <2> QED BY <1>1, <1>2, <2>1 DEF IInv, Releasing
<1>17. UNCHANGED <<running, next, phase, flags, sync, start, now, was_running>>
  BY DEF task_new
<1>18. Stacks
  BY DEF IInv
<1>19. /\ \A d \in CPU : curr[d] # t /\ next[d] # t /\ scheduled_on[t] # d
       /\ stack_in_use[t] = NO_CPU /\ t \in running
  BY <1>2, NotReal
<1>20. StackTypes' /\ Stacks'
  <2>1. CASE /\ curr[e] = NULL
             /\ present' = present \cup {t}
             /\ scheduled_on' = [scheduled_on EXCEPT ![t] = e]
             /\ curr' = [curr EXCEPT ![e] = t]
             /\ task_cpu' = [task_cpu EXCEPT ![t] = e]
             /\ stack_in_use' = [stack_in_use EXCEPT ![t] = e]
             /\ ipi' \subseteq CPU
    <3>1. StackTypes'
      BY <1>1, <1>2, <1>17, <2>1 DEF StackTypes
    <3>2. \A d \in CPU : Switching(d)' <=> Switching(d)
      BY <1>17 DEF Switching
    <3>3. ~Switching(e) /\ phase[e] = "run"
      BY DEF task_new, Open, Switching
    <3>4. \A d \in CPU : Execution(d)
      BY <1>18 DEF Stacks
    <3>5. Execution(e)'
      <4>1. curr'[e] = t /\ task_cpu'[t] = e /\ next'[e] = NULL
        BY <1>1, <1>17, <2>1, <3>3, <3>4 DEF StackTypes, Execution
      <4> QED BY <1>1, <1>2, <1>17, <1>19, <3>3, <4>1 DEF Execution
    <3>6. ASSUME NEW d \in CPU \ {e} PROVE Execution(d)'
      <4>1. curr'[d] = curr[d]
        BY <1>1, <2>1 DEF StackTypes
      <4>2. \A u \in Task \ {t} : task_cpu'[u] = task_cpu[u] /\ stack_in_use'[u] = stack_in_use[u]
        BY <1>1, <2>1 DEF StackTypes
      <4>3. curr[d] \in (Task \ {t}) \cup {NULL} /\ next[d] \in (Task \ {t}) \cup {NULL}
        BY <1>1, <1>19 DEF StackTypes
      <4>4. Execution(d)
        BY <3>4
      <4> QED BY <1>2, <1>17, <3>2, <4>1, <4>2, <4>3, <4>4 DEF Execution
    <3>7. ASSUME NEW u \in Task, NEW d \in CPU
          PROVE /\ (stack_in_use[u] = d <=> curr[d] = u)'
                /\ (scheduled_on[u] = d <=> (IF Switching(d) THEN next[d] = u ELSE curr[d] = u))'
      <4>1. /\ stack_in_use[u] = d <=> curr[d] = u
            /\ scheduled_on[u] = d <=> (IF Switching(d) THEN next[d] = u ELSE curr[d] = u)
        BY <1>18 DEF Stacks
      <4>2. /\ stack_in_use'[u] = IF u = t THEN e ELSE stack_in_use[u]
            /\ scheduled_on'[u] = IF u = t THEN e ELSE scheduled_on[u]
            /\ curr'[d] = IF d = e THEN t ELSE curr[d]
        BY <1>1, <2>1 DEF StackTypes
      <4>3. curr[e] = NULL
        BY <2>1
      <4> QED BY <1>1, <1>17, <1>19, <3>2, <3>3, <4>1, <4>2, <4>3
    <3>8. (present \subseteq rt \cap running /\ Task \ rt \subseteq running)'
      BY <1>2, <1>17, <1>18, <1>19, <2>1 DEF Stacks
    <3> QED BY <1>1, <3>1, <3>5, <3>6, <3>7, <3>8 DEF Stacks
  <2>2. CASE UNCHANGED <<present, scheduled_on, switchVars, sigVars>>
    <3>1. StackTypes'
      BY <1>1, <1>2, <1>17, <2>2 DEF StackTypes
    <3>2. \A d \in CPU : Execution(d)' /\ (Switching(d)' <=> Switching(d))
      BY <1>2, <1>17, <1>18, <2>2 DEF Stacks, Execution, Switching
    <3>3. (present \subseteq rt \cap running /\ Task \ rt \subseteq running)'
      BY <1>2, <1>17, <1>18, <2>2 DEF Stacks
    <3> QED BY <1>1, <1>17, <1>18, <2>2, <3>1, <3>2, <3>3 DEF Stacks
  <2>3. ASSUME NEW k, NEW fl, check_preempt(0, e, e, k, fl) PROVE ipi' \subseteq CPU
    BY <1>1, <2>3, PreemptCheck
  <2> QED BY <2>1, <2>2, <2>3 DEF task_new
<1>21. TypeOK' /\ ~panic'
  BY <1>6, <1>13, <1>20, AllTypes DEF task_new
<1> QED BY <1>7, <1>12, <1>15, <1>16, <1>20, <1>21 DEF IInv

\* A task that leaves executes on e, or nowhere, and no processor has picked it.
LEMMA Leaving ==
  ASSUME SupportedUse, IInv, NEW t \in Task, NEW e \in CPU, task_exit(t, e)
  PROVE  /\ \A d \in CPU : next[d] # t
         /\ \A d \in CPU \ {e} : curr[d] # t
         /\ sync[t] # "wait"
<1>1. StackTypes /\ NULL \notin Task /\ NO_CPU \notin CPU
  BY StackTyped
<1>2. Stacks /\ Releasing
  BY DEF IInv
<1>3. \A d \in CPU : next[d] # NULL => next[d] \in running /\ Switching(d)
  BY <1>2 DEF Stacks, Execution
<1>4. CASE curr[e] = t
  <2>1. ~Switching(e) /\ phase[e] = "run"
    BY DEF task_exit, Open, Switching
  <2>2. scheduled_on[t] = e /\ stack_in_use[t] = e
    BY <1>2, <1>4, <2>1 DEF Stacks
  <2>3. \A d \in CPU : next[d] # t
    BY <1>1, <1>2, <1>3, <2>1, <2>2 DEF Stacks
  <2>4. \A d \in CPU \ {e} : curr[d] # t
    BY <1>2, <2>2 DEF Stacks
  <2>5. t \in running
    BY <1>1, <1>2, <1>4, <2>1 DEF Stacks, Execution
  <2> QED BY <1>2, <2>3, <2>4, <2>5 DEF Releasing
<1>5. CASE t \notin running /\ stack_in_use[t] = NO_CPU /\ sync[t] # "wait"
  <2>1. \A d \in CPU : curr[d] # t
    BY <1>1, <1>2, <1>5 DEF Stacks
  <2> QED BY <1>1, <1>3, <1>5, <2>1
<1> QED BY <1>4, <1>5 DEF task_exit

LEMMA TaskExitStep ==
  ASSUME SupportedUse, IInv, NEW t \in Task, NEW e \in CPU, task_exit(t, e)
  PROVE  IInv'
<1>1. /\ CPU' = CPU /\ StackTypes /\ QueueTypes /\ 0 \in CPU /\ NULL \notin Task
      /\ NO_CPU \notin CPU
  BY SameCPU, StackTyped, QueueTyped DEF task_exit
<1>2. t \in rt /\ rt' = rt \ {t}
  BY DEF task_exit
<1>3. /\ ready' = ready \ {t}
      /\ relq' \in [0 .. PFAIR_MAX_PERIOD - 1 -> SUBSET Task]
      /\ \A s \in 0 .. PFAIR_MAX_PERIOD - 1 : relq'[s] = relq[s] \ {t}
      /\ ~corrupts(t)
  BY <1>2, Dropping DEF task_exit
<1>4. panic' = FALSE
  BY <1>3 DEF task_exit, BugOn, IInv, TypeOK
<1>5. /\ linked' = [c \in CPU |-> IF linked[c] = t THEN NULL ELSE linked[c]]
      /\ local' = [c \in CPU |-> IF local[c] = t THEN NULL ELSE local[c]]
  BY DEF task_exit, without
<1>6. UNCHANGED <<setup, merge_time, pfair>> /\ linked_on' = [linked_on EXCEPT ![t] = 0]
  BY DEF task_exit
<1>7. Params'
  BY <1>1, <1>6, QueueTyped DEF Params
<1>8. QueueTypes'
  <2>1. linked' \in [CPU -> Task \cup {NULL}] /\ local' \in [CPU -> Task \cup {NULL}]
    BY <1>1, <1>5 DEF QueueTypes
  <2>2. linked_on' \in [Task -> CPU \cup {NO_CPU}]
    BY <1>1, <1>6 DEF QueueTypes
  <2>3. \A u \in Task : pfair'[u].cur \in 0 .. Quanta(u)' - 1
    BY <1>1, <1>6, PrimedRelease DEF QueueTypes
  <2> QED BY <1>1, <1>3, <2>1, <2>2, <2>3 DEF QueueTypes
<1>9. Wheel'
  <2>1. WheelAt(t)'
    <3>1. ~Linked(t)'
      BY <1>1, <1>5 DEF Linked
    <3>2. ~Waiting(t)'
      BY <1>3 DEF Waiting
    <3> QED BY <1>2, <1>3, <3>1, <3>2 DEF WheelAt
  <2>2. ASSUME NEW u \in Task \ {t} PROVE WheelAt(u)'
    <3>1. DOMAIN relq' = DOMAIN relq /\ \A s \in DOMAIN relq : u \in relq'[s] <=> u \in relq[s]
      BY <1>1, <1>3 DEF QueueTypes
    <3>2. \A c \in CPU : linked'[c] = u <=> linked[c] = u
      BY <1>1, <1>5
    <3>3. linked_on'[u] = linked_on[u]
      BY <1>1, <1>6 DEF QueueTypes
    <3> QED BY <1>2, <1>3, <1>6, <3>1, <3>2, <3>3, Unmoved
  <2> QED BY <1>1, <2>1, <2>2 DEF Wheel, WheelAt
<1>10. \A S : SamePhase(S)
  BY DEF SamePhase, task_exit
<1>11. Turns'
  <2>1. \A d \in CPU : cur'[d] <= now
    BY DEF IInv, Turns, task_exit
  <2> QED BY <1>10, <2>1, TurnsKept DEF task_exit
<1>12. /\ \A d \in CPU : next[d] # t
       /\ \A d \in CPU \ {e} : curr[d] # t
       /\ sync[t] # "wait"
  BY Leaving
<1>13. Releasing'
  <2>1. UNCHANGED <<setup, sync, start, now, phase>> /\ running' = running \cup {t}
    BY DEF task_exit
  <2> QED BY <1>1, <1>2, <1>12, <2>1 DEF IInv, Releasing
<1>14. /\ running' = running \cup {t} /\ present' = present \ {t}
       /\ flags' = [flags EXCEPT ![t] = "RUNNING"]
       /\ scheduled_on' = [scheduled_on EXCEPT ![t] = NO_CPU]
       /\ stack_in_use' = [stack_in_use EXCEPT ![t] = NO_CPU]
       /\ UNCHANGED <<task_cpu, next, phase, sync, start, now, was_running, ipi>>
       /\ phase[e] = "run"
  BY DEF task_exit, Open
<1>15. /\ curr' \in [CPU -> Task \cup {NULL}]
       /\ \A d \in CPU : curr'[d] = IF curr[d] = t THEN NULL ELSE curr[d]
  BY <1>1, <1>12 DEF task_exit, StackTypes
<1>16. StackTypes'
  BY <1>1, <1>2, <1>14, <1>15 DEF StackTypes
<1>17. Stacks'
  <2>1. Stacks
    BY DEF IInv
  <2>2. \A d \in CPU : Switching(d)' <=> Switching(d)
    BY <1>14 DEF Switching
  <2>3. ASSUME NEW d \in CPU PROVE Execution(d)'
    <3>1. Execution(d)
      BY <2>1 DEF Stacks
    <3>2. next[d] \in (Task \ {t}) \cup {NULL}
      BY <1>1, <1>12 DEF StackTypes
    <3>3. \A u \in Task \ {t} : stack_in_use'[u] = stack_in_use[u]
      BY <1>1, <1>14 DEF StackTypes
    <3> QED BY <1>1, <1>2, <1>14, <1>15, <2>2, <3>1, <3>2, <3>3 DEF Execution
  <2>4. ASSUME NEW u \in Task, NEW d \in CPU
        PROVE /\ (stack_in_use[u] = d <=> curr[d] = u)'
              /\ (scheduled_on[u] = d <=> (IF Switching(d) THEN next[d] = u ELSE curr[d] = u))'
    <3>1. /\ stack_in_use[u] = d <=> curr[d] = u
          /\ scheduled_on[u] = d <=> (IF Switching(d) THEN next[d] = u ELSE curr[d] = u)
      BY <2>1 DEF Stacks
    <3>2. /\ stack_in_use'[u] = IF u = t THEN NO_CPU ELSE stack_in_use[u]
          /\ scheduled_on'[u] = IF u = t THEN NO_CPU ELSE scheduled_on[u]
      BY <1>1, <1>14 DEF StackTypes
    <3> QED BY <1>1, <1>12, <1>14, <1>15, <2>2, <3>1, <3>2
  <2>5. (present \subseteq rt \cap running /\ Task \ rt \subseteq running)'
    BY <1>2, <1>14, <2>1 DEF Stacks
  <2> QED BY <1>1, <2>3, <2>4, <2>5 DEF Stacks
<1>18. TypeOK' /\ ~panic'
  BY <1>4, <1>8, <1>16, AllTypes DEF task_exit
<1> QED BY <1>7, <1>9, <1>11, <1>13, <1>17, <1>18 DEF IInv

LEMMA ReleaseAtStep ==
  ASSUME SupportedUse, IInv, InTime, NEW t \in Task, NEW e \in CPU, release_at(t, e)
  PROVE  IInv'
<1>1. /\ CPU' = CPU /\ StackTypes /\ QueueTypes /\ NULL \notin Task
  BY SameCPU, StackTyped, QueueTyped DEF release_at
<1>2. t \in rt /\ t \in setup.synched
  BY DEF release_at, IInv, Releasing
<1>3. start = now + 1
  <2>1. ~setup.lag
    BY <1>2 DEF SupportedUse, IInv, TypeOK
  <2> QED BY <2>1 DEF release_at, IInv, Releasing
<1>4. {now, pfair_time, merge_time} \subseteq Nat /\ merge_time <= pfair_time /\ pfair_time <= now
  BY DEF IInv, TypeOK, Turns
<1>5. PICK r \in Nat : r = start /\ merge_time < r /\ r <= merge_time + PFAIR_MAX_PERIOD
  BY <1>3, <1>4, ConstantsAssumption DEF InTime
<1>6. (IF start < pfair_time \/ start - pfair_time >= PFAIR_MAX_PERIOD
       THEN pfair_time + PFAIR_MAX_PERIOD ELSE start) = r
  BY <1>3, <1>4, <1>5, ConstantsAssumption DEF InTime
<1>7. /\ ready' = dropped_heap(t)[1]
      /\ relq' = [dropped_heap(t)[2] EXCEPT ![Slot(r)] = @ \cup {t}]
      /\ pfair' = prepare_release(t, r)
  BY <1>6 DEF release_at
<1>8. /\ ~corrupts(t)
      /\ dropped_heap(t)[1] = ready \ {t}
      /\ dropped_heap(t)[2] \in [0 .. PFAIR_MAX_PERIOD - 1 -> SUBSET Task]
      /\ \A s \in 0 .. PFAIR_MAX_PERIOD - 1 : dropped_heap(t)[2][s] = relq[s] \ {t}
  BY <1>2, Dropping
<1>9. panic' = FALSE
  BY <1>8 DEF release_at, BugOn, IInv, TypeOK
<1>10. Slot(r) \in 0 .. PFAIR_MAX_PERIOD - 1
  BY SlotType
<1>11. /\ relq' \in [0 .. PFAIR_MAX_PERIOD - 1 -> SUBSET Task]
       /\ \A s \in 0 .. PFAIR_MAX_PERIOD - 1 :
            relq'[s] = IF s = Slot(r) THEN (relq[s] \ {t}) \cup {t} ELSE relq[s] \ {t}
  BY <1>7, <1>8, <1>10
<1>12. /\ linked' = [c \in CPU |-> IF linked[c] = t THEN NULL ELSE linked[c]]
       /\ local' = [c \in CPU |-> IF local[c] = t THEN NULL ELSE local[c]]
  BY DEF release_at, without
<1>13. UNCHANGED <<setup, merge_time, linked_on, rt, running>>
  BY DEF release_at
<1>14. /\ pfair'[t].cur = 0 /\ pfair'[t].release = r /\ ~pfair'[t].sporadic_release
       /\ \A u \in Task \ {t} : pfair'[u] = pfair[u]
       /\ (\A u \in Task : pfair[u].cur \in 0 .. Quanta(u) - 1)'
       /\ Params'
  BY <1>7, <1>13, Prepared
<1>15. QueueTypes'
  <2>1. linked' \in [CPU -> Task \cup {NULL}] /\ local' \in [CPU -> Task \cup {NULL}]
    BY <1>1, <1>12 DEF QueueTypes
  <2> QED BY <1>1, <1>7, <1>8, <1>11, <1>13, <1>14, <2>1 DEF QueueTypes
<1>16. Wheel'
  <2>1. WheelAt(t)'
    <3>1. \A s \in 0 .. PFAIR_MAX_PERIOD - 1 : t \in relq'[s] <=> s = Slot(r)
      BY <1>11
    <3>2. \A c \in CPU : linked'[c] # t
      BY <1>1, <1>12
    <3>3. t \in rt' /\ t \notin ready' /\ DOMAIN relq' = 0 .. PFAIR_MAX_PERIOD - 1
      BY <1>2, <1>7, <1>8, <1>11, <1>13
    <3> QED BY <1>5, <1>13, <1>14, <3>1, <3>2, <3>3, Arrival
  <2>2. ASSUME NEW u \in Task \ {t} PROVE WheelAt(u)'
    <3>1. DOMAIN relq' = DOMAIN relq /\ \A s \in DOMAIN relq : u \in relq'[s] <=> u \in relq[s]
      BY <1>1, <1>11 DEF QueueTypes
    <3>2. \A c \in CPU : linked'[c] = u <=> linked[c] = u
      BY <1>1, <1>12
    <3>3. u \in ready' <=> u \in ready
      BY <1>7, <1>8
    <3> QED BY <1>13, <1>14, <3>1, <3>2, <3>3, Unmoved
  <2> QED BY <1>1, <2>1, <2>2 DEF Wheel, WheelAt
<1>17. \A S : SamePhase(S)
  BY DEF SamePhase, release_at
<1>18. Turns'
  <2>1. \A d \in CPU : cur'[d] <= now
    BY DEF IInv, Turns, release_at
  <2> QED BY <1>17, <2>1, TurnsKept DEF release_at
<1>19. Releasing'
  <2>1. UNCHANGED <<setup, start, now, phase>>
    BY DEF release_at
  <2>2. \A u \in Task : sync'[u] = "wait" => sync[u] = "wait"
    BY <1>1 DEF release_at, StackTypes
  <2> QED BY <1>1, <1>13, <2>1, <2>2 DEF IInv, Releasing
<1>20. Stacks'
  BY <1>17, StacksKept DEF release_at
<1>21. TypeOK' /\ ~panic'
  <2>1. StackTypes'
    BY <1>1 DEF release_at, StackTypes
  <2> QED BY <1>9, <1>15, <2>1, AllTypes DEF release_at
<1> QED BY <1>14, <1>16, <1>18, <1>19, <1>20, <1>21 DEF IInv

LEMMA MigrateStep ==
  ASSUME SupportedUse, IInv, InTime, NEW c \in CPU, migrate(c)
  PROVE  IInv'
<1>1. CPU' = CPU /\ StackTypes /\ QueueTypes /\ NULL \notin Task /\ NO_CPU \notin CPU
  BY SameCPU, StackTyped, QueueTyped DEF migrate
<1>2. UNCHANGED <<setup, now, clockVars, taskVars, syncVars, ready, linkVars,
                  local, scheduled_on, curr, stack_in_use, tickVars, was_running>>
  BY DEF migrate
<1>3. WokenUp
  <2>1. CASE curr[c] \in rt /\ \E r \in Ceil(now) : task_wake_up(curr[c], c, r)
    <3>1. Ceil(now) = {now + 1}
      BY DEF Ceil, SupportedUse, IInv, TypeOK
    <3>2. task_wake_up(curr[c], c, now + 1)
      BY <2>1, <3>1
    <3> QED BY <1>2, <2>1, <3>2, WakingUp
  <2>2. CASE UNCHANGED <<jobVars, relq, sigVars, panic>>
    <3>1. Wheel' /\ Params'
      BY <1>2, <2>2, WheelKept
    <3>2. QueueTypes'
      BY <1>1, <1>2, <2>2, PrimedRelease DEF QueueTypes
    <3>3. panic' = FALSE
      BY <2>2 DEF IInv, TypeOK
    <3> QED BY <1>1, <2>2, <3>1, <3>2, <3>3 DEF WokenUp, StackTypes
  <2> QED BY <2>1, <2>2 DEF migrate
<1>4. Stacks
  BY DEF IInv
<1>5. PICK n \in Task : n = next[c] /\ n \in rt \cap running
  BY <1>1, <1>4 DEF migrate, Stacks, Execution, StackTypes
<1>6. /\ phase[c] = "wait" /\ stack_in_use[n] = NO_CPU
      /\ task_cpu' = [task_cpu EXCEPT ![n] = c]
      /\ next' = next
      /\ phase' = [phase EXCEPT ![c] = "switch"]
  BY <1>1, <1>5 DEF migrate, StackTypes
<1>7. TypeOK' /\ ~panic'
  <2>1. StackTypes'
    BY <1>1, <1>2, <1>3, <1>6 DEF StackTypes, WokenUp, Phases
  <2> QED BY <1>2, <1>3, <2>1, AllTypes DEF WokenUp
<1>8. phase'[c] = "switch" /\ \A d \in CPU \ {c} : phase'[d] = phase[d]
  BY <1>1, <1>6 DEF StackTypes
<1>9. \A S : S \cap {"wait", "switch"} = {} => SamePhase(S)
  BY <1>6, <1>8 DEF SamePhase
<1>10. Turns'
  <2>1. \A d \in CPU : cur'[d] <= now
    BY <1>2 DEF IInv, Turns
  <2> QED BY <1>2, <1>9, <2>1, TurnsKept
<1>11. Releasing'
  BY <1>2, <1>9, ReleasingKept
<1>12. Stacks'
  <2>1. \A d \in CPU : Switching(d)' <=> Switching(d)
    BY <1>6, <1>8 DEF Switching
  <2>2. Switching(c) /\ scheduled_on[n] = c
    BY <1>4, <1>5, <1>6 DEF Stacks, Switching
  <2>3. \A u \in Task \ {n} : task_cpu'[u] = task_cpu[u]
    BY <1>1, <1>6 DEF StackTypes
  <2>4. \A d \in CPU : curr[d] # n
    BY <1>1, <1>4, <1>6 DEF Stacks
  <2>5. Execution(c)'
    <3>1. Execution(c) /\ task_cpu'[n] = c
      BY <1>1, <1>4, <1>6 DEF Stacks, StackTypes
    <3>2. curr[c] # NULL => task_cpu'[curr[c]] = task_cpu[curr[c]]
      BY <1>1, <2>3, <2>4 DEF StackTypes
    <3> QED BY <1>2, <1>5, <1>6, <1>8, <2>1, <2>2, <3>1, <3>2 DEF Execution
  <2>6. ASSUME NEW d \in CPU \ {c} PROVE Execution(d)'
    <3>1. Execution(d)
      BY <1>4 DEF Stacks
    <3>2. next[d] # n
      BY <1>1, <1>4, <2>2, <3>1 DEF Stacks, Execution
    <3>3. /\ curr[d] # NULL => task_cpu'[curr[d]] = task_cpu[curr[d]]
          /\ next[d] # NULL => task_cpu'[next[d]] = task_cpu[next[d]]
      BY <1>1, <2>3, <2>4, <3>2 DEF StackTypes
    <3> QED BY <1>2, <1>6, <1>8, <2>1, <3>1, <3>3 DEF Execution
  <2> QED BY <1>1, <1>2, <1>4, <1>6, <2>1, <2>5, <2>6 DEF Stacks
<1> QED BY <1>3, <1>7, <1>10, <1>11, <1>12 DEF IInv, WokenUp

-----------------------------------------------------------------------------
(* schedule_next_quantum()                                                 *)

LEMMA TypesTogether ==
  ASSUME IInv, setup' = setup, TickTypes', StackTypes', QueueTypes', panic' = FALSE
  PROVE  TypeOK' /\ ~panic'
<1>1. (setup \in Setups)' /\ ({now, pfair_time, merge_time, cur_tick, start} \subseteq Nat)'
  BY DEF IInv, TypeOK, TickTypes, StackTypes
<1>2. panic' \in BOOLEAN
  OBVIOUS
<1> QED BY <1>1, <1>2 DEF TypeOK, TickTypes, StackTypes, QueueTypes, Phases

\* A link takes t from the ready queue to its target; the task that was linked
\* there takes the place of the one on this processor, which returns to the
\* ready queue, or returns itself.
LEMMA LinkStep ==
  ASSUME SupportedUse, IInv, NEW c \in CPU, schedule_subtasks(c), NEW t,
         t = peek_ready, pfair_higher_prio(t, linked[at]),
         pfair_link(quantum[c], at, t)
  PROVE  Wheel' /\ QueueTypes' /\ at' \in 0 .. setup.cpus
<1>1. /\ CPU' = CPU /\ QueueTypes /\ StackTypes /\ Params /\ TypeOK
      /\ NULL \notin Task /\ NO_CPU \notin CPU /\ CPU \subseteq Nat
  BY SameCPU, QueueTyped, StackTyped DEF schedule_subtasks
<1>2. ready \subseteq rt
  BY <1>1, QueueTyped DEF WheelAt, QueueTypes
<1>3. t \in ready
  <2>1. t # NULL
    BY DEF pfair_higher_prio
  <2> QED BY <1>1, <1>2, <2>1, PeekReady DEF peek_ready
<1>4. t \in Task /\ t \in rt
  BY <1>1, <1>2, <1>3 DEF QueueTypes
<1>5. PICK k \in CPU : k = at
  <2>1. setup.cpus \in Nat /\ at \in 0 .. setup.cpus /\ at < setup.cpus
    BY <1>1 DEF TypeOK, SupportedUse, Setup, schedule_subtasks
  <2> QED BY <2>1 DEF CPU
<1>6. PICK g \in CPU : g = target_cpu(quantum[c], t, at)
  <2>1. scheduled_on[t] # NO_CPU => scheduled_on[t] \in CPU
    BY <1>1, <1>4 DEF StackTypes
  <2>2. pfair[t].last_cpu \in CPU
    BY <1>1, <1>4 DEF Params
  <2>3. target_cpu(quantum[c], t, at) \in {scheduled_on[t], pfair[t].last_cpu, at}
        /\ (target_cpu(quantum[c], t, at) = scheduled_on[t] =>
              scheduled_on[t] # NO_CPU \/ scheduled_on[t] \in {pfair[t].last_cpu, at})
    BY DEF target_cpu
  <2> QED BY <1>5, <2>1, <2>2, <2>3
<1>7. PICK o \in Task \cup {NULL}, p \in Task \cup {NULL} : o = linked[g] /\ p = linked[k]
  BY <1>1 DEF QueueTypes
<1>8. PICK B : B = {IF g > k \/ o = NULL THEN o ELSE p} \ {NULL}
  OBVIOUS
<1>9. /\ linked' = [linked EXCEPT ![g] = t,
                                  ![k] = IF g = k THEN t
                                         ELSE IF g < k /\ o # NULL THEN o ELSE p]
      /\ linked_on' = [u \in Task |-> IF u = t THEN g
                                      ELSE IF u \in B THEN NO_CPU
                                      ELSE IF g < k /\ o # NULL /\ u = o THEN k
                                      ELSE linked_on[u]]
      /\ ready' = (ready \ {t}) \cup B
      /\ at' = IF g = k \/ (g < k /\ o # NULL) THEN k + 1 ELSE k
  BY <1>5, <1>6, <1>7, <1>8 DEF pfair_link, pushed_back
<1>10. UNCHANGED <<setup, merge_time, pfair, relq, rt, local>>
  BY DEF schedule_subtasks
<1>11. at' \in 0 .. setup.cpus
  <2>1. setup.cpus \in Nat
    BY <1>1 DEF TypeOK, SupportedUse, Setup
  <2>2. k \in Nat /\ k < setup.cpus
    BY <1>1, <1>5, <2>1 DEF CPU
  <2>3. at' = k + 1 \/ at' = k
    BY <1>9
  <2> QED BY <2>1, <2>2, <2>3
<1>12. \A d \in CPU : linked'[d] = IF d = g THEN t
                                   ELSE IF d = k /\ g < k /\ o # NULL THEN o ELSE linked[d]
  BY <1>1, <1>7, <1>9 DEF QueueTypes
<1>13. \A u \in Task : WheelAt(u) /\ (u \notin rt => ~Linked(u))
  BY QueueTyped DEF WheelAt
<1>14. \A d \in CPU, u \in Task : linked[d] = u => /\ u \in rt /\ linked_on[u] = d
                                                   /\ u \notin ready /\ ~Waiting(u)
                                                   /\ cur_release(u, pfair[u]) <= merge_time
                                                   /\ ~pfair[u].sporadic_release
  <2> SUFFICES ASSUME NEW d \in CPU, NEW u \in Task, linked[d] = u
               PROVE  /\ u \in rt /\ linked_on[u] = d
                      /\ u \notin ready /\ ~Waiting(u)
                      /\ cur_release(u, pfair[u]) <= merge_time
                      /\ ~pfair[u].sporadic_release
    OBVIOUS
  <2>1. Linked(u)
    BY DEF Linked
  <2>2. u \in rt /\ InPlace(u)
    BY <1>13, <2>1 DEF WheelAt
  <2> QED BY <2>1, <2>2 DEF InPlace, Waiting
<1>15. /\ cur_release(t, pfair[t]) <= merge_time /\ ~Waiting(t) /\ ~Linked(t)
       /\ ~pfair[t].sporadic_release
  BY <1>3, <1>4, <1>13 DEF WheelAt, InPlace
<1>16. QueueTypes'
  <2>1. linked' \in [CPU -> Task \cup {NULL}]
    BY <1>1, <1>4, <1>7, <1>9 DEF QueueTypes
  <2>2. linked_on' \in [Task -> CPU \cup {NO_CPU}]
    BY <1>1, <1>9 DEF QueueTypes
  <2>3. ready' \subseteq Task
    BY <1>1, <1>7, <1>8, <1>9 DEF QueueTypes
  <2> QED BY <1>1, <1>10, <2>1, <2>2, <2>3, PrimedRelease DEF QueueTypes
<1>17. \A u \in Task : /\ cur_release(u, pfair[u])' = cur_release(u, pfair[u])
                       /\ Waiting(u)' <=> Waiting(u)
  BY <1>10, PrimedRelease DEF Waiting
<1>18. WheelAt(t)'
  <2>1. t \notin B
    BY <1>7, <1>8, <1>15 DEF Linked
  <2>2. \A d \in CPU : linked'[d] = t <=> d = g
    BY <1>7, <1>12, <1>15 DEF Linked
  <2>3. linked_on'[t] = g /\ t \notin ready'
    BY <1>4, <1>9, <2>1
  <2>4. Linked(t)'
    BY <1>1, <2>2 DEF Linked
  <2>5. InPlace(t)'
    BY <1>1, <1>4, <1>10, <1>15, <1>17, <2>2, <2>3, <2>4 DEF InPlace, Waiting
  <2> QED BY <1>4, <1>10, <2>5 DEF WheelAt
<1>19. ASSUME NEW u \in Task, u \in B PROVE WheelAt(u)'
  <2>1. PICK d \in CPU : linked[d] = u /\ d = IF g > k \/ o = NULL THEN g ELSE k
    BY <1>7, <1>8, <1>19
  <2>2. \A h \in CPU : linked[h] = u => h = d
    BY <1>14, <2>1
  <2>3. u # t
    BY <1>15, <2>1 DEF Linked
  <2>4. \A h \in CPU : linked'[h] # u
    BY <1>1, <1>7, <1>8, <1>12, <1>19, <2>1, <2>2, <2>3
  <2>5. ~Linked(u)'
    BY <1>1, <2>4 DEF Linked
  <2>6. u \in ready' /\ u \in rt'
    BY <1>9, <1>10, <1>14, <1>19, <2>1
  <2>7. InPlace(u)'
    BY <1>1, <1>10, <1>14, <1>17, <2>1, <2>4, <2>5, <2>6 DEF InPlace, Waiting
  <2> QED BY <2>6, <2>7 DEF WheelAt
<1>20. ASSUME NEW u \in Task, u \notin B, u # t, g < k, u = o PROVE WheelAt(u)'
  <2>1. linked[g] = u /\ o # NULL /\ g # k
    BY <1>1, <1>7, <1>20
  <2>2. \A h \in CPU : linked[h] = u => h = g
    BY <1>14, <2>1
  <2>3. \A h \in CPU : linked'[h] = u <=> h = k
    BY <1>12, <1>20, <2>1, <2>2
  <2>4. Linked(u)'
    BY <1>1, <2>3 DEF Linked
  <2>5. linked_on'[u] = k /\ u \notin ready' /\ u \in rt'
    BY <1>9, <1>10, <1>14, <1>20, <2>1
  <2>6. InPlace(u)'
    BY <1>1, <1>10, <1>14, <1>17, <2>1, <2>3, <2>4, <2>5 DEF InPlace, Waiting
  <2> QED BY <2>5, <2>6 DEF WheelAt
<1>21. ASSUME NEW u \in Task, u \notin B, u # t, ~(g < k /\ u = o) PROVE WheelAt(u)'
  <2>1. \A h \in CPU : linked'[h] = u <=> linked[h] = u
    BY <1>1, <1>7, <1>8, <1>12, <1>21
  <2>2. linked_on'[u] = linked_on[u]
    BY <1>9, <1>21
  <2>3. u \in ready' <=> u \in ready
    BY <1>9, <1>21
  <2> QED BY <1>10, <2>1, <2>2, <2>3, Unmoved
<1>22. Wheel'
  BY <1>1, <1>18, <1>19, <1>20, <1>21 DEF Wheel, WheelAt
<1> QED BY <1>11, <1>16, <1>22

LEMMA ScheduleSubtasksStep ==
  ASSUME SupportedUse, IInv, NEW c \in CPU, schedule_subtasks(c)
  PROVE  IInv'
<1>1. CPU' = CPU /\ TickTypes /\ StackTypes /\ QueueTypes
  BY SameCPU, TickTyped, StackTyped, QueueTyped DEF schedule_subtasks
<1>2. UNCHANGED <<setup, now, clockVars, taskVars, jobVars, syncVars, relq, local,
                  scheduled_on, switchVars, phase, cur, quantum, catching,
                  loaded, pickVars, sigVars, panic>>
  BY DEF schedule_subtasks
<1>3. Wheel' /\ QueueTypes' /\ at' \in 0 .. setup.cpus
  <2>1. CASE \E t : /\ t = peek_ready /\ pfair_higher_prio(t, linked[at])
                    /\ pfair_link(quantum[c], at, t)
    BY <2>1, LinkStep
  <2>2. CASE at' = at + 1 /\ UNCHANGED <<linkVars, ready>>
    <3>1. Wheel'
      BY <1>2, <2>2, WheelKept
    <3>2. QueueTypes'
      BY <1>1, <1>2, <2>2, PrimedRelease DEF QueueTypes
    <3>3. setup.cpus \in Nat
      BY DEF IInv, TypeOK, SupportedUse, Setup
    <3> QED BY <1>1, <2>2, <3>1, <3>2, <3>3 DEF schedule_subtasks, TickTypes
  <2> QED BY <2>1, <2>2 DEF schedule_subtasks
<1>4. TypeOK' /\ ~panic'
  <2>1. TickTypes'
    BY <1>1, <1>2, <1>3 DEF TickTypes
  <2>2. StackTypes'
    BY <1>1, <1>2 DEF StackTypes
  <2>3. panic' = FALSE
    BY <1>2 DEF IInv, TypeOK
  <2> QED BY <1>2, <1>3, <2>1, <2>2, <2>3, TypesTogether
<1>5. \A S : SamePhase(S)
  BY <1>2 DEF SamePhase
<1>6. Turns'
  <2>1. \A d \in CPU : cur'[d] <= now
    BY <1>2 DEF IInv, Turns
  <2> QED BY <1>2, <1>5, <2>1, TurnsKept
<1>7. Releasing' /\ Stacks'
  BY <1>2, <1>5, ReleasingKept, StacksKept
<1>8. Params'
  BY <1>1, <1>2 DEF IInv, Params
<1> QED BY <1>3, <1>4, <1>6, <1>7, <1>8 DEF IInv

\* advance_subtask() of a linked task.
LEMMA Advancing ==
  ASSUME SupportedUse, IInv, NEW t \in Task, Linked(t), NEW d \in CPU, NEW time \in Nat,
         NEW b, b = advanced(time, t, d)
  PROVE  /\ b \in [cur : Nat, release : Nat, last_quantum : Nat,
                   last_cpu : CPU, sporadic_release : BOOLEAN]
         /\ b.cur \in 0 .. Quanta(t) - 1
         /\ cur_release(t, b) \in Nat
         /\ cur_release(t, b) <= merge_time + PFAIR_MAX_PERIOD
<1>1. Params /\ TypeOK /\ setup \in Setups /\ merge_time \in Nat
  BY DEF IInv, TypeOK
<1>2. /\ pfair[t].cur \in 0 .. Quanta(t) - 1 /\ pfair[t].release \in Nat
      /\ cur_release(t, pfair[t]) \in Nat
  BY <1>1, ParamType
<1>3. PICK e \in CPU : linked[e] = t
  BY DEF Linked
<1>4. cur_release(t, pfair[t]) <= merge_time
  <2>1. WheelAt(t)
    BY QueueTyped
  <2> QED BY <1>3, <2>1 DEF WheelAt, InPlace
<1>5. /\ b.cur = (pfair[t].cur + 1) % Quanta(t)
      /\ b.release = pfair[t].release
                     + (IF pfair[t].cur + 1 = Quanta(t) /\ t \in present THEN Period(t) ELSE 0)
      /\ b.last_quantum = time /\ b.last_cpu = d
      /\ b.sporadic_release = (pfair[t].sporadic_release
                               \/ (pfair[t].cur + 1 = Quanta(t) /\ t \notin present))
      /\ b = [cur |-> b.cur, release |-> b.release, last_quantum |-> time, last_cpu |-> d,
              sporadic_release |-> b.sporadic_release]
  BY DEF advanced
<1>6. /\ b.cur \in 0 .. Quanta(t) - 1 /\ b.release \in Nat
      /\ cur_release(t, b) <= cur_release(t, pfair[t]) + PFAIR_MAX_PERIOD
  BY <1>1, <1>2, <1>5, NextSubtask
<1>7. cur_release(t, b) \in Nat
  BY <1>1, <1>6, Release
<1>8. b.cur \in Nat /\ b.sporadic_release \in BOOLEAN
  BY <1>1, <1>5, <1>6, Weights, ConstantsAssumption
<1>9. b \in [cur : Nat, release : Nat, last_quantum : Nat,
             last_cpu : CPU, sporadic_release : BOOLEAN]
  BY <1>5, <1>6, <1>8
<1>10. cur_release(t, b) <= merge_time + PFAIR_MAX_PERIOD
  BY <1>1, <1>2, <1>4, <1>6, <1>7, ConstantsAssumption
<1> QED BY <1>6, <1>7, <1>9, <1>10

LEMMA AdvanceSubtasksStep ==
  ASSUME SupportedUse, IInv, NEW c \in CPU, advance_subtasks(c)
  PROVE  IInv'
<1>1. /\ CPU' = CPU /\ TickTypes /\ StackTypes /\ QueueTypes /\ Params
      /\ NULL \notin Task /\ Turns
  BY SameCPU, TickTyped, StackTyped, QueueTyped DEF advance_subtasks, IInv
<1>2. UNCHANGED <<setup, now, pfair_time, cur_tick, taskVars, syncVars, linked_on,
                  scheduled_on, switchVars, cur, quantum, catching, loaded,
                  pickVars, sigVars>>
  BY DEF advance_subtasks
<1>3. PICK time \in Nat : time = quantum[c]
  BY <1>1 DEF TickTypes
<1>4. /\ phase[c] = "turn" /\ ~Locked /\ merge_time' = time /\ at' = 0
      /\ phase' = [phase EXCEPT ![c] = "link"]
      /\ cur_tick >= time - 1
  BY <1>3 DEF advance_subtasks, wait_for_quantum
<1>5. cur_tick \in Nat /\ pfair_time \in Nat /\ merge_time \in Nat
  BY <1>1 DEF TickTypes
<1>6. time = cur_tick + 1 /\ merge_time = cur_tick /\ time <= pfair_time
  BY <1>1, <1>3, <1>4, <1>5 DEF Turns
<1>7. PICK L, G, R :
        /\ L = {linked[d] : d \in CPU} \ {NULL}
        /\ G = {t \in L : pfair'[t].sporadic_release}
        /\ R = {t \in L \ G : cur_release(t, pfair'[t]) > time}
  OBVIOUS
<1>8. \A t \in Task : t \in L <=> Linked(t)
  BY <1>1, <1>7 DEF Linked, QueueTypes
<1>9. L \subseteq Task
  BY <1>1, <1>7 DEF QueueTypes
<1>10. /\ linked' = without(linked, G \cup R) /\ local' = without(local, G)
       /\ ready' = ready \cup relq[Slot(time)]
                         \cup {t \in R : Slot(cur_release(t, pfair'[t])) = Slot(time)}
       /\ relq' = [s \in DOMAIN relq |->
                     IF s = Slot(time) THEN {}
                     ELSE relq[s] \cup {t \in R : Slot(cur_release(t, pfair'[t])) = s}]
       /\ panic' = (panic \/ \E t \in R : in_heap(t))
       /\ flags' = [t \in Task |-> IF t \in L \ G /\ pfair'[t].cur = 0
                                   THEN "RUNNING" ELSE flags[t]]
  BY <1>3, <1>7 DEF advance_subtasks, BugOn
<1>11. pfair' = [t \in Task |-> IF t \in L
                                THEN advanced(time, t, CHOOSE d \in CPU : linked[d] = t)
                                ELSE pfair[t]]
  BY <1>3, <1>7 DEF advance_subtasks
<1>12. ASSUME NEW t \in L
       PROVE  /\ pfair'[t] \in [cur : Nat, release : Nat, last_quantum : Nat,
                                last_cpu : CPU, sporadic_release : BOOLEAN]
              /\ pfair'[t].cur \in 0 .. Quanta(t) - 1
              /\ cur_release(t, pfair'[t]) \in Nat
              /\ cur_release(t, pfair'[t]) < time + PFAIR_MAX_PERIOD
  <2>1. t \in Task /\ Linked(t)
    BY <1>8, <1>9
  <2>2. PICK d \in CPU : d = CHOOSE e \in CPU : linked[e] = t
    BY <2>1 DEF Linked
  <2>3. PICK b : b = advanced(time, t, d) /\ pfair'[t] = b
    BY <1>11, <2>1, <2>2
  <2>4. /\ b \in [cur : Nat, release : Nat, last_quantum : Nat,
                  last_cpu : CPU, sporadic_release : BOOLEAN]
        /\ b.cur \in 0 .. Quanta(t) - 1
        /\ cur_release(t, b) \in Nat
        /\ cur_release(t, b) <= merge_time + PFAIR_MAX_PERIOD
    BY <2>1, <2>3, Advancing
  <2> QED BY <1>5, <1>6, <2>3, <2>4, ConstantsAssumption
<1>13. \A t \in Task \ L : pfair'[t] = pfair[t]
  BY <1>11
<1>14. Params'
  <2>1. \A t \in Task : pfair'[t] \in [cur : Nat, release : Nat, last_quantum : Nat,
                                       last_cpu : CPU, sporadic_release : BOOLEAN]
    BY <1>1, <1>12, <1>13 DEF Params
  <2>2. pfair' \in [Task -> [cur : Nat, release : Nat, last_quantum : Nat,
                             last_cpu : CPU, sporadic_release : BOOLEAN]]
    BY <1>11, <2>1
  <2> QED BY <1>1, <2>2 DEF Params
<1>15. Slot(time) \in 0 .. PFAIR_MAX_PERIOD - 1
  BY SlotType
<1>16. QueueTypes'
  <2>1. \A t \in Task : pfair'[t].cur \in 0 .. Quanta(t) - 1
    BY <1>1, <1>12, <1>13 DEF QueueTypes
  <2>2. \A t \in Task : Quanta(t)' = Quanta(t)
    BY <1>2, PrimedRelease
  <2>3. linked' \in [CPU -> Task \cup {NULL}] /\ local' \in [CPU -> Task \cup {NULL}]
    BY <1>1, <1>10 DEF without, QueueTypes
  <2>4. R \subseteq Task
    BY <1>7, <1>9
  <2>5. ready' \subseteq Task
    BY <1>1, <1>10, <1>15, <2>4 DEF QueueTypes
  <2>6. relq' \in [0 .. PFAIR_MAX_PERIOD - 1 -> SUBSET Task]
    BY <1>1, <1>10, <2>4 DEF QueueTypes
  <2> QED BY <1>1, <1>2, <2>1, <2>2, <2>3, <2>5, <2>6 DEF QueueTypes
<1>17. \A t \in Task : WheelAt(t)
  BY QueueTyped
<1>18. ASSUME NEW t \in L
       PROVE  /\ t \in rt /\ t \notin ready /\ ~Waiting(t) /\ t \in Task
              /\ \A d \in CPU : linked[d] = t => linked_on[t] = d
  <2>1. t \in Task /\ Linked(t) /\ WheelAt(t)
    BY <1>8, <1>9, <1>17
  <2>2. t \in rt /\ InPlace(t)
    BY <2>1 DEF WheelAt
  <2> QED BY <2>1, <2>2 DEF InPlace, Waiting
<1>19. panic' = FALSE
  <2>1. \A t \in R : ~in_heap(t)
    BY <1>7, <1>18 DEF in_heap, Waiting
  <2> QED BY <1>10, <2>1 DEF IInv, TypeOK
<1>20. /\ \A t \in Task : cur_release(t, pfair[t])' = cur_release(t, pfair'[t])
       /\ DOMAIN relq = 0 .. PFAIR_MAX_PERIOD - 1 /\ DOMAIN relq' = 0 .. PFAIR_MAX_PERIOD - 1
       /\ rt' = rt /\ linked_on' = linked_on
  BY <1>1, <1>2, <1>10, PrimedRelease DEF QueueTypes
<1>21. ASSUME NEW t \in L PROVE WheelAt(t)'
  <2>1. PICK r \in Nat : r = cur_release(t, pfair'[t]) /\ r < time + PFAIR_MAX_PERIOD
    BY <1>12
  <2>2. t \in R => Slot(r) # Slot(time)
    BY <1>7, <2>1, DistinctSlots
  <2>3. t \notin ready'
    BY <1>10, <1>15, <1>18, <1>20, <2>1, <2>2 DEF Waiting
  <2>4. \A s \in DOMAIN relq' : t \in relq'[s] <=> t \in R /\ s = Slot(r)
    BY <1>10, <1>18, <1>20, <2>1, <2>2 DEF Waiting
  <2>5. \A d \in CPU : linked'[d] = t <=> linked[d] = t /\ t \notin G \cup R
    BY <1>1, <1>10, <1>18 DEF without
  <2>6. Linked(t)' <=> t \notin G \cup R
    BY <1>1, <1>8, <1>18, <2>5 DEF Linked
  <2>7. Waiting(t)' <=> t \in R
    BY <1>20, <2>4, SlotType, <2>1 DEF Waiting
  <2>8. pfair'[t].sporadic_release <=> t \in G
    BY <1>7
  <2>9. /\ t \in R => time < r
        /\ t \notin G \cup R => r <= time
        /\ t \in R => t \notin G
    BY <1>7, <2>1
  <2>10. (pfair[t].sporadic_release <=> t \notin ready /\ ~Waiting(t) /\ ~Linked(t))'
    BY <2>3, <2>6, <2>7, <2>8, <2>9
  <2>11. \A s \in DOMAIN relq' : t \in relq'[s] =>
           s = Slot(r) /\ time < r /\ r <= time + PFAIR_MAX_PERIOD /\ ~Linked(t)'
    BY <2>1, <2>4, <2>6, <2>9, ConstantsAssumption
  <2>12. \A d \in CPU : linked'[d] = t => linked_on'[t] = d /\ r <= time
    BY <1>18, <1>20, <2>5, <2>9
  <2>13. cur_release(t, pfair[t])' = r
    BY <1>18, <1>20, <2>1
  <2>14. InPlace(t)'
    BY <1>1, <1>4, <2>3, <2>10, <2>11, <2>12, <2>13 DEF InPlace
  <2> QED BY <1>18, <1>20, <2>14 DEF WheelAt
<1>22. ASSUME NEW t \in Task \ L PROVE WheelAt(t)'
  <2>1. t \notin R /\ t \notin G /\ ~Linked(t)
    BY <1>7, <1>8
  <2>2. \A d \in CPU : linked'[d] # t
    BY <1>1, <1>10, <2>1 DEF without, Linked
  <2>3. ~Linked(t)'
    BY <1>1, <2>2 DEF Linked
  <2>4. t \in ready' <=> t \in ready \/ t \in relq[Slot(time)]
    BY <1>10, <2>1
  <2>5. \A s \in DOMAIN relq' : t \in relq'[s] <=> t \in relq[s] /\ s # Slot(time)
    BY <1>10, <1>20, <2>1
  <2>6. CASE t \notin rt
    BY <1>15, <1>17, <1>20, <2>3, <2>4, <2>5, <2>6 DEF WheelAt, Waiting
  <2>7. CASE t \in rt
    <3>1. InPlace(t)
      BY <1>17, <2>7 DEF WheelAt
    <3>2. PICK r \in Nat : r = cur_release(t, pfair[t])
      BY QueueTyped
    <3>3. cur_release(t, pfair[t])' = r /\ pfair'[t] = pfair[t]
      BY <1>13, <1>20, <3>2
    <3>4. t \in ready => r <= merge_time /\ ~Waiting(t)
      BY <3>1, <3>2 DEF InPlace
    <3>5. \A s \in DOMAIN relq : t \in relq[s] =>
            s = Slot(r) /\ merge_time < r /\ r <= merge_time + PFAIR_MAX_PERIOD
      BY <3>1, <3>2 DEF InPlace
    <3>6. pfair[t].sporadic_release <=> t \notin ready /\ ~Waiting(t)
      BY <2>1, <3>1 DEF InPlace
    <3>7. t \in relq[Slot(time)] => r = time
      <4> SUFFICES ASSUME t \in relq[Slot(time)], r # time PROVE FALSE
        OBVIOUS
      <4>1. Slot(time) = Slot(r) /\ merge_time < r /\ r <= merge_time + PFAIR_MAX_PERIOD
        BY <1>15, <1>20, <3>5
      <4>2. time < r /\ r < time + PFAIR_MAX_PERIOD
        BY <1>5, <1>6, <4>1, ConstantsAssumption
      <4> QED BY <4>1, <4>2, DistinctSlots
    <3>8. Waiting(t)' <=> Waiting(t) /\ t \notin relq[Slot(time)]
      <4>1. t \in relq[Slot(time)] => \A s \in DOMAIN relq : t \in relq[s] => s = Slot(time)
        BY <1>15, <1>20, <3>5
      <4> QED BY <1>20, <2>5, <4>1 DEF Waiting
    <3>9. t \in relq[Slot(time)] => Waiting(t)
      BY <1>15, <1>20 DEF Waiting
    <3>10. t \in ready' => r <= time /\ ~Waiting(t)'
      BY <1>5, <1>6, <2>4, <3>4, <3>7, <3>8
    <3>11. \A s \in DOMAIN relq' : t \in relq'[s] =>
             s = Slot(r) /\ time < r /\ r <= time + PFAIR_MAX_PERIOD
      <4> SUFFICES ASSUME NEW s \in DOMAIN relq', t \in relq'[s]
                   PROVE  s = Slot(r) /\ time < r /\ r <= time + PFAIR_MAX_PERIOD
        OBVIOUS
      <4>1. s \in DOMAIN relq /\ t \in relq[s] /\ s # Slot(time)
        BY <1>20, <2>5
      <4>2. s = Slot(r) /\ merge_time < r /\ r <= merge_time + PFAIR_MAX_PERIOD /\ r # time
        BY <3>5, <4>1
      <4> QED BY <1>5, <1>6, <4>2, ConstantsAssumption
    <3>12. (pfair[t].sporadic_release <=> t \notin ready /\ ~Waiting(t) /\ ~Linked(t))'
      BY <2>3, <2>4, <3>3, <3>6, <3>8, <3>9
    <3>13. InPlace(t)'
      BY <1>1, <1>4, <2>2, <2>3, <3>3, <3>10, <3>11, <3>12 DEF InPlace
    <3> QED BY <1>20, <2>7, <3>13 DEF WheelAt
  <2> QED BY <2>6, <2>7
<1>23. Wheel'
  BY <1>1, <1>21, <1>22 DEF Wheel, WheelAt
<1>24. TypeOK' /\ ~panic'
  <2>1. setup.cpus \in Nat
    BY DEF IInv, TypeOK, SupportedUse, Setup
  <2>2. phase' \in [CPU -> Phases]
    BY <1>1, <1>4 DEF TickTypes, Phases
  <2>3. TickTypes'
    BY <1>1, <1>2, <1>4, <1>16, <2>1, <2>2 DEF TickTypes, QueueTypes
  <2>4. flags' \in [Task -> {"RUNNING", "SLEEP"}]
    BY <1>1, <1>10 DEF StackTypes
  <2>5. StackTypes'
    BY <1>1, <1>2, <2>2, <2>4 DEF StackTypes
  <2> QED BY <1>2, <1>16, <1>19, <2>3, <2>5, TypesTogether
<1>25. phase'[c] = "link" /\ \A d \in CPU \ {c} : phase'[d] = phase[d]
  BY <1>1, <1>4 DEF TickTypes
<1>26. \A S : S \cap {"turn", "link"} = {} => SamePhase(S)
  BY <1>4, <1>25 DEF SamePhase
<1>27. Turns'
  <2>1. Locked'
    BY <1>1, <1>25 DEF Locked
  <2>2. \A d \in CPU \ {c} : phase'[d] # "link"
    BY <1>4, <1>25 DEF Locked
  <2>3. \A d \in CPU : phase'[d] \in {"turn", "link"} <=> phase[d] \in {"turn", "link"}
    BY <1>4, <1>25
  <2>4. /\ cur_tick' = cur_tick /\ pfair_time' = pfair_time /\ now' = now
        /\ quantum' = quantum /\ cur' = cur
    BY <1>2
  <2>5. (cur_tick <= merge_time /\ merge_time <= pfair_time /\ pfair_time <= now)'
    BY <1>1, <1>4, <1>5, <1>6, <2>4 DEF Turns
  <2>6. \A d \in CPU : (/\ cur[d] <= now
                        /\ phase[d] \in {"turn", "link"} =>
                             /\ cur_tick < quantum[d] /\ quantum[d] <= pfair_time
                             /\ \A h \in CPU \ {d} : phase[h] \in {"turn", "link"} => quantum[h] # quantum[d])'
    BY <1>1, <2>3, <2>4 DEF Turns
  <2>7. \A d \in CPU : (phase[d] = "link" => quantum[d] = cur_tick + 1 /\ merge_time = quantum[d])'
    BY <1>3, <1>4, <1>6, <2>2, <2>4
  <2> QED BY <1>1, <2>1, <2>5, <2>6, <2>7 DEF Turns
<1>28. Releasing' /\ Stacks'
  BY <1>2, <1>26, ReleasingKept, StacksKept
<1> QED BY <1>14, <1>23, <1>24, <1>27, <1>28 DEF IInv

-----------------------------------------------------------------------------
(* The theorems                                                            *)

\* A step of any actor keeps the invariant while the ticks are in time.
LEMMA NextStep ==
  ASSUME SupportedUse, IInv, InTime, [Next]_vars
  PROVE  IInv'
<1>1. CASE UNCHANGED vars
  <2>1. UNCHANGED <<setup, now, clockVars, taskVars, jobVars, syncVars, queueVars,
                    linkVars, local, scheduled_on, switchVars, phase, tickVars, pickVars,
                    sigVars, panic>>
    BY <1>1 DEF vars
  <2>2. CPU' = CPU /\ StackTypes
    BY <2>1, SameCPU, StackTyped
  <2>3. \A S : SamePhase(S)
    BY <2>1 DEF SamePhase
  <2>4. \A d \in CPU : cur'[d] <= now
    BY <2>1 DEF IInv, Turns
  <2>5. StackTypes'
    BY <2>1, <2>2 DEF StackTypes
  <2>6. TypeOK' /\ ~panic'
    BY <2>1, <2>5, OtherTypesKept
  <2> QED BY <2>1, <2>3, <2>4, <2>6, TurnsKept, StacksKept, ReleasingKept, WheelKept DEF IInv
<1>2. ASSUME NEW c \in CPU, tick(c) \/ Tick(c) PROVE IInv'
  BY <1>2, TickStep, ExchangeStep, CatchupStep, AdvanceSubtasksStep, ScheduleSubtasksStep,
     AnnounceStep, LoadLinkedStep, StoreLocalStep DEF Tick
<1>3. ASSUME Handler PROVE IInv'
  BY <1>3, TaskNewStep, TaskExitStep, WakeStep, ReleaseAtStep, ReleaseTsStep,
     ReleaseTsEndStep, RescheduleInterruptStep DEF Handler
<1>4. ASSUME Schedule PROVE IInv'
  BY <1>4, ScheduleStep, CompleteJobStep, BlockStep, PfairScheduleStep, MigrateStep,
     FinishSwitchStep DEF Schedule
<1>5. ASSUME clock PROVE IInv'
  BY <1>5, ClockStep
<1> QED BY <1>1, <1>2, <1>3, <1>4, <1>5 DEF Next

\* pfair_activate_plugin() establishes the invariant.
LEMMA InitInv ==
  ASSUME SupportedUse, Init
  PROVE  IInv
<1>1. setup \in Setups /\ setup \in Setup /\ setup.cpus \in Nat \ {0}
      /\ setup.started \subseteq Task
  BY DEF Init, SupportedUse, Setup
<1>2. 0 \in CPU /\ CPU \subseteq Nat /\ NO_CPU \notin CPU /\ NULL \notin Task
  <2>1. 0 \in CPU /\ CPU \subseteq Nat
    BY <1>1 DEF CPU
  <2> QED BY <2>1, ConstantsAssumption
<1>3. \A t \in Task : Quanta(t) \in Nat \ {0}
  BY <1>1, Weights, ConstantsAssumption
<1>4. \A t \in Task : t % setup.cpus \in CPU
  BY <1>1, ConstantsAssumption DEF CPU
<1>5. TickTypes
  BY <1>1 DEF Init, TickTypes, Phases
<1>6. StackTypes
  BY <1>1, <1>2, <1>4 DEF Init, StackTypes, Phases
<1>7. \A t \in Task : pfair[t] = [cur |-> 0, release |-> 1, last_quantum |-> 0,
                                  last_cpu |-> 0, sporadic_release |-> FALSE]
  BY DEF Init
<1>8. QueueTypes
  <2>1. \A t \in Task : pfair[t].cur \in 0 .. Quanta(t) - 1
    BY <1>3, <1>7
  <2>2. relq \in [0 .. PFAIR_MAX_PERIOD - 1 -> SUBSET Task]
    BY <1>1 DEF Init
  <2> QED BY <1>2, <2>1, <2>2 DEF Init, QueueTypes
<1>9. TypeOK /\ ~panic
  <2>1. panic = FALSE
    BY DEF Init
  <2> QED BY <1>1, <1>5, <1>6, <1>8, <2>1 DEF TypeOK, TickTypes, StackTypes, QueueTypes, Phases
<1>10. Params
  BY <1>2 DEF Init, Params
<1>11. Turns
  BY DEF Init, Turns, Locked
<1>12. Stacks
  BY <1>1, <1>2 DEF Init, Stacks, Execution, Switching
<1>13. Releasing
  BY DEF Init, Releasing
<1>14. Wheel
  <2> SUFFICES ASSUME NEW t \in Task PROVE WheelAt(t)
    BY DEF Wheel, WheelAt
  <2>1. cur_release(t, pfair[t]) = 1
    <3>1. pfair[t].cur = 0 /\ pfair[t].release = 1
      BY <1>7
    <3> QED BY <1>1, <1>8, <3>1, Release DEF QueueTypes
  <2>2. ~Linked(t) /\ t \notin ready
    BY <1>2 DEF Init, Linked
  <2>3. \A s \in DOMAIN relq : t \in relq[s] <=> s = Slot(1) /\ t \in rt
    BY DEF Init
  <2>4. Waiting(t) <=> t \in rt
    BY <2>3, SlotType DEF Waiting, Init
  <2>5. ~pfair[t].sporadic_release /\ merge_time = 0
    BY <1>7 DEF Init
  <2>6. \A c \in CPU : linked[c] # t
    BY <2>2 DEF Linked
  <2>7. t \in rt => InPlace(t)
    BY <2>1, <2>2, <2>3, <2>4, <2>5, <2>6, ConstantsAssumption DEF InPlace
  <2> QED BY <2>2, <2>4, <2>7 DEF WheelAt
<1> QED BY <1>9, <1>10, <1>11, <1>12, <1>13, <1>14 DEF IInv

Early == {"adv", "turn", "catch", "link", "copy"}

LEMMA CaughtUpKept ==
  ASSUME IInv, CaughtUp, UNCHANGED <<setup, now, merge_time, cur, cur_tick>>,
         \A d \in CPU : phase'[d] \notin Early => phase[d] \notin Early
  PROVE  CaughtUp'
BY SameCPU DEF CaughtUp, Early

\* The tick of a quantum is over for a processor only when the quantum has been
\* announced.
LEMMA CaughtUpStep ==
  ASSUME SupportedUse, IInv, CaughtUp, [Next]_vars
  PROVE  CaughtUp'
<1>1. TickTypes /\ StackTypes /\ 0 \in CPU
  BY TickTyped, StackTyped, QueueTyped
<1>2. ASSUME NEW c \in CPU, tick(c) PROVE CaughtUp'
  <2>1. CPU' = CPU /\ UNCHANGED <<setup, now, merge_time, cur_tick>>
    BY <1>2, SameCPU DEF tick
  <2>2. phase'[c] = "adv" /\ \A d \in CPU \ {c} : phase'[d] = phase[d] /\ cur'[d] = cur[d]
    BY <1>1, <1>2 DEF tick, TickTypes
  <2> QED BY <2>1, <2>2 DEF CaughtUp
<1>3. ASSUME NEW c \in CPU, exchange(c) PROVE CaughtUp'
  <2>1. CPU' = CPU /\ UNCHANGED <<setup, now, merge_time, cur_tick>>
    BY <1>3, SameCPU DEF exchange
  <2>2. phase'[c] \in Early /\ \A d \in CPU \ {c} : phase'[d] = phase[d] /\ cur'[d] = cur[d]
    BY <1>1, <1>3 DEF exchange, TickTypes, Early
  <2> QED BY <2>1, <2>2 DEF CaughtUp, Early
<1>4. ASSUME NEW c \in CPU, catchup(c) PROVE CaughtUp'
  <2>1. CPU' = CPU /\ UNCHANGED <<setup, now, merge_time, cur_tick>>
    BY <1>4, SameCPU DEF catchup
  <2>2. phase'[c] \in Early /\ \A d \in CPU \ {c} : phase'[d] = phase[d] /\ cur'[d] = cur[d]
    BY <1>1, <1>4 DEF catchup, TickTypes, Early
  <2> QED BY <2>1, <2>2 DEF CaughtUp, Early
<1>5. ASSUME NEW c \in CPU, advance_subtasks(c) PROVE CaughtUp'
  <2>1. CPU' = CPU /\ UNCHANGED <<setup, now, cur, cur_tick>> /\ merge_time' = quantum[c]
        /\ phase[c] = "turn" /\ ~Locked
    BY <1>5, SameCPU DEF advance_subtasks
  <2>2. phase'[c] = "link" /\ \A d \in CPU \ {c} : phase'[d] = phase[d]
    BY <1>1, <1>5 DEF advance_subtasks, TickTypes
  <2>3. merge_time = cur_tick /\ cur_tick < quantum[c]
    BY <2>1 DEF IInv, Turns
  <2>4. setup.lag \/ now <= merge_time' + 1
    BY <1>1, <2>1, <2>3 DEF CaughtUp, TickTypes
  <2> QED BY <2>1, <2>2, <2>4 DEF CaughtUp
<1>6. ASSUME NEW c \in CPU, schedule_subtasks(c) PROVE CaughtUp'
  BY <1>6, CaughtUpKept DEF schedule_subtasks
<1>7. ASSUME NEW c \in CPU, announce(c) PROVE CaughtUp'
  <2>1. CPU' = CPU /\ UNCHANGED <<setup, now, cur, merge_time>> /\ cur_tick' = quantum[c]
        /\ phase[c] = "link"
    BY <1>7, SameCPU DEF announce
  <2>2. phase'[c] \in Early /\ \A d \in CPU \ {c} : phase'[d] = phase[d]
    BY <1>1, <1>7 DEF announce, TickTypes, Early
  <2>3. cur_tick < quantum[c]
    BY <2>1 DEF IInv, Turns
  <2>4. \A d \in CPU : cur[d] <= cur_tick => cur[d] <= cur_tick'
    BY <1>1, <2>1, <2>3 DEF TickTypes
  <2> QED BY <2>1, <2>2, <2>4 DEF CaughtUp, Early
<1>8. ASSUME NEW c \in CPU, load_linked(c) PROVE CaughtUp'
  <2>1. CPU' = CPU /\ UNCHANGED <<setup, now, cur, merge_time, cur_tick>> /\ cur_tick >= cur[c]
    BY <1>8, SameCPU DEF load_linked, wait_for_quantum
  <2>2. \A d \in CPU \ {c} : phase'[d] = phase[d]
    BY <1>1, <1>8 DEF load_linked, TickTypes
  <2>3. cur[c] <= cur_tick
    BY <1>1, <2>1 DEF TickTypes
  <2> QED BY <2>1, <2>2, <2>3 DEF CaughtUp
<1>9. ASSUME NEW c \in CPU, store_local(c) PROVE CaughtUp'
  <2>1. \A d \in CPU \ {c} : phase'[d] = phase[d]
    BY <1>1, <1>9 DEF store_local, TickTypes
  <2>2. phase[c] \notin Early
    BY <1>9 DEF store_local, Early
  <2> QED BY <1>9, <2>1, <2>2, CaughtUpKept DEF store_local
<1>10. ASSUME NEW t \in Task, NEW e \in CPU,
              task_new(t, e) \/ task_exit(t, e) \/ wake(t, e) \/ release_at(t, e)
       PROVE  CaughtUp'
  <2>1. UNCHANGED <<setup, now, merge_time, cur, cur_tick, phase>>
    BY <1>10 DEF task_new, task_exit, wake, release_at
  <2> QED BY <2>1, CaughtUpKept
<1>11. ASSUME NEW c \in CPU, release_ts(c) \/ release_ts_end(c) \/ reschedule_interrupt(c)
       PROVE  CaughtUp'
  <2>1. UNCHANGED <<setup, now, merge_time, cur, cur_tick>>
    BY <1>11 DEF release_ts, release_ts_end, reschedule_interrupt
  <2>2. phase[c] \notin Early /\ \A d \in CPU \ {c} : phase'[d] = phase[d]
    BY <1>1, <1>11 DEF release_ts, release_ts_end, reschedule_interrupt, TickTypes, Early, Open
  <2> QED BY <2>1, <2>2, CaughtUpKept
<1>12. ASSUME NEW c \in CPU,
              \/ schedule(c) \/ complete_job(c) \/ block(c) \/ pfair_schedule(c)
              \/ migrate(c) \/ finish_switch(c)
       PROVE  CaughtUp'
  <2>1. UNCHANGED <<setup, now, merge_time, cur, cur_tick>>
    BY <1>12 DEF schedule, complete_job, block, pfair_schedule, migrate, finish_switch
  <2>2. phase[c] \notin Early
    BY <1>12 DEF schedule, complete_job, block, pfair_schedule, migrate, finish_switch,
                 Open, Early
  <2>3. \A d \in CPU \ {c} : phase'[d] = phase[d]
    BY <1>1, <1>12 DEF schedule, complete_job, block, pfair_schedule, migrate, finish_switch,
                       enter, TickTypes
  <2> QED BY <2>1, <2>2, <2>3, CaughtUpKept
<1>13. ASSUME clock PROVE CaughtUp'
  <2>1. CPU' = CPU /\ UNCHANGED <<setup, merge_time, cur, cur_tick, phase>> /\ now' = now + 1
    BY <1>13, SameCPU DEF clock
  <2>2. setup.lag \/ now' <= merge_time + 1
    <3> SUFFICES ASSUME ~setup.lag PROVE now' <= merge_time + 1
      OBVIOUS
    <3>1. cur[0] = now /\ phase[0] = "run"
      BY <1>1, <1>13 DEF clock, Quiet, Open
    <3>2. now <= cur_tick
      BY <1>1, <3>1 DEF CaughtUp
    <3>3. cur_tick <= merge_time
      BY DEF IInv, Turns
    <3> QED BY <1>1, <2>1, <3>2, <3>3 DEF TickTypes
  <2> QED BY <2>1, <2>2 DEF CaughtUp
<1>14. CASE UNCHANGED vars
  <2>1. UNCHANGED <<setup, now, merge_time, cur, cur_tick, phase>>
    BY <1>14 DEF vars
  <2> QED BY <2>1, CaughtUpKept
<1>15. CASE Next
  BY <1>2, <1>3, <1>4, <1>5, <1>6, <1>7, <1>8, <1>9, <1>10, <1>11, <1>12, <1>13, <1>15
     DEF Next, Tick, Handler, Schedule
<1> QED BY <1>14, <1>15

\* While processors lag behind, the ticks are in time.
TicksInTime == setup.lag => InTime

\* Without lag the clock waits for the ticks.
LEMMA ClockWaits ==
  ASSUME SupportedUse, IInv, CaughtUp, TicksInTime
  PROVE  InTime
<1> SUFFICES ASSUME ~setup.lag PROVE InTime
  BY DEF TicksInTime
<1>1. now \in Nat /\ merge_time \in Nat /\ PFAIR_MAX_PERIOD \in Nat /\ PFAIR_MAX_PERIOD > 1
  BY TickTyped, ConstantsAssumption DEF TickTypes, SupportedUse
<1>2. now <= merge_time + 1
  BY DEF CaughtUp
<1> QED BY <1>1, <1>2 DEF InTime

LEMMA InitCaughtUp ==
  ASSUME Init
  PROVE  CaughtUp
<1>1. cur_tick = 0 /\ now = 0 /\ merge_time = 0 /\ \A c \in CPU : cur[c] = 0
  BY DEF Init
<1> QED BY <1>1 DEF CaughtUp

\* A system whose ticks are in time, or in which processors do not lag behind,
\* keeps its queues, links and stacks consistent.
THEOREM Invariance ==
  ASSUME SupportedUse
  PROVE  Spec /\ []TicksInTime => [](IInv /\ CaughtUp)
<1>1. Init => IInv /\ CaughtUp
  BY InitInv, InitCaughtUp
<1>2. IInv /\ CaughtUp /\ TicksInTime /\ [Next]_vars => (IInv /\ CaughtUp)'
  BY ClockWaits, NextStep, CaughtUpStep
<1> QED BY <1>1, <1>2, PTL DEF Spec

\* The inductive invariant implies that every task is in one place.
LEMMA PlacesCounted ==
  ASSUME SupportedUse, IInv, NEW t \in rt
  PROVE  Cardinality(Places(t)) = IF pfair[t].sporadic_release THEN 0 ELSE 1
<1>1. QueueTypes /\ t \in Task
  BY QueueTyped DEF IInv, TypeOK
<1>2. InPlace(t)
  BY <1>1, QueueTyped DEF WheelAt
<1> DEFINE A == {<<"linked", c>> : c \in {d \in CPU : linked[d] = t}}
           B == {<<"ready", 0>> : u \in ready \cap {t}}
           D == {<<"relq", s>> : s \in {r \in DOMAIN relq : t \in relq[r]}}
<1>3. Places(t) = A \cup B \cup D
  BY DEF Places
<1>4. CASE pfair[t].sporadic_release
  <2>1. t \notin ready /\ ~Waiting(t) /\ ~Linked(t)
    BY <1>2, <1>4 DEF InPlace
  <2>2. Places(t) = {}
    BY <1>3, <2>1 DEF Waiting, Linked
  <2> QED BY <1>4, <2>2, FS_EmptySet
<1>5. CASE ~pfair[t].sporadic_release
  <2>1. \E x : Places(t) = {x}
    <3>1. CASE t \in ready
      <4>1. ~Waiting(t) /\ ~Linked(t)
        BY <1>2, <3>1 DEF InPlace
      <4>2. A = {} /\ D = {} /\ B = {<<"ready", 0>>}
        BY <3>1, <4>1 DEF Waiting, Linked
      <4> QED BY <1>3, <4>2
    <3>2. CASE Waiting(t)
      <4>1. PICK s \in DOMAIN relq : t \in relq[s]
        BY <3>2 DEF Waiting
      <4>2. t \notin ready /\ ~Linked(t)
        BY <1>2, <3>2, <4>1 DEF InPlace
      <4>3. \A r \in DOMAIN relq : t \in relq[r] <=> r = s
        BY <1>2, <4>1 DEF InPlace
      <4>4. A = {} /\ B = {}
        BY <4>2 DEF Linked
      <4>5. D = {<<"relq", s>>}
        BY <4>1, <4>3
      <4> QED BY <1>3, <4>4, <4>5
    <3>3. CASE Linked(t)
      <4>1. PICK c \in CPU : linked[c] = t
        BY <3>3 DEF Linked
      <4>2. t \notin ready /\ ~Waiting(t)
        BY <1>2, <3>3 DEF InPlace, Waiting
      <4>3. \A d \in CPU : linked[d] = t <=> d = c
        BY <1>2, <4>1 DEF InPlace
      <4>4. B = {} /\ D = {}
        BY <4>2 DEF Waiting
      <4>5. A = {<<"linked", c>>}
        BY <4>1, <4>3
      <4> QED BY <1>3, <4>4, <4>5
    <3> QED BY <1>2, <1>5, <3>1, <3>2, <3>3 DEF InPlace
  <2> QED BY <1>5, <2>1, FS_Singleton
<1> QED BY <1>4, <1>5

\* Every task is in one queue and on one stack, in the queue where
\* drop_all_references() looks for it, and no BUG_ON() fires, although processors
\* that lag behind copy their assignment while the next one is being made.
THEOREM EveryTaskOnce ==
  ASSUME SupportedUse
  PROVE  Spec /\ []TicksInTime => []OnePlace
<1>1. IInv => OnePlace
  <2> SUFFICES ASSUME IInv PROVE OnePlace
    OBVIOUS
  <2>1. TypeOK /\ ~panic /\ Stacks
    BY DEF IInv
  <2>2. QueueTypes /\ StackTypes /\ \A t \in Task : WheelAt(t) /\ cur_release(t, pfair[t]) \in Nat
    BY QueueTyped, StackTyped
  <2>3. ASSUME NEW t \in rt
        PROVE  /\ Cardinality(Places(t)) = IF pfair[t].sporadic_release THEN 0 ELSE 1
               /\ t \in ready => cur_release(t, pfair[t]) <= merge_time
               /\ \A s \in DOMAIN relq : t \in relq[s] =>
                    LET r == cur_release(t, pfair[t]) IN
                    s = Slot(r) /\ r \in merge_time + 1 .. merge_time + PFAIR_MAX_PERIOD
    <3>1. t \in Task /\ InPlace(t)
      BY <2>2 DEF StackTypes, WheelAt
    <3>2. PICK r \in Nat, m \in Nat, p \in Nat :
            r = cur_release(t, pfair[t]) /\ m = merge_time /\ p = PFAIR_MAX_PERIOD
      BY <2>1, <2>2, <3>1, ConstantsAssumption DEF TypeOK
    <3>3. m < r /\ r <= m + p => r \in m + 1 .. m + p
      OBVIOUS
    <3>4. \A s \in DOMAIN relq : t \in relq[s] =>
            s = Slot(r) /\ r \in m + 1 .. m + p
      BY <3>1, <3>2, <3>3 DEF InPlace
    <3>5. t \in ready => r <= m
      BY <3>1, <3>2 DEF InPlace
    <3> QED BY <3>2, <3>4, <3>5, PlacesCounted
  <2>4. ASSUME NEW c \in CPU, linked[c] # NULL
        PROVE  linked[c] \in rt /\ linked_on[linked[c]] = c
    <3>1. PICK t \in Task : linked[c] = t
      BY <2>2, <2>4 DEF QueueTypes
    <3>2. WheelAt(t) /\ Linked(t)
      BY <2>2, <3>1 DEF Linked
    <3> QED BY <3>1, <3>2 DEF WheelAt, InPlace
  <2>5. Queued
    BY <2>3, <2>4 DEF Queued
  <2>6. ASSUME NEW c \in CPU, curr[c] # NULL
        PROVE  /\ stack_in_use[curr[c]] = c
               /\ \A d \in CPU \ {c} : curr[d] # curr[c]
               /\ Open(c) => scheduled_on[curr[c]] = c
    <3>1. PICK t \in Task : curr[c] = t
      BY <2>2, <2>6 DEF StackTypes
    <3>2. stack_in_use[t] = c /\ \A d \in CPU : curr[d] = t => stack_in_use[t] = d
      BY <2>1, <3>1 DEF Stacks
    <3>3. Open(c) => scheduled_on[t] = c
      BY <2>1, <3>1 DEF Stacks, Open, Switching
    <3> QED BY <3>1, <3>2, <3>3
  <2>7. OneStack
    BY <2>6 DEF OneStack
  <2> QED BY <2>1, <2>5, <2>7 DEF OnePlace
<1> QED BY <1>1, Invariance, PTL

-----------------------------------------------------------------------------
(* Assignments in plain systems                                            *)

\* A step that changes nothing of d, and makes nothing runnable there.
LEMMA FollowsKept ==
  ASSUME NEW d, Follows(d), now' = now,
         cur'[d] = cur[d], phase'[d] = phase[d], local'[d] = local[d],
         linked'[d] = linked[d], loaded'[d] = loaded[d], curr'[d] = curr[d],
         next'[d] = next[d], d \in was_running => d \in was_running',
         <<"cpu", d>> \in tif' => <<"cpu", d>> \in tif,
         Current(d) \in tif => Current(d) \in tif',
         local[d] \in present' /\ flags'[local[d]] = "RUNNING" => Runnable(local[d]),
         linked[d] # NULL => scheduled_on'[linked[d]] \in {NO_CPU, d}
  PROVE  Follows(d)'
<1>1. /\ Ticking(d)' <=> Ticking(d)
      /\ Switching(d)' <=> Switching(d)
      /\ Open(d)' <=> Open(d)
      /\ Current(d)' = Current(d)
  BY DEF Ticking, Switching, Open, Current
<1>2. Calm(d)'
  BY <1>1 DEF Follows, Calm
<1>3. Taken(d)' <=> Taken(d)
  BY <1>1 DEF Taken
<1>4. \A t : Serves(d, t) => Serves(d, t)'
  BY DEF Serves, Runnable
<1>5. After(d) => After(d)'
  BY <1>1, <1>4 DEF After
<1>6. Before(d) => Before(d)'
  BY <1>1 DEF Before
<1> QED BY <1>2, <1>3, <1>5, <1>6 DEF Follows

\* Stacks and queues as the following lemmas use them.
LEMMA PlainFacts ==
  ASSUME SupportedUse, IInv, CaughtUp, Plain, Following
  PROVE  /\ TickTypes /\ StackTypes /\ QueueTypes /\ NULL \notin Task /\ NO_CPU \notin CPU
         /\ Turns /\ Stacks /\ Settled /\ ~setup.lag
         /\ setup.completing \subseteq Task
         /\ \A t \in Task : sync[t] # "wait"
         /\ \A c \in CPU : Follows(c) /\ Execution(c)
         /\ \A c, d \in CPU : linked[c] # NULL /\ linked[c] = linked[d] => c = d
         /\ \A c, d \in CPU : curr[c] # NULL /\ curr[c] = curr[d] => c = d
<1>1. /\ TickTypes /\ StackTypes /\ QueueTypes /\ NULL \notin Task /\ NO_CPU \notin CPU
      /\ Turns /\ Stacks /\ Settled /\ ~setup.lag /\ TypeOK
  BY TickTyped, StackTyped, QueueTyped DEF IInv, Following, Plain
<1>2. setup.completing \subseteq Task
  BY <1>1 DEF TypeOK, SupportedUse, Setup
<1>3. \A t \in Task : sync[t] # "wait"
  BY DEF IInv, Releasing, Plain
<1>4. \A c \in CPU : Follows(c) /\ Execution(c)
  BY <1>1 DEF Following, Stacks
<1>5. \A c, d \in CPU : linked[c] # NULL /\ linked[c] = linked[d] => c = d
  <2> SUFFICES ASSUME NEW c \in CPU, NEW d \in CPU, linked[c] # NULL, linked[c] = linked[d]
               PROVE  c = d
    OBVIOUS
  <2>1. PICK t \in Task : linked[c] = t
    BY <1>1 DEF QueueTypes
  <2>2. WheelAt(t) /\ Linked(t)
    BY <2>1, QueueTyped DEF Linked
  <2> QED BY <2>1, <2>2 DEF WheelAt, InPlace
<1>6. \A c, d \in CPU : curr[c] # NULL /\ curr[c] = curr[d] => c = d
  <2> SUFFICES ASSUME NEW c \in CPU, NEW d \in CPU, curr[c] # NULL, curr[c] = curr[d]
               PROVE  c = d
    OBVIOUS
  <2>1. PICK t \in Task : curr[c] = t
    BY <1>1 DEF StackTypes
  <2>2. \A e \in CPU : curr[e] = t => stack_in_use[t] = e
    BY <1>1 DEF Stacks
  <2>3. stack_in_use[t] = c /\ stack_in_use[t] = d
    BY <2>1, <2>2
  <2> QED BY <2>3
<1> QED BY <1>1, <1>2, <1>3, <1>4, <1>5, <1>6

\* Steps of the tick up to the announcement of the quantum.
LEMMA FollowingTick ==
  ASSUME SupportedUse, IInv, CaughtUp, Plain, Following, NEW c \in CPU,
         tick(c) \/ exchange(c) \/ catchup(c) \/ announce(c) \/ load_linked(c)
  PROVE  Following'
<1>1. /\ CPU' = CPU /\ TickTypes /\ Settled /\ Follows(c) /\ Turns
      /\ \A d \in CPU : Follows(d)
  BY SameCPU, PlainFacts DEF tick, exchange, catchup, announce, load_linked
<1>2. UNCHANGED <<setup, now, taskVars, flags, linked, local, scheduled_on, curr,
                  next, was_running, sigVars>>
  BY DEF tick, exchange, catchup, announce, load_linked
<1>3. \A d \in CPU \ {c} : cur'[d] = cur[d] /\ phase'[d] = phase[d] /\ loaded'[d] = loaded[d]
  BY <1>1 DEF tick, exchange, catchup, announce, load_linked, TickTypes
<1>4. cur'[c] = now
  <2>1. tick(c) => cur'[c] = now
    BY <1>1 DEF tick, TickTypes
  <2>2. ~tick(c) => cur[c] = now
    BY <1>1 DEF exchange, catchup, announce, load_linked, Follows, Calm, Ticking
  <2> QED BY <1>1, <2>1, <2>2 DEF exchange, catchup, announce, load_linked, TickTypes
<1>5. phase'[c] \in {"adv", "turn", "catch", "copy", "store"}
      /\ (phase'[c] = "store" => loaded'[c] = linked[c])
  BY <1>1 DEF tick, exchange, catchup, announce, load_linked, TickTypes
<1>6. ~Taken(c) /\ ~Taken(c)'
  <2>1. tick(c) => ~Taken(c)
    BY <1>1 DEF tick, Taken, TickTypes
  <2>2. ~tick(c) => ~Taken(c)
    BY DEF exchange, catchup, announce, load_linked, Taken, Ticking
  <2>3. ~Taken(c)'
    BY <1>5 DEF Taken, Ticking
  <2> QED BY <2>1, <2>2, <2>3
<1>7. Before(c)'
  BY <1>1, <1>2, <1>5, <1>6 DEF Follows, Before, Switching
<1>8. Calm(c)'
  BY <1>1, <1>2, <1>4, <1>5 DEF Follows, Calm, Ticking, Switching
<1>9. Follows(c)'
  BY <1>1, <1>2, <1>5, <1>6, <1>7, <1>8 DEF Follows
<1>10. \A d \in CPU \ {c} : Follows(d)'
  BY <1>1, <1>2, <1>3, FollowsKept DEF Follows, Current, Runnable
<1> QED BY <1>1, <1>2, <1>9, <1>10 DEF Following, Settled

\* While a quantum is being prepared, no processor has taken its tick.
LEMMA NobodyTaken ==
  ASSUME SupportedUse, IInv, CaughtUp, Plain, Following, NEW c \in CPU,
         phase[c] \in {"turn", "link"}
  PROVE  \A d \in CPU : ~Taken(d) /\ phase[d] # "store"
<1>1. TickTypes /\ Turns /\ \A d \in CPU : Follows(d)
  BY PlainFacts
<1>2. cur_tick < now
  BY <1>1 DEF Turns, TickTypes
<1>3. \A d \in CPU : phase[d] = "store" => cur[d] = now
  BY <1>1 DEF Follows, Calm, Ticking
<1>4. \A d \in CPU : phase[d] \notin Early => cur[d] <= cur_tick
  BY DEF CaughtUp, Early
<1>5. \A d \in CPU : cur[d] = now => ~(cur[d] <= cur_tick)
  BY <1>1, <1>2 DEF TickTypes
<1> QED BY <1>3, <1>4, <1>5 DEF Taken, Ticking, Early

\* The preparation of a quantum, of a processor that has not taken its tick.
LEMMA Unaware ==
  ASSUME NEW d, Follows(d), ~Taken(d), phase[d] # "store",
         UNCHANGED <<now, cur, curr, next, was_running, sigVars, scheduled_on>>,
         local'[d] = local[d],
         phase'[d] = phase[d] \/ (phase[d] = "turn" /\ phase'[d] = "link"),
         linked'[d] # NULL => scheduled_on[linked'[d]] \in {NO_CPU, d}
  PROVE  Follows(d)'
<1>1. /\ Ticking(d)' <=> Ticking(d)
      /\ Switching(d)' <=> Switching(d)
      /\ Open(d)' <=> Open(d)
      /\ phase'[d] \notin {"release", "store"} \/ phase'[d] = phase[d]
      /\ phase'[d] = "sched" => phase[d] = "sched"
  BY DEF Ticking, Switching, Open
<1>2. ~Taken(d)' /\ phase'[d] # "store"
  BY <1>1 DEF Taken
<1>3. Calm(d)'
  BY <1>1 DEF Follows, Calm
<1>4. Before(d)'
  BY <1>1 DEF Follows, Before
<1> QED BY <1>2, <1>3, <1>4 DEF Follows

LEMMA FollowingAdvance ==
  ASSUME SupportedUse, IInv, CaughtUp, Plain, Following, NEW c \in CPU, advance_subtasks(c)
  PROVE  Following'
<1>1. /\ CPU' = CPU /\ TickTypes /\ QueueTypes /\ Settled /\ NULL \notin Task
      /\ \A d \in CPU : Follows(d)
  BY SameCPU, PlainFacts DEF advance_subtasks
<1>2. UNCHANGED <<setup, now, taskVars, scheduled_on, cur, curr, next, was_running, sigVars>>
  BY DEF advance_subtasks
<1>3. PICK L, G, W : /\ L = {linked[d] : d \in CPU} \ {NULL}
                     /\ G = {t \in L : pfair'[t].sporadic_release}
                     /\ linked' = without(linked, G \cup W)
                     /\ local' = without(local, G)
  BY DEF advance_subtasks
<1>4. \A t \in L : t \in Task /\ t \in rt /\ Linked(t) /\ ~pfair[t].sporadic_release
  <2> SUFFICES ASSUME NEW t \in L
               PROVE  t \in Task /\ t \in rt /\ Linked(t) /\ ~pfair[t].sporadic_release
    OBVIOUS
  <2>1. t \in Task /\ Linked(t)
    BY <1>1, <1>3 DEF QueueTypes, Linked
  <2>2. WheelAt(t)
    BY <2>1, QueueTyped
  <2> QED BY <2>1, <2>2 DEF WheelAt, InPlace
<1>5. G = {}
  <2> SUFFICES ASSUME NEW t \in L PROVE ~pfair'[t].sporadic_release
    BY <1>3
  <2>1. PICK d : pfair'[t] = advanced(quantum[c], t, d)
    BY <1>3, <1>4 DEF advance_subtasks
  <2>2. t \in present
    BY <1>1, <1>4 DEF Settled
  <2>3. pfair'[t].sporadic_release =
          (pfair[t].sporadic_release \/ (pfair[t].cur + 1 = Quanta(t) /\ t \notin present))
    BY <2>1 DEF advanced
  <2> QED BY <1>4, <2>2, <2>3
<1>6. \A d \in CPU : local'[d] = local[d] /\ linked'[d] \in {linked[d], NULL}
  BY <1>1, <1>3, <1>5 DEF without
<1>7. phase[c] = "turn" /\ \A d \in CPU : phase'[d] = IF d = c THEN "link" ELSE phase[d]
  BY <1>1 DEF advance_subtasks, TickTypes
<1>8. \A d \in CPU : ~Taken(d) /\ phase[d] # "store"
  BY <1>7, NobodyTaken
<1>9. \A d \in CPU : linked'[d] # NULL => scheduled_on[linked'[d]] \in {NO_CPU, d}
  BY <1>1, <1>6 DEF Follows
<1>10. \A d \in CPU : Follows(d)'
  BY <1>1, <1>2, <1>6, <1>7, <1>8, <1>9, Unaware
<1> QED BY <1>1, <1>2, <1>10 DEF Following, Settled

\* A task is linked to where it is scheduled, and one that is displaced is not
\* scheduled there.
LEMMA FollowingLink ==
  ASSUME SupportedUse, IInv, CaughtUp, Plain, Following, NEW c \in CPU, schedule_subtasks(c)
  PROVE  Following'
<1>1. /\ CPU' = CPU /\ TickTypes /\ QueueTypes /\ StackTypes /\ Settled
      /\ NULL \notin Task /\ NO_CPU \notin CPU /\ Stacks
      /\ \A d \in CPU : Follows(d)
  BY SameCPU, PlainFacts DEF schedule_subtasks
<1>2. /\ UNCHANGED <<setup, now, taskVars, local, phase, scheduled_on, cur, curr, next,
                     was_running, sigVars>>
      /\ phase[c] = "link"
  BY DEF schedule_subtasks
<1>3. \A d \in CPU : ~Taken(d) /\ phase[d] # "store"
  BY <1>2, NobodyTaken
<1>4. ASSUME NEW t, t = peek_ready, pfair_higher_prio(t, linked[at]),
             pfair_link(quantum[c], at, t), NEW d \in CPU, linked'[d] # NULL
      PROVE  scheduled_on[linked'[d]] \in {NO_CPU, d}
  <2>1. t \in ready /\ t \in Task /\ t # NULL
    <3>1. t # NULL
      BY <1>4 DEF pfair_higher_prio
    <3>2. ready \subseteq rt
      BY <1>1, QueueTyped DEF WheelAt, QueueTypes
    <3> QED BY <1>1, <1>4, <3>1, <3>2, PeekReady DEF peek_ready, QueueTypes, IInv
  <2>2. PICK k \in CPU : k = at
    <3>1. setup.cpus \in Nat /\ at \in 0 .. setup.cpus /\ at < setup.cpus
      BY <1>1 DEF IInv, TypeOK, SupportedUse, Setup, schedule_subtasks
    <3> QED BY <3>1 DEF CPU
  <2>3. PICK g \in CPU : g = target_cpu(quantum[c], t, at)
    <3>1. pfair[t].last_cpu \in CPU /\ scheduled_on[t] \in CPU \cup {NO_CPU}
      BY <1>1, <2>1 DEF IInv, Params, StackTypes
    <3> QED BY <2>2, <3>1 DEF target_cpu
  <2>4. /\ scheduled_on[t] \in {NO_CPU, g}
        /\ g # k /\ linked[g] # NULL => \/ scheduled_on[t] = g
                                        \/ scheduled_on[linked[g]] # g
    BY <2>2, <2>3 DEF target_cpu
  <2>5. linked'[d] = IF d = g THEN t
                     ELSE IF d = k /\ g < k /\ linked[g] # NULL THEN linked[g] ELSE linked[d]
    BY <1>1, <1>4, <2>2, <2>3 DEF pfair_link, QueueTypes
  <2>6. CASE d = g
    BY <2>4, <2>5, <2>6
  <2>7. CASE d # g /\ linked'[d] = linked[d]
    BY <1>1, <1>4, <2>7 DEF Follows
  <2>8. CASE d = k /\ g # k /\ linked[g] # NULL /\ linked'[d] = linked[g]
    <3>1. PICK o \in Task : o = linked[g]
      BY <1>1, <2>8 DEF QueueTypes
    <3>2. o # t
      <4>1. WheelAt(t) /\ Linked(o)
        BY <2>1, <3>1, QueueTyped DEF Linked
      <4> QED BY <2>1, <4>1 DEF WheelAt, InPlace
    <3>3. ~(scheduled_on[t] = g /\ scheduled_on[o] = g)
      BY <1>1, <2>1, <3>1, <3>2 DEF Stacks
    <3>4. scheduled_on[o] \in {NO_CPU, g}
      BY <1>1, <2>8, <3>1 DEF Follows
    <3>5. scheduled_on[o] = NO_CPU
      BY <2>4, <2>8, <3>1, <3>3, <3>4
    <3> QED BY <2>8, <3>1, <3>5
  <2> QED BY <2>5, <2>6, <2>7, <2>8
<1>5. \A d \in CPU : linked'[d] # NULL => scheduled_on[linked'[d]] \in {NO_CPU, d}
  <2>1. CASE \E t : /\ t = peek_ready /\ pfair_higher_prio(t, linked[at])
                    /\ pfair_link(quantum[c], at, t)
    BY <1>4, <2>1
  <2>2. CASE UNCHANGED linked
    BY <1>1, <2>2 DEF Follows
  <2> QED BY <2>1, <2>2 DEF schedule_subtasks
<1>6. \A d \in CPU : Follows(d)'
  BY <1>1, <1>2, <1>3, <1>5, Unaware
<1> QED BY <1>1, <1>2, <1>6 DEF Following, Settled

LEMMA FollowingStore ==
  ASSUME SupportedUse, IInv, CaughtUp, Plain, Following, NEW c \in CPU, store_local(c)
  PROVE  Following'
<1>1. /\ CPU' = CPU /\ TickTypes /\ StackTypes /\ Settled /\ NULL \notin Task
      /\ Execution(c) /\ \A d \in CPU : Follows(d)
      /\ \A d \in CPU : curr[c] # NULL /\ curr[c] = curr[d] => c = d
  BY SameCPU, PlainFacts DEF store_local
<1>2. /\ UNCHANGED <<setup, now, taskVars, flags, linked, scheduled_on, curr, cur, next,
                     was_running, ipi>>
      /\ phase[c] = "store"
  BY DEF store_local
<1>3. /\ local'[c] = linked[c] /\ phase'[c] = "run"
      /\ \A d \in CPU \ {c} : phase'[d] = phase[d] /\ loaded'[d] = loaded[d]
                              /\ local'[d] = local[d]
  BY <1>1 DEF store_local, TickTypes, Follows
<1>4. /\ tif \subseteq tif' /\ tif' \subseteq tif \cup {Current(c)}
      /\ Current(c) \notin tif' => linked[c] = curr[c] \/ (curr[c] \notin rt /\ linked[c] \notin present)
  BY <1>1, <1>2 DEF store_local, Follows
<1>5. cur[c] = now
  BY <1>1, <1>2 DEF Follows, Calm, Ticking
<1>6. Taken(c)'
  BY <1>2, <1>3, <1>5 DEF Taken, Ticking
<1>7. ~Switching(c)' /\ Open(c)' /\ Current(c)' = Current(c)
  BY <1>2, <1>3 DEF Switching, Open, Current
<1>8. Current(c)' \notin tif' => Serves(c, curr[c])'
  <2> SUFFICES ASSUME Current(c)' \notin tif' PROVE Serves(c, curr[c])'
    OBVIOUS
  <2>1. linked[c] = curr[c] \/ (curr[c] \notin rt /\ linked[c] \notin present)
    BY <1>4, <1>7
  <2>2. curr[c] \notin rt => curr[c] = NULL
    BY <1>1 DEF Execution
  <2> QED BY <1>2, <1>3, <2>1, <2>2 DEF Serves, Runnable
<1>9. After(c)'
  BY <1>2, <1>3, <1>7, <1>8 DEF After
<1>10. Calm(c)'
  <2>1. <<"cpu", c>> \in tif' => curr[c] = NULL
    BY <1>1, <1>4 DEF Follows, Calm, Current
  <2> QED BY <1>2, <1>3, <1>7, <2>1, <1>5 DEF Calm, Ticking
<1>11. Follows(c)'
  BY <1>1, <1>2, <1>3, <1>6, <1>9, <1>10 DEF Follows
<1>12. \A d \in CPU \ {c} : <<"cpu", d>> \in tif' => <<"cpu", d>> \in tif
  BY <1>4 DEF Current
<1>13. \A d \in CPU \ {c} : Follows(d)'
  BY <1>1, <1>2, <1>3, <1>4, <1>12, FollowsKept DEF Follows, Runnable
<1> QED BY <1>1, <1>2, <1>11, <1>13 DEF Following, Settled

\* A task leaves where it executes; nobody else is about to execute it.
LEMMA FollowingExit ==
  ASSUME SupportedUse, IInv, CaughtUp, Plain, Following,
         NEW t \in Task, NEW e \in CPU, task_exit(t, e)
  PROVE  Following'
<1>1. /\ CPU' = CPU /\ TickTypes /\ QueueTypes /\ StackTypes /\ Settled /\ NULL \notin Task
      /\ NO_CPU \notin CPU /\ Stacks
      /\ \A d \in CPU : Follows(d) /\ Execution(d)
      /\ \A c, d \in CPU : curr[c] # NULL /\ curr[c] = curr[d] => c = d
  BY SameCPU, PlainFacts DEF task_exit
<1>2. curr[e] = t /\ Open(e) /\ t # NULL
  BY <1>1 DEF task_exit, Settled
<1>3. /\ UNCHANGED <<setup, now, phase, cur, loaded, next, was_running, ipi>>
      /\ linked' = without(linked, {t}) /\ local' = without(local, {t})
      /\ rt' = rt \ {t} /\ running' = running \cup {t} /\ present' = present \ {t}
      /\ flags' = [flags EXCEPT ![t] = "RUNNING"]
      /\ scheduled_on' = [scheduled_on EXCEPT ![t] = NO_CPU]
      /\ curr' = [curr EXCEPT ![e] = NULL]
      /\ tif' = (tif \ {<<"task", t>>}) \cup {<<"cpu", e>>}
  BY <1>2 DEF task_exit
<1>4. Settled'
  BY <1>1, <1>3 DEF Settled
<1>5. scheduled_on[t] = e
  BY <1>1, <1>2 DEF Stacks, Open, Switching
<1>6. \A d \in CPU \ {e} : linked[d] # t /\ curr[d] # t
  BY <1>1, <1>2, <1>5 DEF Follows
<1>7. /\ curr'[e] = NULL /\ \A d \in CPU \ {e} : curr'[d] = curr[d]
      /\ \A d \in CPU : /\ linked'[d] = IF linked[d] = t THEN NULL ELSE linked[d]
                        /\ local'[d] = IF local[d] = t THEN NULL ELSE local[d]
      /\ \A u \in Task \ {t} : flags'[u] = flags[u] /\ scheduled_on'[u] = scheduled_on[u]
  BY <1>1, <1>3 DEF StackTypes, without
<1>8. Follows(e)'
  <2>1. /\ ~Switching(e)' /\ Open(e)' /\ ~Ticking(e)' /\ phase'[e] = "run"
        /\ Taken(e)' <=> Taken(e)
    BY <1>2, <1>3 DEF Switching, Open, Ticking, Taken
  <2>2. Current(e)' \in tif'
    BY <1>3, <1>7 DEF Current
  <2>3. Calm(e)'
    BY <1>7, <2>1 DEF Calm
  <2>4. After(e) => After(e)'
    BY <1>7, <2>1, <2>2 DEF After
  <2>5. Before(e) => Before(e)'
    <3>1. Before(e) => local[e] = t
      BY <1>2 DEF Before
    <3> QED BY <1>7, <2>1, <3>1 DEF Before
  <2>6. linked'[e] # NULL => scheduled_on'[linked'[e]] \in {NO_CPU, e}
    BY <1>1, <1>7 DEF Follows, QueueTypes
  <2> QED BY <1>1, <2>1, <2>3, <2>4, <2>5, <2>6 DEF Follows
<1>9. ASSUME NEW d \in CPU \ {e} PROVE Follows(d)'
  <2>1. /\ linked'[d] = linked[d] /\ curr'[d] = curr[d] /\ Follows(d)
        /\ curr[d] # t
    BY <1>1, <1>6, <1>7
  <2>2. /\ <<"cpu", d>> \in tif' <=> <<"cpu", d>> \in tif
        /\ Current(d) \in tif => Current(d) \in tif'
        /\ Current(d)' = Current(d)
    BY <1>3, <2>1 DEF Current
  <2>3. linked[d] # NULL => scheduled_on'[linked[d]] \in {NO_CPU, d}
    BY <1>1, <1>6, <1>7 DEF Follows, QueueTypes
  <2>4. CASE local[d] # t
    <3>1. local'[d] = local[d]
      BY <1>7, <2>4
    <3>2. local[d] \in present' /\ flags'[local[d]] = "RUNNING" => Runnable(local[d])
      BY <1>1, <1>3, <1>7, <2>4 DEF Runnable, StackTypes
    <3> QED BY <1>3, <2>1, <2>2, <2>3, <3>1, <3>2, FollowsKept
  <2>5. CASE local[d] = t
    <3>1. local'[d] = NULL
      BY <1>7, <2>5
    <3>2. ~Taken(d) /\ Before(d)
      BY <1>6, <2>1, <2>5 DEF Follows, After
    <3>3. ~Taken(d)' /\ (Switching(d)' <=> Switching(d))
      BY <1>3, <3>2 DEF Taken, Ticking, Switching
    <3>4. Before(d)'
      BY <1>2, <1>3, <2>1, <2>2, <2>5, <3>1, <3>2, <3>3 DEF Before
    <3>5. Calm(d)'
      BY <1>3, <2>1, <2>2 DEF Follows, Calm, Ticking, Switching, Open
    <3> QED BY <1>3, <2>1, <2>3, <3>3, <3>4, <3>5 DEF Follows
  <2> QED BY <2>4, <2>5
<1> QED BY <1>1, <1>4, <1>8, <1>9 DEF Following

\* A processor enters schedule(), or a task completes its job.
LEMMA FollowingEnter ==
  ASSUME SupportedUse, IInv, CaughtUp, Plain, Following, NEW c \in CPU,
         schedule(c) \/ complete_job(c)
  PROVE  Following'
<1>1. /\ CPU' = CPU /\ TickTypes /\ StackTypes /\ Settled /\ NULL \notin Task
      /\ setup.completing \subseteq Task
      /\ \A d \in CPU : Follows(d)
      /\ \A d \in CPU : curr[c] # NULL /\ curr[c] = curr[d] => c = d
  BY SameCPU, PlainFacts DEF schedule, complete_job
<1>2. /\ UNCHANGED <<setup, now, taskVars, linked, local, loaded, scheduled_on, curr, cur,
                     next, was_running, ipi>>
      /\ Open(c)
  BY DEF schedule, complete_job
<1>3. phase'[c] = "sched" /\ \A d \in CPU \ {c} : phase'[d] = phase[d]
  BY <1>1 DEF schedule, complete_job, enter, TickTypes
<1>4. \A u : u \in present /\ flags'[u] = "RUNNING" => flags[u] = "RUNNING"
  BY <1>1 DEF schedule, complete_job, StackTypes
<1>5. /\ tif' \subseteq tif /\ Current(c) \notin tif'
      /\ \A x : x # Current(c) /\ x \in tif => x \in tif'
  BY DEF schedule, complete_job
<1>6. curr[c] = NULL => <<"cpu", c>> \in tif
  BY <1>1 DEF schedule, complete_job, Current
<1>7. <<"cpu", c>> \notin tif'
  BY <1>1, <1>5 DEF Follows, Calm, Current
<1>8. Follows(c)'
  <2>1. ~Switching(c)' /\ ~Open(c)' /\ ~Ticking(c)' /\ ~Ticking(c)
    BY <1>2, <1>3 DEF Switching, Open, Ticking
  <2>2. Taken(c)' <=> Taken(c)
    BY <1>2, <2>1 DEF Taken
  <2>3. Calm(c)'
    BY <1>3, <1>7, <2>1 DEF Calm
  <2>4. After(c) => After(c)'
    BY <1>2, <2>1 DEF After
  <2>5. Before(c) => Before(c)'
    BY <1>2, <1>6, <2>1 DEF Before
  <2> QED BY <1>1, <1>2, <1>3, <2>2, <2>3, <2>4, <2>5 DEF Follows
<1>9. ASSUME NEW d \in CPU \ {c} PROVE Follows(d)'
  <2>1. Current(d) # Current(c)
    BY <1>1 DEF Current
  <2>2. local[d] \in present' /\ flags'[local[d]] = "RUNNING" => Runnable(local[d])
    BY <1>2, <1>4 DEF Runnable
  <2>3. Follows(d) /\ (linked[d] # NULL => scheduled_on'[linked[d]] \in {NO_CPU, d})
    BY <1>1, <1>2 DEF Follows
  <2> QED BY <1>2, <1>3, <1>5, <2>1, <2>2, <2>3, FollowsKept
<1> QED BY <1>1, <1>2, <1>8, <1>9 DEF Following, Settled

\* Before its tick, a processor picks what it executes or nothing; after it, its
\* assignment, which is scheduled nowhere else.
LEMMA FollowingPick ==
  ASSUME SupportedUse, IInv, CaughtUp, Plain, Following, NEW c \in CPU, pfair_schedule(c)
  PROVE  Following'
<1>1. /\ CPU' = CPU /\ TickTypes /\ StackTypes /\ QueueTypes /\ Settled /\ NULL \notin Task
      /\ \A d \in CPU : Follows(d)
      /\ \A e, d \in CPU : linked[e] # NULL /\ linked[e] = linked[d] => e = d
  BY SameCPU, PlainFacts DEF pfair_schedule
<1>2. /\ UNCHANGED <<setup, now, taskVars, flags, linked, local, loaded, curr, cur, sigVars>>
      /\ phase[c] = "sched"
  BY DEF pfair_schedule
<1>3. PICK n \in Task \cup {NULL} :
        n = IF local[c] # NULL /\ safe_to_schedule(local[c], c) THEN local[c] ELSE NULL
  BY <1>1 DEF TickTypes
<1>4. /\ next'[c] = n /\ phase'[c] \in {"wait", "switch"}
      /\ \A d \in CPU \ {c} : phase'[d] = phase[d] /\ next'[d] = next[d]
      /\ curr[c] \in running => c \in was_running'
      /\ \A d \in CPU \ {c} : d \in was_running => d \in was_running'
      /\ \A u \in Task : scheduled_on'[u] = IF curr[c] = n THEN scheduled_on[u]
                                            ELSE IF u = n THEN c
                                            ELSE IF u = curr[c] THEN NO_CPU
                                            ELSE scheduled_on[u]
  BY <1>1, <1>3 DEF pfair_schedule, TickTypes, StackTypes
<1>5. Switching(c)' /\ ~Open(c)' /\ ~Ticking(c)' /\ ~Ticking(c)
  BY <1>2, <1>4 DEF Switching, Open, Ticking
<1>6. Taken(c)' <=> Taken(c)
  BY <1>2, <1>5 DEF Taken
<1>7. <<"cpu", c>> \notin tif
  BY <1>1, <1>2 DEF Follows, Calm, Open, Ticking
<1>8. Calm(c)'
  <2>1. curr[c] # NULL => curr[c] \in running
    BY <1>1 DEF Settled, StackTypes
  <2> QED BY <1>2, <1>4, <1>5, <1>7, <2>1 DEF Calm
<1>9. Taken(c) => n = local[c] \/ (n = NULL /\ ~Runnable(local[c]))
  <2> SUFFICES ASSUME Taken(c) PROVE n = local[c] \/ (n = NULL /\ ~Runnable(local[c]))
    OBVIOUS
  <2>1. local[c] = linked[c] /\ (linked[c] # NULL => scheduled_on[linked[c]] \in {NO_CPU, c})
    BY <1>1 DEF Follows, After
  <2> QED BY <1>3, <2>1 DEF safe_to_schedule, Runnable
<1>10. Taken(c) => After(c)'
  BY <1>1, <1>2, <1>4, <1>5, <1>9 DEF Follows, After, Serves, Runnable
<1>11. ~Taken(c) => n \in {curr[c], NULL}
  BY <1>1, <1>2, <1>3 DEF Follows, Before
<1>12. ~Taken(c) => Before(c)'
  BY <1>1, <1>2, <1>4, <1>7, <1>11 DEF Follows, Before
<1>13. \A d \in CPU : linked[d] # NULL => scheduled_on'[linked[d]] \in {NO_CPU, d}
  <2> SUFFICES ASSUME NEW d \in CPU, NEW u \in Task, linked[d] = u
               PROVE  scheduled_on'[u] \in {NO_CPU, d}
    BY <1>1 DEF QueueTypes
  <2>1. scheduled_on[u] \in {NO_CPU, d}
    BY <1>1 DEF Follows
  <2>2. u = n /\ curr[c] # n => c = d
    <3> SUFFICES ASSUME u = n, curr[c] # n PROVE c = d
      OBVIOUS
    <3>1. Taken(c) /\ n # NULL
      BY <1>1, <1>11
    <3>2. n = linked[c]
      BY <1>1, <1>9, <3>1 DEF Follows, After
    <3> QED BY <1>1, <3>1, <3>2
  <2> QED BY <1>4, <2>1, <2>2
<1>14. Follows(c)'
  BY <1>2, <1>4, <1>6, <1>8, <1>10, <1>12, <1>13 DEF Follows
<1>15. \A d \in CPU \ {c} : Follows(d)'
  BY <1>1, <1>2, <1>4, <1>13, FollowsKept DEF Runnable
<1> QED BY <1>1, <1>2, <1>14, <1>15 DEF Following, Settled

LEMMA FollowingMigrate ==
  ASSUME SupportedUse, IInv, CaughtUp, Plain, Following, NEW c \in CPU, migrate(c)
  PROVE  Following'
<1>1. /\ CPU' = CPU /\ TickTypes /\ StackTypes /\ Settled /\ NULL \notin Task
      /\ Execution(c) /\ \A d \in CPU : Follows(d)
  BY SameCPU, PlainFacts DEF migrate
<1>2. /\ UNCHANGED <<setup, now, taskVars, linked, local, loaded, scheduled_on, curr, cur,
                     was_running>>
      /\ phase[c] = "wait"
  BY DEF migrate
<1>3. ~(curr[c] \in rt \cap running /\ c \notin was_running)
  BY <1>1, <1>2 DEF Follows, Calm, Switching, StackTypes
<1>4. UNCHANGED <<flags, sigVars>>
  BY <1>3 DEF migrate
<1>5. next[c] \in rt \cap running
  BY <1>1, <1>2 DEF Execution
<1>6. /\ phase'[c] = "switch" /\ next'[c] = next[c]
      /\ \A d \in CPU \ {c} : phase'[d] = phase[d] /\ next'[d] = next[d]
  BY <1>1, <1>5 DEF migrate, TickTypes, StackTypes
<1>7. /\ Switching(c) /\ Switching(c)' /\ ~Open(c) /\ ~Open(c)' /\ ~Ticking(c) /\ ~Ticking(c)'
  BY <1>2, <1>6 DEF Switching, Open, Ticking
<1>8. Follows(c)'
  <2>1. Taken(c)' <=> Taken(c)
    BY <1>2, <1>7 DEF Taken
  <2>2. Calm(c)'
    BY <1>1, <1>2, <1>4, <1>6, <1>7 DEF Follows, Calm
  <2>3. After(c) => After(c)'
    BY <1>2, <1>4, <1>6, <1>7 DEF After, Serves, Runnable
  <2>4. Before(c) => Before(c)'
    BY <1>2, <1>4, <1>6, <1>7 DEF Before
  <2> QED BY <1>1, <1>2, <1>6, <2>1, <2>2, <2>3, <2>4 DEF Follows
<1>9. \A d \in CPU \ {c} : Follows(d)'
  BY <1>1, <1>2, <1>4, <1>6, FollowsKept DEF Follows, Runnable
<1> QED BY <1>1, <1>2, <1>4, <1>8, <1>9 DEF Following, Settled

LEMMA FollowingSwitch ==
  ASSUME SupportedUse, IInv, CaughtUp, Plain, Following, NEW c \in CPU, finish_switch(c)
  PROVE  Following'
<1>1. /\ CPU' = CPU /\ TickTypes /\ StackTypes /\ Settled
      /\ \A d \in CPU : Follows(d)
  BY SameCPU, PlainFacts DEF finish_switch
<1>2. /\ UNCHANGED <<setup, now, taskVars, flags, linked, local, loaded, scheduled_on, cur,
                     sigVars>>
      /\ phase[c] = "switch"
  BY DEF finish_switch
<1>3. /\ phase'[c] = "run" /\ curr'[c] = next[c]
      /\ \A d \in CPU \ {c} : phase'[d] = phase[d] /\ next'[d] = next[d] /\ curr'[d] = curr[d]
      /\ \A d \in CPU \ {c} : d \in was_running => d \in was_running'
  BY <1>1 DEF finish_switch, TickTypes, StackTypes
<1>4. /\ Switching(c) /\ ~Switching(c)' /\ ~Open(c) /\ Open(c)' /\ ~Ticking(c) /\ ~Ticking(c)'
  BY <1>2, <1>3 DEF Switching, Open, Ticking
<1>5. <<"cpu", c>> \notin tif
  BY <1>1, <1>4 DEF Follows, Calm
<1>6. Follows(c)'
  <2>1. Taken(c)' <=> Taken(c)
    BY <1>2, <1>4 DEF Taken
  <2>2. Calm(c)'
    BY <1>2, <1>3, <1>4, <1>5 DEF Calm
  <2>3. After(c) => After(c)'
    BY <1>2, <1>3, <1>4 DEF After, Serves, Runnable
  <2>4. Before(c) => Before(c)'
    BY <1>2, <1>3, <1>4, <1>5 DEF Before
  <2> QED BY <1>1, <1>2, <1>3, <2>1, <2>2, <2>3, <2>4 DEF Follows
<1>7. \A d \in CPU \ {c} : Follows(d)'
  BY <1>1, <1>2, <1>3, FollowsKept DEF Follows, Runnable
<1> QED BY <1>1, <1>2, <1>6, <1>7 DEF Following, Settled

\* The clock waits until all is quiet.
LEMMA FollowingClock ==
  ASSUME SupportedUse, IInv, CaughtUp, Plain, Following, clock
  PROVE  Following'
<1>1. /\ CPU' = CPU /\ TickTypes /\ Settled /\ ~setup.lag
      /\ \A d \in CPU : Follows(d)
  BY SameCPU, PlainFacts DEF clock
<1>2. /\ UNCHANGED <<setup, taskVars, flags, linked, local, loaded, scheduled_on, curr, cur,
                     phase, next, was_running, sigVars>>
      /\ now' = now + 1
  BY DEF clock
<1>3. ASSUME NEW d \in CPU PROVE Follows(d)'
  <2>1. phase[d] = "run" /\ cur[d] = now /\ Current(d) \notin tif
    BY <1>1 DEF clock, Quiet, Open
  <2>2. Taken(d) /\ ~Ticking(d) /\ ~Switching(d) /\ Open(d)
    BY <2>1 DEF Taken, Ticking, Switching, Open
  <2>3. ~Taken(d)' /\ ~Ticking(d)' /\ ~Switching(d)' /\ Open(d)'
    BY <1>1, <1>2, <2>1 DEF Taken, Ticking, Switching, Open, TickTypes
  <2>4. Calm(d)'
    BY <1>1, <1>2, <2>1, <2>3 DEF Follows, Calm
  <2>5. curr[d] \in {local[d], NULL}
    BY <1>1, <2>1, <2>2 DEF Follows, After, Serves
  <2>6. Before(d)'
    BY <1>2, <2>1, <2>3, <2>5 DEF Before, Current
  <2> QED BY <1>1, <1>2, <2>1, <2>3, <2>4, <2>6 DEF Follows
<1> QED BY <1>1, <1>2, <1>3 DEF Following, Settled

\* No step changes the system.
LEMMA SameSetup ==
  ASSUME [Next]_vars
  PROVE  setup' = setup
<1>1. ASSUME NEW c \in CPU, tick(c) \/ Tick(c) PROVE setup' = setup
  BY <1>1 DEF Tick, tick, exchange, catchup, advance_subtasks, schedule_subtasks, announce,
              load_linked, store_local
<1>2. ASSUME NEW t \in Task, NEW e \in CPU,
             task_new(t, e) \/ task_exit(t, e) \/ wake(t, e) \/ release_at(t, e)
      PROVE  setup' = setup
  BY <1>2 DEF task_new, task_exit, wake, release_at
<1>3. ASSUME NEW c \in CPU, release_ts(c) \/ release_ts_end(c) \/ reschedule_interrupt(c)
      PROVE  setup' = setup
  BY <1>3 DEF release_ts, release_ts_end, reschedule_interrupt
<1>4. ASSUME NEW c \in CPU,
             \/ schedule(c) \/ complete_job(c) \/ block(c) \/ pfair_schedule(c)
             \/ migrate(c) \/ finish_switch(c)
      PROVE  setup' = setup
  BY <1>4 DEF schedule, complete_job, block, pfair_schedule, migrate, finish_switch
<1>5. ASSUME clock PROVE setup' = setup
  BY <1>5 DEF clock
<1>6. CASE UNCHANGED vars
  BY <1>6 DEF vars
<1>7. CASE Next
  BY <1>1, <1>2, <1>3, <1>4, <1>5, <1>7 DEF Next, Handler, Schedule
<1> QED BY <1>6, <1>7

\* In a plain system, every step keeps assignments and execution together.
LEMMA FollowingStep ==
  ASSUME SupportedUse, IInv, CaughtUp, Plain, Following, [Next]_vars
  PROVE  Plain' /\ Following'
<1>1. /\ Settled /\ Stacks /\ StackTypes /\ NULL \notin Task
      /\ \A t \in Task : sync[t] # "wait"
      /\ \A d \in CPU : Follows(d)
      /\ setup.blocking = {} /\ setup.synched = {} /\ setup.tasks = {}
  BY PlainFacts DEF Plain
<1>2. setup' = setup
  BY SameSetup
<1>3. Plain'
  BY <1>2 DEF Plain
<1>4. ASSUME NEW t \in Task, NEW e \in CPU
      PROVE  ~task_new(t, e) /\ ~wake(t, e) /\ ~release_at(t, e)
  BY <1>1 DEF task_new, wake, release_at, Settled
<1>5. ASSUME NEW c \in CPU
      PROVE  ~release_ts(c) /\ ~release_ts_end(c) /\ ~reschedule_interrupt(c) /\ ~block(c)
  BY <1>1 DEF release_ts, release_ts_end, reschedule_interrupt, block, Settled, Follows, Calm
<1>6. ASSUME NEW c \in CPU, tick(c) \/ Tick(c) PROVE Following'
  BY <1>6, FollowingTick, FollowingAdvance, FollowingLink, FollowingStore DEF Tick
<1>7. ASSUME Handler PROVE Following'
  BY <1>4, <1>5, <1>7, FollowingExit DEF Handler
<1>8. ASSUME Schedule PROVE Following'
  BY <1>5, <1>8, FollowingEnter, FollowingPick, FollowingMigrate, FollowingSwitch DEF Schedule
<1>9. ASSUME clock PROVE Following'
  BY <1>9, FollowingClock
<1>10. CASE UNCHANGED vars
  <2>1. UNCHANGED <<setup, now, taskVars, flags, linked, local, loaded, scheduled_on, curr,
                    cur, phase, next, was_running, sigVars>>
    BY <1>10 DEF vars
  <2>2. CPU' = CPU
    BY <1>2, SameCPU
  <2>3. \A d \in CPU : Follows(d)'
    BY <1>1, <2>1, FollowsKept DEF Follows, Runnable
  <2> QED BY <1>1, <1>3, <2>1, <2>2, <2>3 DEF Following, Settled
<1>11. CASE Next
  BY <1>3, <1>6, <1>7, <1>8, <1>9, <1>11 DEF Next
<1> QED BY <1>10, <1>11

\* Assignments reach the processors: where no task arrives or wakes up and no
\* processor is late, every processor executes what is linked to it once the
\* quantum has settled, whichever processor prepares it and in whatever order the
\* others copy it, reschedule, complete jobs and leave.
THEOREM AssignmentsDelivered ==
  ASSUME SupportedUse
  PROVE  Spec => []QuantumDelivered
<1>1. Init => (Plain => IInv /\ CaughtUp /\ Following)
  <2> SUFFICES ASSUME Init PROVE Following
    BY InitInv, InitCaughtUp
  <2>1. Settled
    BY DEF Init, Settled
  <2>2. ASSUME NEW c \in CPU PROVE Follows(c)
    <3>1. /\ phase[c] = "run" /\ cur[c] = now /\ local[c] = NULL /\ linked[c] = NULL
          /\ curr[c] = NULL /\ tif = {}
      BY <2>2 DEF Init
    <3>2. Taken(c) /\ ~Ticking(c) /\ ~Switching(c)
      BY <3>1 DEF Taken, Ticking, Switching
    <3> QED BY <3>1, <3>2 DEF Follows, Calm, After, Serves
  <2> QED BY <2>1, <2>2 DEF Following
<1>2. (Plain => IInv /\ CaughtUp /\ Following) /\ [Next]_vars
        => (Plain => IInv /\ CaughtUp /\ Following)'
  <2> SUFFICES ASSUME Plain => IInv /\ CaughtUp /\ Following, [Next]_vars, Plain'
               PROVE  IInv' /\ CaughtUp' /\ Following'
    OBVIOUS
  <2>1. Plain /\ IInv /\ CaughtUp /\ Following
    BY SameSetup DEF Plain
  <2>2. InTime
    BY <2>1, ClockWaits DEF Plain, TicksInTime
  <2> QED BY <2>1, <2>2, NextStep, CaughtUpStep, FollowingStep
<1>3. (Plain => IInv /\ CaughtUp /\ Following) => QuantumDelivered
  <2> SUFFICES ASSUME Plain, Following, \A c \in CPU : Quiet(c),
                      NEW c \in CPU, linked[c] \in present, flags[linked[c]] = "RUNNING"
               PROVE  curr[c] = linked[c]
    BY DEF QuantumDelivered, Delivered
  <2>1. phase[c] = "run" /\ cur[c] = now /\ Current(c) \notin tif
    BY DEF Quiet, Open
  <2>2. Taken(c) /\ Open(c)
    BY <2>1 DEF Taken, Ticking, Open
  <2>3. After(c)
    BY <2>2 DEF Following, Follows
  <2> QED BY <2>1, <2>2, <2>3 DEF After, Serves, Runnable
<1> QED BY <1>1, <1>2, <1>3, PTL DEF Spec
=============================================================================
