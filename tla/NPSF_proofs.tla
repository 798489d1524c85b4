---------------------------- MODULE NPSF_proofs ----------------------------
(***************************************************************************)
(* Proofs about NPS-F, for any number of tasks and processors, any servers *)
(* that sys_add_server() accepts and whose reserves are WellFormed, and    *)
(* any mixture of tasks.                                                   *)
(***************************************************************************)
EXTENDS NPSF, WellFoundedInduction, TLAPS

USE DEF taskVars, jobVars, queueVars, ownerVars, timeVars, switchVars, schedVars, sigVars

-----------------------------------------------------------------------------
(* Servers and reserves                                                    *)

\* A non-empty set of numbers has a least element.
LEMMA Least ==
  ASSUME NEW S \in SUBSET Nat, S # {}
  PROVE  \E x \in S : \A y \in S : x <= y
<1>1. PICK x \in S : \A y \in S : ~(<<y, x>> \in OpToRel(<, Nat))
  BY NatLessThanWellFounded, WFMin
<1>2. ASSUME NEW y \in S PROVE x <= y
  <2>1. ~(y < x)
    BY <1>1 DEF OpToRel
  <2> QED BY <2>1
<1> QED BY <1>2

\* Min is that element.
LEMMA MinIsLeast ==
  ASSUME NEW S \in SUBSET Nat, S # {}
  PROVE  Min(S) \in S /\ \A y \in S : Min(S) <= y
<1>1. \E x \in S : \A y \in S : x <= y
  BY Least
<1> QED BY <1>1 DEF Min

\* The types of the chosen system.
LEMMA SetupTyped ==
  ASSUME setup \in Setups
  PROVE  /\ setup.slot \in Nat \ {0} /\ setup.tasks \in SUBSET Task /\ setup.end \in Nat
         /\ setup.flag \in BOOLEAN
         /\ setup.servers \in Seq([id : Nat, budgets : Seq([cpu : CPU, budget : Nat]) \ {<<>>}])
BY ConstantsAssumption

\* Every server has reserves.
LEMMA BudgetsTyped ==
  ASSUME setup \in Setups, NEW s \in Ids
  PROVE  /\ budgets(s) \in Seq([cpu : CPU, budget : Nat]) /\ budgets(s) # <<>>
         /\ s \in Nat /\ DOMAIN budgets(s) = 1 .. Len(budgets(s)) /\ Len(budgets(s)) \in Nat \ {0}
<1> DEFINE R == [cpu : CPU, budget : Nat]
           V == [id : Nat, budgets : Seq(R) \ {<<>>}]
<1>1. setup.servers \in Seq(V)
  BY SetupTyped
<1>2. PICK i \in DOMAIN setup.servers : setup.servers[i].id = s
  BY DEF Ids
<1>3. PICK k \in DOMAIN setup.servers : setup.servers[k].id = s /\ budgets(s) = setup.servers[k].budgets
  BY <1>2 DEF budgets
<1> HIDE DEF R
<1>4. setup.servers[k] \in V
  <2> HIDE DEF V
  <2> QED BY <1>1, <1>3
<1>5. budgets(s) \in Seq(R) /\ budgets(s) # <<>> /\ s \in Nat
  BY <1>3, <1>4
<1>6. DOMAIN budgets(s) = 1 .. Len(budgets(s)) /\ Len(budgets(s)) \in Nat \ {0}
  BY <1>5
<1> QED BY <1>5, <1>6 DEF R

\* The processor to which a server is passed on exists.
LEMMA ReserveTyped ==
  ASSUME setup \in Setups, NEW c \in CPU, NEW s \in npsf_reserves(c)
  PROVE  /\ s \in Ids /\ s \in Nat /\ budget(s, c) \in Nat
         /\ first_reserve(s) \in CPU /\ next_npsf(s, c) \in CPU
<1> DEFINE R == [cpu : CPU, budget : Nat]
           b == budgets(s)
           k == position(s, c)
<1>1. s \in Ids /\ \E i \in DOMAIN b : b[i].cpu = c
  BY DEF npsf_reserves
<1>2. b \in Seq(R) /\ s \in Nat /\ DOMAIN b = 1 .. Len(b) /\ Len(b) \in Nat \ {0}
  BY <1>1, BudgetsTyped
<1>3. k \in 1 .. Len(b)
  BY <1>1, <1>2 DEF position
<1> HIDE DEF k, b, R
<1>4. \A i \in 1 .. Len(b) : b[i] \in R
  BY <1>2
<1>5. 1 \in 1 .. Len(b) /\ (k % Len(b)) + 1 \in 1 .. Len(b)
  <2>1. k \in Nat /\ k % Len(b) \in 0 .. (Len(b) - 1)
    BY <1>2, <1>3
  <2> QED BY <1>2, <2>1
<1>6. \A i \in 1 .. Len(b) : b[i].cpu \in CPU /\ b[i].budget \in Nat
  BY <1>4 DEF R
<1> QED BY <1>1, <1>2, <1>3, <1>5, <1>6 DEF budget, first_reserve, next_npsf, k, b

\* The end of a reserve is a number.
LEMMA EndTyped ==
  ASSUME setup \in Setups, NEW c \in CPU, NEW s \in Nat
  PROVE  reservation_end(c, s) \in Nat
<1> DEFINE b(i) == IF i \in npsf_reserves(c) THEN budget(i, c) ELSE 0
           Sum(k, g) == g = [i \in 0 .. k |-> b(i) + (IF i = 0 THEN 0 ELSE g[i - 1])]
           f == CHOOSE g : Sum(s, g)
<1>1. \A i \in Nat : b(i) \in Nat
  BY ReserveTyped
<1>2. reservation_end(c, s) = f[s]
  BY DEF reservation_end
<1> HIDE DEF b
<1>3. \E g : Sum(s, g)
  <2> DEFINE Bad == {k \in Nat : ~\E g : Sum(k, g)}
  <2> SUFFICES ASSUME Bad # {} PROVE FALSE
    OBVIOUS
  <2>0. Bad \in SUBSET Nat /\ \A k \in Nat : k \in Bad <=> ~\E g : Sum(k, g)
    OBVIOUS
  <2> HIDE DEF Bad
  <2>1. PICK k \in Bad : k \in Nat /\ \A j \in Bad : k <= j
    BY <2>0, Least
  <2>2. CASE k = 0
    <3> DEFINE g == [i \in 0 .. 0 |-> b(0)]
    <3>1. b(0) + 0 = b(0)
      BY <1>1
    <3>2. Sum(0, g)
      BY <3>1
    <3> QED BY <2>0, <2>1, <2>2, <3>2
  <2>3. CASE k # 0
    <3>1. k - 1 \in Nat /\ k - 1 \notin Bad
      BY <2>1, <2>3
    <3>2. PICK h : Sum(k - 1, h)
      BY <2>0, <3>1
    <3> DEFINE g == [i \in 0 .. k |-> IF i = k THEN b(k) + h[k - 1] ELSE h[i]]
    <3>3. ASSUME NEW i \in 0 .. k PROVE g[i] = b(i) + (IF i = 0 THEN 0 ELSE g[i - 1])
      <4>1. CASE i = k
        <5>1. g[i - 1] = h[k - 1] /\ i # 0
          BY <2>1, <2>3, <4>1
        <5> QED BY <4>1, <5>1
      <4>2. CASE i # k
        <5>1. i \in 0 .. (k - 1) /\ g[i] = h[i] /\ h[i] = b(i) + (IF i = 0 THEN 0 ELSE h[i - 1])
          BY <2>1, <3>2, <4>2
        <5>2. i # 0 => g[i - 1] = h[i - 1]
          BY <2>1, <4>2
        <5> QED BY <5>1, <5>2
      <4> QED BY <4>1, <4>2
    <3>4. Sum(k, g)
      BY <3>3
    <3> QED BY <2>0, <2>1, <3>4
  <2> QED BY <2>2, <2>3
<1>4. Sum(s, f)
  BY <1>3
<1> HIDE DEF f
<1>5. \A i \in 0 .. s : f[i] = b(i) + (IF i = 0 THEN 0 ELSE f[i - 1])
  BY <1>4
<1>6. f[s] \in Nat
  <2> DEFINE Bad == {i \in 0 .. s : f[i] \notin Nat}
  <2> SUFFICES ASSUME Bad # {} PROVE FALSE
    OBVIOUS
  <2>1. Bad \in SUBSET Nat
    OBVIOUS
  <2>2. PICK k \in Bad : \A j \in Bad : k <= j
    BY <2>1, Least
  <2>3. k = 0 \/ (k - 1 \in 0 .. s /\ f[k - 1] \in Nat)
    BY <2>2
  <2> QED BY <1>1, <1>5, <2>2, <2>3
<1> QED BY <1>2, <1>6

\* There is always a reserve to serve, and a time for the next timer.
LEMMA CurrentReserve ==
  ASSUME setup \in Setups, now \in Nat, WellFormed, NEW c \in CPU
  PROVE  /\ get_current_reserve(c) \in npsf_reserves(c)
         /\ get_next_reserve_switch_time(c) \in Nat
<1> DEFINE q == now \div setup.slot
           off == now - slot_begin(now)
           S == {s \in npsf_reserves(c) : reservation_end(c, s) > off}
<1>1. setup.slot \in Nat \ {0}
  BY SetupTyped
<1>2. slot_begin(now) \in Nat /\ off < setup.slot
  <2>1. q \in Nat /\ now = q * setup.slot + (now % setup.slot) /\ now % setup.slot \in 0 .. (setup.slot - 1)
    <3>1. ASSUME NEW a \in Nat, NEW n \in Nat \ {0}
          PROVE  a \div n \in Nat /\ a = (a \div n) * n + (a % n) /\ a % n \in 0 .. (n - 1)
      OBVIOUS
    <3> QED BY <1>1, <3>1
  <2>2. slot_begin(now) = q * setup.slot
    BY DEF slot_begin
  <2>3. q * setup.slot \in Nat
    BY <1>1, <2>1
  <2> HIDE DEF q
  <2> QED BY <1>1, <2>1, <2>2, <2>3
<1> HIDE DEF off
<1>3. PICK s \in npsf_reserves(c) : reservation_end(c, s) = setup.slot
  BY DEF WellFormed
<1>4. s \in S
  BY <1>1, <1>2, <1>3
<1>5. npsf_reserves(c) \in SUBSET Nat /\ S \in SUBSET Nat
  BY ReserveTyped
<1>6. get_current_reserve(c) \in npsf_reserves(c)
  <2>1. Min(S) \in S
    BY <1>4, <1>5, MinIsLeast
  <2> QED BY <2>1 DEF get_current_reserve, get_reserve_for_offset, off
<1>7. ASSUME NEW r \in npsf_reserves(c) PROVE local_next_reserve(r, c) \in npsf_reserves(c)
  <2> DEFINE L == {x \in npsf_reserves(c) : x > r}
  <2>1. L \in SUBSET Nat
    BY <1>5
  <2>2. L # {} => Min(L) \in L
    BY <2>1, MinIsLeast
  <2>3. Min(npsf_reserves(c)) \in npsf_reserves(c)
    BY <1>3, <1>5, MinIsLeast
  <2> QED BY <2>2, <2>3 DEF local_next_reserve
<1> DEFINE r == get_current_reserve(c)
           u == local_next_reserve(r, c)
<1>8. reservation_end(c, r) \in Nat /\ budget(u, c) \in Nat
  BY <1>5, <1>6, <1>7, EndTyped, ReserveTyped
<1>9. get_next_reserve_switch_time(c)
        = slot_begin(now) + reservation_end(c, r) + (IF first_reserve(u) # c THEN budget(u, c) ELSE 0)
  BY DEF get_next_reserve_switch_time
<1> HIDE DEF r, u
<1> QED BY <1>2, <1>6, <1>8, <1>9 DEF r

-----------------------------------------------------------------------------
(* Priorities and the queues of a server                                   *)

Job == [release : Nat, deadline : Nat]

\* Higher priority is a strict order of the tasks.
LEMMA EdfOrder ==
  ASSUME NEW js \in [Task -> Job]
  PROVE  /\ \A a, b \in Task : edf_higher_prio(js, a, b) => ~edf_higher_prio(js, b, a)
         /\ \A a, b \in Task : a = b \/ edf_higher_prio(js, a, b) \/ edf_higher_prio(js, b, a)
         /\ \A a, b, d \in Task :
              edf_higher_prio(js, a, b) /\ edf_higher_prio(js, b, d) => edf_higher_prio(js, a, d)
         /\ \A a \in Task : edf_higher_prio(js, a, NULL)
<1>1. \A a \in Task : js[a].deadline \in Nat
  BY DEF Job
<1>2. Task \subseteq Nat /\ NULL \notin Task
  BY ConstantsAssumption
<1> QED BY <1>1, <1>2 DEF edf_higher_prio

\* __take_ready() takes the task of highest priority.
LEMMA TakeReady ==
  ASSUME NEW js \in [Task -> Job], NEW Q \in SUBSET Task, Q # {}
  PROVE  /\ take_ready(js, Q) \in Q
         /\ \A u \in Q \ {take_ready(js, Q)} : edf_higher_prio(js, take_ready(js, Q), u)
         /\ \A u \in Q : ~edf_higher_prio(js, u, take_ready(js, Q))
<1>1. Task \subseteq Nat /\ NULL \notin Task /\ \A a \in Task : js[a].deadline \in Nat
  BY ConstantsAssumption DEF Job
<1> DEFINE D == {js[t].deadline : t \in Q}
<1>2. PICK d \in D : \A e \in D : d <= e
  <2>1. D \in SUBSET Nat /\ D # {}
    BY <1>1
  <2> QED BY <2>1, Least
<1> DEFINE P == {t \in Q : js[t].deadline = d}
<1>3. PICK p \in P : \A q \in P : p <= q
  <2>1. P \in SUBSET Nat /\ P # {}
    BY <1>1, <1>2
  <2> QED BY <2>1, Least
<1>4. \A u \in Q \ {p} : edf_higher_prio(js, p, u)
  BY <1>1, <1>2, <1>3 DEF edf_higher_prio
<1>5. take_ready(js, Q) \in Q /\ \A u \in Q \ {take_ready(js, Q)} : edf_higher_prio(js, take_ready(js, Q), u)
  BY <1>3, <1>4 DEF take_ready
<1> QED BY <1>5, EdfOrder DEF edf_higher_prio

\* What npsf_reschedule_server() does to a server: nothing is lost, the first
\* task becomes highest_prio, and the processor that owns the server is
\* told of a change if it serves.
Rescheduled(s, js, Q, hp, on) ==
  /\ ready' \in [Ids -> SUBSET Task] /\ highest_prio' \in [Ids -> Task \cup {NULL}]
  /\ \A r \in Ids : r # s => ready'[r] = ready[r] /\ highest_prio'[r] = highest_prio[r]
  /\ \A t \in Task : t \in ready'[s] \/ highest_prio'[s] = t <=> t \in Q \/ hp = t
  /\ highest_prio'[s] \notin ready'[s]
  /\ ~edf_preemption_needed(js, ready'[s], highest_prio'[s])
  /\ highest_prio'[s] # hp => edf_preemption_needed(js, Q, hp) /\ highest_prio'[s] # NULL
  /\ preempt(highest_prio'[s] # hp /\ <<s, curr_reserve[s]>> \in is_currently_scheduled,
             curr_reserve[s], on)

\* npsf_reschedule_server() does this.
LEMMA Reschedule ==
  ASSUME NEW s \in Ids, NEW js \in [Task -> Job], NEW Q \in SUBSET Task,
         NEW hp \in Task \cup {NULL}, hp \notin Q, NEW on,
         ready \in [Ids -> SUBSET Task], highest_prio \in [Ids -> Task \cup {NULL}],
         reschedule_server(s, js, Q, hp, on)
  PROVE  Rescheduled(s, js, Q, hp, on)
<1>1. NULL \notin Task
  BY ConstantsAssumption
<1>2. PICK need \in BOOLEAN : need = edf_preemption_needed(js, Q, hp)
  BY DEF edf_preemption_needed, edf_higher_prio
<1>3. PICK first : first = take_ready(js, Q)
  OBVIOUS
<1>4. /\ ready' = [ready EXCEPT ![s] = IF need THEN (Q \cup {hp}) \ {first, NULL} ELSE Q]
      /\ highest_prio' = [highest_prio EXCEPT ![s] = IF need THEN first ELSE hp]
      /\ preempt(need /\ <<s, curr_reserve[s]>> \in is_currently_scheduled, curr_reserve[s], on)
  BY <1>2, <1>3 DEF reschedule_server
<1>5. /\ ready'[s] = IF need THEN (Q \cup {hp}) \ {first, NULL} ELSE Q
      /\ highest_prio'[s] = IF need THEN first ELSE hp
      /\ \A r \in Ids : r # s => ready'[r] = ready[r] /\ highest_prio'[r] = highest_prio[r]
  BY <1>4
<1>6. CASE need
  <2>1. Q # {}
    BY <1>2, <1>6 DEF edf_preemption_needed
  <2>2. /\ first \in Q /\ first \in Task /\ first # hp
        /\ \A u \in Q : ~edf_higher_prio(js, u, first)
        /\ \A u \in Q \ {first} : edf_higher_prio(js, first, u)
    BY <1>3, <2>1, TakeReady
  <2>3. PICK u \in Q : edf_higher_prio(js, u, hp)
    BY <1>2, <1>6 DEF edf_preemption_needed
  <2>4. hp \in Task => ~edf_higher_prio(js, hp, first)
    <3>1. CASE u = first
      BY <2>2, <2>3, <3>1, EdfOrder
    <3>2. CASE u # first
      BY <2>2, <2>3, <3>2, EdfOrder
    <3> QED BY <3>1, <3>2
  <2>5. ~edf_preemption_needed(js, ready'[s], highest_prio'[s])
    <3> SUFFICES ASSUME NEW x \in ready'[s] PROVE ~edf_higher_prio(js, x, first)
      BY <1>5, <1>6 DEF edf_preemption_needed
    <3> QED BY <1>5, <1>6, <2>2, <2>4
  <2>6. ready' \in [Ids -> SUBSET Task] /\ highest_prio' \in [Ids -> Task \cup {NULL}]
    BY <1>4, <1>6, <2>2
  <2>7. \A t \in Task : t \in ready'[s] \/ highest_prio'[s] = t <=> t \in Q \/ hp = t
    BY <1>1, <1>5, <1>6, <2>2
  <2>8. (highest_prio'[s] # hp) = need
    BY <1>5, <1>6, <2>2
  <2> QED BY <1>1, <1>2, <1>4, <1>5, <1>6, <2>2, <2>5, <2>6, <2>7, <2>8 DEF Rescheduled
<1>7. CASE ~need
  <2>1. ready' \in [Ids -> SUBSET Task] /\ highest_prio' \in [Ids -> Task \cup {NULL}]
    BY <1>4, <1>7
  <2>2. ready'[s] = Q /\ highest_prio'[s] = hp
    BY <1>5, <1>7
  <2>3. (highest_prio'[s] # hp) = need
    BY <1>7, <2>2
  <2>4. \A t \in Task : t \in ready'[s] \/ highest_prio'[s] = t <=> t \in Q \/ hp = t
    BY <2>2
  <2>5. ~edf_preemption_needed(js, ready'[s], highest_prio'[s])
    BY <1>2, <1>7, <2>2
  <2> QED BY <1>4, <1>5, <2>1, <2>2, <2>3, <2>4, <2>5 DEF Rescheduled
<1> QED BY <1>6, <1>7

\* The same when highest_prio has gone.
LEMMA RescheduleEmpty ==
  ASSUME NEW s \in Ids, job \in [Task -> Job], NEW on,
         ready \in [Ids -> SUBSET Task], highest_prio \in [Ids -> Task \cup {NULL}],
         reschedule_server(s, job, ready[s], NULL, on)
  PROVE  /\ ready' \in [Ids -> SUBSET Task] /\ highest_prio' \in [Ids -> Task \cup {NULL}]
         /\ \A r \in Ids : r # s => ready'[r] = ready[r] /\ highest_prio'[r] = highest_prio[r]
         /\ \A t \in Task : t \in ready'[s] \/ highest_prio'[s] = t <=> t \in ready[s]
         /\ highest_prio'[s] \notin ready'[s]
         /\ ~edf_preemption_needed(job, ready'[s], highest_prio'[s])
         /\ preempt(highest_prio'[s] # NULL /\ <<s, curr_reserve[s]>> \in is_currently_scheduled,
                    curr_reserve[s], on)
<1>1. PICK hp \in Task \cup {NULL} : hp = NULL
  OBVIOUS
<1>2. PICK Q \in SUBSET Task : Q = ready[s]
  OBVIOUS
<1>3. hp \notin Q /\ NULL \notin Task
  BY <1>1, ConstantsAssumption
<1>4. PICK js \in [Task -> Job] : js = job
  OBVIOUS
<1>5. reschedule_server(s, js, Q, hp, on)
  BY <1>1, <1>2, <1>4
<1>6. Rescheduled(s, js, Q, hp, on)
  BY <1>3, <1>5, Reschedule
<1> QED BY <1>1, <1>2, <1>3, <1>4, <1>6 DEF Rescheduled

-----------------------------------------------------------------------------
(* Consequences of the invariant                                           *)

\* A task is runnable unless its block and wake-up are being simulated.
LEMMA RunnableIs ==
  /\ \A t : t \in Runnable <=> t \in rt /\ t \in running /\ \A c \in CPU : phase[c] = "resim" => curr[c] # t
  /\ \A t : t \in Runnable' <=> t \in rt' /\ t \in running' /\ \A c \in CPU : phase'[c] = "resim" => curr'[c] # t
BY DEF Runnable

\* No task executes on two processors or is picked by two.
LEMMA OneProcessor ==
  ASSUME IInv
  PROVE  /\ \A c, d \in CPU : curr[c] = curr[d] /\ curr[c] # NULL => c = d
         /\ \A c, d \in CPU : Chosen(c) /\ Chosen(d) /\ next[c] = next[d] /\ next[c] # NULL => c = d
         /\ \A c \in CPU : curr[c] # NULL => curr[c] \in Task /\ curr[c] \in rt /\ task_cpu[curr[c]] = c
         /\ \A c, d \in CPU : cpu_reserve[c] = cpu_reserve[d] => c = d
<1>1. NO_CPU \notin CPU
  BY ConstantsAssumption
<1>2. \A c, d \in CPU : cpu_reserve[c] = cpu_reserve[d] => c = d
  BY DEF IInv, Hosted, ServesOwned
<1>3. \A c \in CPU : curr[c] # NULL => curr[c] \in Task /\ curr[c] \in rt /\ stack_in_use[curr[c]] = c
  BY DEF IInv, Executing, TypeOK
<1>4. \A c \in CPU : curr[c] # NULL => task_cpu[curr[c]] = c
  BY <1>1, <1>3 DEF IInv, Executing
<1>5. \A c, d \in CPU : Chosen(c) /\ Chosen(d) /\ next[c] = next[d] /\ next[c] # NULL => c = d
  BY <1>2 DEF IInv, Picked, PickedAt
<1> QED BY <1>2, <1>3, <1>4, <1>5

\* The types of the queues and tasks.
LEMMA Typed ==
  ASSUME IInv
  PROVE  /\ setup \in Setups /\ NULL \notin Task /\ NO_CPU \notin CPU /\ NULL \notin Ids
         /\ job \in [Task -> Job]
         /\ ready \in [Ids -> SUBSET Task] /\ relq \in [Ids -> SUBSET Task]
         /\ highest_prio \in [Ids -> Task \cup {NULL}]
         /\ \A t \in rt : t \in Task /\ Server[t] \in Ids
         /\ \A c \in CPU : cpu_reserve[c] \in Ids
<1>1. \A s \in Ids : s \in Nat
  BY BudgetsTyped DEF IInv, TypeOK
<1> QED BY <1>1, ConstantsAssumption DEF IInv, TypeOK, Located, Job

\* A server without highest_prio has no task of a processor that picked from it.
LEMMA NothingToRun ==
  ASSUME TypeOK, Located, Ordered, Picked, NEW c \in CPU, Chosen(c), next[c] # NULL,
         highest_prio[cpu_reserve[c]] = NULL
  PROVE  next[c] \notin Runnable
<1>1. Server[next[c]] = cpu_reserve[c] /\ next[c] \notin relq[cpu_reserve[c]] /\ next[c] \in Task
  BY DEF Picked, PickedAt, TypeOK
<1>2. cpu_reserve[c] \in Ids
  BY DEF TypeOK
<1>3. next[c] \notin ready[cpu_reserve[c]]
  BY <1>2 DEF Ordered, edf_preemption_needed, edf_higher_prio
<1> QED BY <1>1, <1>3, ConstantsAssumption DEF Located

\* The servers are there to stay.
LEMMA SetupKept ==
  ASSUME setup' = setup
  PROVE  /\ Ids' = Ids
         /\ \A s : budgets(s)' = budgets(s)
         /\ \A c : npsf_reserves(c)' = npsf_reserves(c)
         /\ WellFormed' <=> WellFormed
<1>1. Ids' = Ids
  BY DEF Ids
<1>2. \A s : budgets(s)' = budgets(s)
  BY DEF budgets
<1>3. \A c : npsf_reserves(c)' = npsf_reserves(c)
  BY <1>1, <1>2 DEF npsf_reserves
<1>4. \A s, c : budget(s, c)' = budget(s, c)
  BY <1>2 DEF budget, position
<1>5. \A s, c : reservation_end(c, s)' = reservation_end(c, s)
  BY <1>3, <1>4 DEF reservation_end
<1>6. \A c : Min(npsf_reserves(c))' = Min(npsf_reserves(c))
  BY <1>3
<1> QED BY <1>1, <1>2, <1>3, <1>4, <1>5, <1>6 DEF WellFormed

-----------------------------------------------------------------------------
(* What is enough to keep the parts of the invariant                       *)

\* The owners stay what they are in a step that serves and hands over nothing.
LEMMA HostedKept ==
  ASSUME Hosted, setup' = setup, curr_reserve' = curr_reserve, cpu_reserve' = cpu_reserve,
         \A c \in CPU : phase'[c] \in {"swap", "notify"} => phase'[c] = phase[c] /\ other'[c] = other[c]
  PROVE  Hosted'
<1>1. WellFormed' /\ \A c \in CPU : npsf_reserves(c)' = npsf_reserves(c)
  BY SetupKept DEF Hosted
<1>2. ServesOwned'
  BY DEF Hosted, ServesOwned
<1>3. \A c \in CPU : npsf_reserves(c) = npsf_reserves(c)'
  BY <1>1
<1> QED BY <1>1, <1>2, <1>3 DEF Hosted

\* A step that changes no task, no job and no queue.
LEMMA QueuesSame ==
  ASSUME TypeOK, Located, Ordered, setup' = setup, rt' = rt, running' = running, job' = job,
         ready' = ready, relq' = relq, highest_prio' = highest_prio,
         \A c \in CPU : phase'[c] = "resim" <=> phase[c] = "resim",
         \A c \in CPU : phase[c] = "resim" => curr'[c] = curr[c],
         now' \in Nat, now <= now'
  PROVE  Located' /\ Ordered'
<1>1. Ids' = Ids
  BY SetupKept
<1>2. Runnable' = Runnable
  BY DEF Runnable
<1>3. Located'
  BY <1>1, <1>2 DEF Located
<1>4. \A t \in rt : job[t].release \in Nat
  BY DEF TypeOK
<1>5. \A s \in Ids : ~edf_preemption_needed(job, ready[s], highest_prio[s])'
  BY DEF Ordered, edf_preemption_needed, edf_higher_prio
<1>6. \A t \in rt' : t \in relq'[Server[t]] \/ job'[t].release <= now'
  BY <1>4 DEF Ordered, TypeOK
<1> QED BY <1>1, <1>3, <1>5, <1>6 DEF Ordered

\* A step that changes the queues of server s.
LEMMA QueuesKept ==
  ASSUME TypeOK, Located, Ordered, NEW s \in Ids, setup' = setup, now' = now, NULL \notin Task,
         \A r \in Ids : r # s => ready'[r] = ready[r] /\ relq'[r] = relq[r] /\ highest_prio'[r] = highest_prio[r],
         \A t \in Task : Server[t] # s => (t \in Runnable' <=> t \in Runnable) /\ job'[t] = job[t]
                                            /\ (t \in rt' => t \in rt),
         \A t \in Task : t \in ready'[s] \/ t \in relq'[s] \/ highest_prio'[s] = t
                           <=> t \in Runnable' /\ Server[t] = s,
         \A t \in Task : ~(t \in ready'[s] /\ t \in relq'[s]),
         highest_prio'[s] \notin ready'[s], highest_prio'[s] \notin relq'[s],
         rt' \in SUBSET Task, Task \ rt' \subseteq running',
         ready'[s] \in SUBSET Task,
         ~edf_preemption_needed(job', ready'[s], highest_prio'[s]),
         \A t \in rt' : Server[t] = s => t \in relq'[s] \/ job'[t].release <= now
  PROVE  Located' /\ Ordered'
<1>1. Ids' = Ids
  BY SetupKept
<1>2. \A t \in rt' : Server[t] \in Ids
  BY DEF Located
<1>3. \A t \in Runnable' : t \in rt'
  BY DEF Runnable
<1>4. ASSUME NEW t \in Task, NEW r \in Ids
      PROVE  /\ t \in ready'[r] \/ t \in relq'[r] \/ highest_prio'[r] = t => t \in Runnable' /\ Server[t] = r
             /\ ~(t \in ready'[r] /\ t \in relq'[r])
             /\ highest_prio'[r] = t => t \notin ready'[r] /\ t \notin relq'[r]
  <2>1. CASE r = s
    BY <2>1
  <2>2. CASE r # s
    BY <2>2 DEF Located
  <2> QED BY <2>1, <2>2
<1>5. ASSUME NEW t \in Runnable'
      PROVE  t \in ready'[Server[t]] \/ t \in relq'[Server[t]] \/ highest_prio'[Server[t]] = t
  <2>1. t \in Task /\ Server[t] \in Ids
    BY <1>2, <1>3
  <2>2. CASE Server[t] = s
    BY <2>1, <2>2
  <2>3. CASE Server[t] # s
    BY <2>1, <2>3 DEF Located
  <2> QED BY <2>2, <2>3
<1>6. Located'
  BY <1>1, <1>2, <1>4, <1>5 DEF Located
<1>7. ASSUME NEW r \in Ids PROVE ~edf_preemption_needed(job', ready'[r], highest_prio'[r])
  <2>1. CASE r = s
    BY <2>1
  <2>2. CASE r # s
    <3>1. ready'[r] = ready[r] /\ highest_prio'[r] = highest_prio[r]
      BY <2>2
    <3>2. \A t \in ready[r] : t \in Task /\ Server[t] = r
      BY DEF Located, TypeOK
    <3>3. highest_prio[r] # NULL => highest_prio[r] \in Task /\ Server[highest_prio[r]] = r
      BY DEF Located, TypeOK
    <3>4. \A t \in ready[r] : ~edf_higher_prio(job, t, highest_prio[r])
      BY DEF Ordered, edf_preemption_needed
    <3>5. \A t \in ready[r] : job'[t] = job[t]
      BY <2>2, <3>2
    <3>6. highest_prio[r] # NULL => job'[highest_prio[r]] = job[highest_prio[r]]
      BY <2>2, <3>3
    <3>7. \A t \in ready[r] : ~edf_higher_prio(job', t, highest_prio[r])
      BY <3>4, <3>5, <3>6 DEF edf_higher_prio
    <3> QED BY <3>1, <3>7 DEF edf_preemption_needed
  <2> QED BY <2>1, <2>2
<1>8. ASSUME NEW t \in rt' PROVE t \in relq'[Server[t]] \/ job'[t].release <= now'
  <2>1. t \in Task /\ Server[t] \in Ids
    BY <1>2
  <2>2. CASE Server[t] = s
    BY <2>2
  <2>3. CASE Server[t] # s
    BY <2>1, <2>3 DEF Ordered
  <2> QED BY <2>2, <2>3
<1>9. \A r \in Ids' : ~edf_preemption_needed(job', ready'[r], highest_prio'[r])
  BY <1>1, <1>7
<1>10. Ordered'
  BY <1>8, <1>9 DEF Ordered
<1> QED BY <1>6, <1>10

\* A step that executes and migrates the same tasks and adds none to a release queue.
LEMMA ExecutingKept ==
  ASSUME Executing, curr' = curr, stack_in_use' = stack_in_use, task_cpu' = task_cpu,
         \A c \in CPU : curr[c] # NULL => curr[c] \in rt',
         \A c \in CPU : curr[c] # NULL /\ curr[c] \in relq'[Server[curr[c]]] =>
           /\ curr[c] \in relq[Server[curr[c]]]
           /\ phase'[c] = phase[c] /\ was_running'[c] = was_running[c],
         \A c \in CPU : phase'[c] = "resim" => curr[c] \in rt' \cap running'
  PROVE  Executing'
BY DEF Executing

\* A processor that keeps what it has picked, and the picked task is as before.
LEMMA PickedKept ==
  ASSUME NEW d \in CPU, PickedAt(d), phase'[d] = phase[d], next'[d] = next[d], cpu_reserve'[d] = cpu_reserve[d],
         Chosen(d) /\ next[d] # NULL =>
           /\ next[d] \in relq'[cpu_reserve[d]] => next[d] \in relq[cpu_reserve[d]]
           /\ task_cpu'[next[d]] = task_cpu[next[d]]
           /\ task_cpu[next[d]] = d /\ next[d] \in rt \cap running => next[d] \in rt' \cap running'
           /\ phase[d] \in {"resim", "attach"} =>
                stack_in_use'[next[d]] \in {stack_in_use[next[d]], NO_CPU}
  PROVE  PickedAt(d)'
BY DEF PickedAt, Chosen, Migrating

\* Processor d has the right task while e changes the queues of server s and the
\* job of task x: a new highest_prio reaches the owner of the server unless the
\* last task leaves it.
LEMMA OthersFollow ==
  ASSUME IInv, NEW e \in CPU, NEW d \in CPU, d # e, NEW s, NEW x,
         setup' = setup, cpu_reserve'[d] = cpu_reserve[d], phase'[d] = phase[d], next'[d] = next[d],
         curr'[d] = curr[d],
         <<cpu_reserve[d], d>> \in is_currently_scheduled' <=> <<cpu_reserve[d], d>> \in is_currently_scheduled,
         d \in ipi => d \in ipi',
         phase[d] = "run" /\ Current(d) \in tif => Current(d) \in tif',
         \A u \in Task : u # x => job'[u] = job[u],
         phase[d] = "resim" => x # curr[d] /\ ~(x = next[d] /\ x = highest_prio[cpu_reserve[d]]),
         \A r \in Ids : r # s => highest_prio'[r] = highest_prio[r],
         \/ highest_prio'[s] = highest_prio[s]
         \/ <<s, curr_reserve[s]>> \in is_currently_scheduled => curr_reserve[s] \in ipi' \cup {e}
         \/ highest_prio'[s] = NULL /\ highest_prio[s] = curr[e] /\ curr[e] # NULL
  PROVE  FollowsAt(d)'
<1>1. FollowsAt(d) /\ PickedAt(d) /\ curr_reserve[cpu_reserve[d]] = d /\ cpu_reserve[d] \in Ids
  BY DEF IInv, Follows, Picked, Hosted, ServesOwned, TypeOK
<1>2. Current(d)' = Current(d) /\ (Unaware(d)' <=> Unaware(d))
  BY DEF Current, Unaware
<1>3. WillSchedule(d) => WillSchedule(d)'
  BY <1>2 DEF WillSchedule
<1>4. phase[d] \notin {"swap", "back"} /\ setup.flag => <<cpu_reserve[d], d>> \in is_currently_scheduled
  BY <1>1 DEF FollowsAt
<1>5. CASE d \in ipi'
  BY <1>4, <1>5 DEF FollowsAt, WillSchedule
<1>6. CASE Unaware(d)
  BY <1>2, <1>4, <1>6 DEF FollowsAt
<1>7. CASE phase[d] \in {"swap", "back"}
  BY <1>4, <1>7 DEF FollowsAt, Chosen
<1>8. CASE d \notin ipi' /\ ~Unaware(d) /\ highest_prio'[cpu_reserve[d]] = highest_prio[cpu_reserve[d]]
  <2>1. phase'[d] = "run" => curr'[d] = highest_prio'[cpu_reserve'[d]] \/ WillSchedule(d)'
    BY <1>1, <1>3, <1>8 DEF FollowsAt
  <2>2. ASSUME Chosen(d)'
        PROVE  highest_prio'[cpu_reserve'[d]] = next'[d]
                 \/ (highest_prio'[cpu_reserve'[d]] = NULL /\ phase'[d] # "switch")
    BY <1>1, <1>8, <2>2 DEF FollowsAt, Chosen
  <2>3. ASSUME phase'[d] = "resim", Server[curr'[d]] = cpu_reserve'[d]
        PROVE  highest_prio'[cpu_reserve'[d]] = next'[d] /\ ~edf_higher_prio(job', curr'[d], next'[d])
    <3>1. highest_prio[cpu_reserve[d]] = next[d] /\ ~edf_higher_prio(job, curr[d], next[d])
      BY <1>1, <1>8, <2>3 DEF FollowsAt
    <3>2. curr[d] \in rt /\ next[d] # NULL
      BY <1>1, <2>3 DEF IInv, Executing, PickedAt, Migrating
    <3>3. curr[d] \in Task /\ next[d] \in Task
      BY <3>2 DEF IInv, TypeOK
    <3>4. job'[curr[d]] = job[curr[d]] /\ job'[next[d]] = job[next[d]]
      BY <2>3, <3>1, <3>3
    <3> QED BY <1>8, <3>1, <3>4 DEF edf_higher_prio
  <2> QED BY <1>4, <2>1, <2>2, <2>3 DEF FollowsAt
<1>9. CASE d \notin ipi' /\ ~Unaware(d) /\ phase[d] \notin {"swap", "back"}
             /\ highest_prio'[cpu_reserve[d]] # highest_prio[cpu_reserve[d]]
  <2>1. s = cpu_reserve[d]
    BY <1>1, <1>9
  <2>2. <<s, d>> \in is_currently_scheduled
    BY <1>4, <1>9, <2>1, SetupTyped DEF Unaware, IInv, TypeOK
  <2>3. highest_prio'[s] = NULL /\ highest_prio[s] = curr[e] /\ curr[e] # NULL
    BY <1>1, <1>9, <2>1, <2>2
  <2>4. curr[e] # curr[d] /\ task_cpu[curr[e]] = e /\ stack_in_use[curr[e]] = e /\ NO_CPU \notin CPU
    BY <2>3, OneProcessor, ConstantsAssumption DEF IInv, Executing
  <2>5. phase'[d] = "run" => WillSchedule(d)'
    BY <1>1, <1>3, <1>9, <2>1, <2>3, <2>4 DEF FollowsAt
  <2>6. next[d] = curr[e] => phase[d] \notin {"switch", "resim"}
    BY <1>1, <2>3, <2>4 DEF PickedAt, Chosen
  <2>7. phase[d] # "switch"
    BY <1>1, <1>9, <2>1, <2>3, <2>6 DEF FollowsAt, Chosen
  <2>8. ~(phase[d] = "resim" /\ Server[curr[d]] = cpu_reserve[d])
    BY <1>1, <1>9, <2>1, <2>3, <2>6 DEF FollowsAt
  <2> QED BY <1>4, <2>1, <2>3, <2>5, <2>7, <2>8 DEF FollowsAt
<1> QED BY <1>5, <1>6, <1>7, <1>8, <1>9

-----------------------------------------------------------------------------
(* Steps that change neither servers nor tasks                             *)

\* An interrupt or the clock, or a processor enters schedule().
LEMMA QuietStep ==
  ASSUME IInv, TypeOK',
         UNCHANGED <<setup, taskVars, job, queueVars, ownerVars, switchVars, other, next, was_running, panic>>,
         now <= now',
         \A d \in CPU :
           \/ /\ phase'[d] = phase[d]
              /\ phase[d] # "run" /\ d \in ipi => d \in ipi'
              /\ phase[d] = "run" /\ WillSchedule(d) => WillSchedule(d)'
           \/ phase[d] = "run" /\ phase'[d] = "sched"
  PROVE  IInv'
<1>1. now' \in Nat /\ setup \in Setups
  BY DEF IInv, TypeOK
<1>2. Hosted'
  BY HostedKept DEF IInv
<1>3. Located' /\ Ordered'
  BY <1>1, QueuesSame DEF IInv
<1>4. Executing'
  <2>1. \A c \in CPU : curr[c] # NULL => curr[c] \in rt
    BY DEF IInv, Executing
  <2>2. \A c \in CPU : curr[c] # NULL /\ curr[c] \in relq[Server[curr[c]]] => phase'[c] = phase[c]
    BY DEF IInv, Executing
  <2>3. \A c \in CPU : phase'[c] = "resim" => curr[c] \in rt \cap running
    BY DEF IInv, Executing
  <2> QED BY <2>1, <2>2, <2>3, ExecutingKept DEF IInv
<1>5. ASSUME NEW d \in CPU PROVE PickedAt(d)'
  <2>1. PickedAt(d)
    BY DEF IInv, Picked
  <2>2. CASE phase'[d] = phase[d]
    BY <2>1, <2>2, PickedKept
  <2>3. CASE phase'[d] = "sched"
    BY <2>3 DEF PickedAt, Chosen, Migrating
  <2> QED BY <2>2, <2>3
<1>6. ASSUME NEW d \in CPU PROVE FollowsAt(d)'
  <2>1. FollowsAt(d)
    BY DEF IInv, Follows
  <2>2. CASE phase[d] = "run" /\ phase'[d] = "sched"
    BY <2>1, <2>2 DEF FollowsAt, Chosen
  <2>3. CASE phase'[d] = phase[d] /\ (phase[d] # "run" /\ d \in ipi => d \in ipi')
             /\ (phase[d] = "run" /\ WillSchedule(d) => WillSchedule(d)')
    <3>1. Unaware(d)' <=> Unaware(d)
      BY DEF Unaware
    <3> QED BY <2>1, <2>3, <3>1 DEF FollowsAt, Chosen, edf_higher_prio
  <2> QED BY <2>2, <2>3
<1> QED BY <1>2, <1>3, <1>4, <1>5, <1>6 DEF IInv, Picked, Follows

\* Preempting oneself, or entering schedule(), is such a step.
LEMMA InterruptInv ==
  ASSUME IInv, NEW c \in CPU, reserve_switch_tick(c) \/ tick(c) \/ reschedule_interrupt(c)
  PROVE  IInv'
<1>1. Current(c) \in Task \cup CPU
  BY DEF IInv, TypeOK, Current
<1>2. \A d \in CPU : Current(d)' = Current(d)
  BY DEF Current, reserve_switch_tick, tick, reschedule_interrupt
<1>3. CASE reserve_switch_tick(c)
  <2>1. get_next_reserve_switch_time(c) \in Nat
    BY CurrentReserve DEF IInv, TypeOK, Hosted
  <2>2. TypeOK'
    BY <1>1, <1>3, <2>1, SetupKept DEF reserve_switch_tick, IInv, TypeOK
  <2>3. now <= now'
    BY <1>3 DEF reserve_switch_tick, IInv, TypeOK
  <2>4. \A d \in CPU : WillSchedule(d) => WillSchedule(d)'
    BY <1>2, <1>3 DEF reserve_switch_tick, WillSchedule
  <2> QED BY <1>3, <2>2, <2>3, <2>4, QuietStep DEF reserve_switch_tick
<1>4. CASE tick(c)
  <2>1. curr[c] \in Task
    BY <1>4, ConstantsAssumption DEF tick
  <2>2. TypeOK'
    BY <1>4, <2>1, SetupKept DEF tick, IInv, TypeOK
  <2>3. now <= now'
    BY <1>4 DEF tick, IInv, TypeOK
  <2>4. \A d \in CPU : WillSchedule(d) => WillSchedule(d)'
    BY <1>2, <1>4 DEF tick, WillSchedule
  <2> QED BY <1>4, <2>2, <2>3, <2>4, QuietStep DEF tick
<1>5. CASE reschedule_interrupt(c)
  <2>2. TypeOK'
    BY <1>1, <1>5, SetupKept DEF reschedule_interrupt, IInv, TypeOK
  <2>3. now <= now'
    BY <1>5 DEF reschedule_interrupt, IInv, TypeOK
  <2>4. \A d \in CPU : WillSchedule(d) => WillSchedule(d)'
    BY <1>2, <1>5 DEF reschedule_interrupt, WillSchedule
  <2>5. \A d \in CPU : phase[d] # "run" /\ d \in ipi => d \in ipi'
    BY <1>5 DEF reschedule_interrupt, Open
  <2> QED BY <1>5, <2>2, <2>3, <2>4, <2>5, QuietStep DEF reschedule_interrupt
<1> QED BY <1>3, <1>4, <1>5

\* The passing of time.
LEMMA ClockInv ==
  ASSUME IInv, clock
  PROVE  IInv'
<1>1. TypeOK' /\ now <= now'
  BY SetupKept DEF clock, IInv, TypeOK
<1>2. \A d \in CPU : WillSchedule(d) => WillSchedule(d)'
  BY DEF clock, WillSchedule, Current
<1> QED BY <1>1, <1>2, QuietStep DEF clock

\* A processor enters schedule().
LEMMA EnterInv ==
  ASSUME IInv, NEW c \in CPU, schedule(c) \/ complete_job(c)
  PROVE  IInv'
<1>1. now <= now'
  BY DEF schedule, complete_job, IInv, TypeOK
<1>2. phase'[c] = "sched" /\ phase[c] = "run" /\ \A d \in CPU : d # c => phase'[d] = phase[d]
  BY DEF schedule, complete_job, enter, Open, IInv, TypeOK
<1>3. \A d \in CPU : Current(d) = Current(c) => d = c
  <2>1. \A d \in CPU : d \notin Task
    BY ConstantsAssumption
  <2> QED BY <2>1, OneProcessor DEF Current
<1>4. TypeOK'
  <2>1. CASE schedule(c)
    BY <2>1, SetupKept DEF schedule, enter, IInv, TypeOK
  <2>2. CASE complete_job(c)
    BY <2>2, SetupKept, ConstantsAssumption DEF complete_job, enter, IInv, TypeOK
  <2> QED BY <2>1, <2>2
<1>5. \A d \in CPU : d # c /\ WillSchedule(d) => WillSchedule(d)'
  BY <1>2, <1>3 DEF WillSchedule, Current, schedule, complete_job
<1>6. \A d \in CPU : d \in ipi => d \in ipi'
  BY DEF schedule, complete_job
<1>7. UNCHANGED <<setup, taskVars, job, queueVars, ownerVars, switchVars, other, next, was_running, panic>>
  BY DEF schedule, complete_job
<1> QED BY <1>1, <1>2, <1>4, <1>5, <1>6, <1>7, QuietStep

-----------------------------------------------------------------------------
(* Steps of schedule() that change no server                               *)

\* The other processors do not notice that c goes on.
LEMMA OthersUnaware ==
  ASSUME IInv, NEW c \in CPU,
         UNCHANGED <<setup, taskVars, job, queueVars>>,
         \A d \in CPU : d # c =>
           /\ phase'[d] = phase[d] /\ next'[d] = next[d] /\ curr'[d] = curr[d] /\ cpu_reserve'[d] = cpu_reserve[d]
           /\ <<cpu_reserve[d], d>> \in is_currently_scheduled' <=> <<cpu_reserve[d], d>> \in is_currently_scheduled
           /\ Current(d) \in tif => Current(d) \in tif',
         ipi \subseteq ipi'
  PROVE  \A d \in CPU : d # c => FollowsAt(d)'
<1> SUFFICES ASSUME NEW d \in CPU, d # c PROVE FollowsAt(d)'
  OBVIOUS
<1>1. phase[d] = "resim" => NULL # curr[d]
  <2>1. phase[d] = "resim" => curr[d] \in rt
    BY DEF IInv, Executing
  <2>2. NULL \notin rt
    BY Typed
  <2> QED BY <2>1, <2>2
<1>2. NULL # highest_prio[cpu_reserve[d]] \/ phase[d] # "resim" \/ NULL # next[d]
  BY DEF IInv, Picked, PickedAt, Migrating
<1> QED BY <1>1, <1>2, OthersFollow, ZenonT(40)

\* What c gets as highest_prio of its server is a task it may pick.
LEMMA HighestPrioTask ==
  ASSUME TypeOK, Located, NEW s \in Ids, highest_prio[s] # NULL
  PROVE  /\ highest_prio[s] \in Task /\ highest_prio[s] \in rt /\ highest_prio[s] \in running
         /\ Server[highest_prio[s]] = s /\ highest_prio[s] \notin relq[s] /\ highest_prio[s] \in Runnable
BY DEF TypeOK, Located, Runnable

\* c asks for an interrupt and will serve its previous reserve.
LEMMA RacedInv ==
  ASSUME IInv, NEW c \in CPU, raced(c)
  PROVE  IInv'
<1>1. /\ phase[c] = "swap" /\ phase'[c] = "back"
      /\ \A d \in CPU : d # c => phase'[d] = phase[d] /\ other'[d] = other[d]
  BY DEF raced, IInv, TypeOK
<1>2. Ids' = Ids /\ other[c] \in Ids
  BY <1>1, SetupKept, ReserveTyped DEF raced, IInv, Hosted, TypeOK
<1>3. TypeOK'
  BY <1>2 DEF raced, IInv, TypeOK
<1>4. Hosted'
  BY <1>1, HostedKept DEF raced, IInv
<1>5. Located' /\ Ordered'
  <2>1. \A d \in CPU : phase'[d] = "resim" <=> phase[d] = "resim"
    BY <1>1
  <2>2. now' \in Nat /\ now <= now'
    BY DEF raced, IInv, TypeOK
  <2> QED BY <2>1, <2>2, QueuesSame DEF raced, IInv
<1>6. Executing'
  BY <1>1 DEF raced, IInv, Executing
<1>7. ASSUME NEW d \in CPU PROVE PickedAt(d)'
  BY <1>1, PickedKept DEF raced, IInv, Picked, PickedAt, Chosen, Migrating
<1>8. FollowsAt(c)'
  BY <1>1 DEF FollowsAt, Chosen
<1>9. \A d \in CPU : d # c => FollowsAt(d)'
  BY <1>1, OthersUnaware DEF raced
<1>10. ~panic'
  BY DEF raced, IInv
<1> QED BY <1>3, <1>4, <1>5, <1>6, <1>7, <1>8, <1>9, <1>10 DEF IInv, Picked, Follows

\* c serves its previous reserve again.
LEMMA KeepReserveInv ==
  ASSUME IInv, NEW c \in CPU, keep_reserve(c)
  PROVE  IInv'
<1> DEFINE s == cpu_reserve[c]
           n == highest_prio[s]
<1>1. /\ phase[c] = "back" /\ next'[c] = n /\ was_running'[c] = (curr[c] \in running)
      /\ phase'[c] = IF n # NULL /\ task_cpu[n] # c THEN "wait" ELSE "switch"
      /\ \A d \in CPU : d # c => phase'[d] = phase[d] /\ next'[d] = next[d] /\ was_running'[d] = was_running[d]
  BY DEF keep_reserve, pick, IInv, TypeOK
<1>2. Ids' = Ids /\ s \in Ids
  BY SetupKept DEF keep_reserve, IInv, TypeOK
<1>3. n # NULL => n \in Task /\ n \in rt /\ n \in running /\ Server[n] = s /\ n \notin relq[s] /\ n \in Runnable
  BY <1>2, HighestPrioTask DEF IInv
<1>4. TypeOK'
  <2>1. next' \in [CPU -> Task \cup {NULL}] /\ was_running' \in [CPU -> BOOLEAN]
    BY <1>3 DEF keep_reserve, pick, IInv, TypeOK
  <2>2. flags' \in [Task -> {"RUNNING", "SLEEP"}]
    BY <1>3 DEF keep_reserve, pick, IInv, TypeOK
  <2>3. phase' \in [CPU -> {"run", "sched", "swap", "back", "notify", "wait", "resim", "attach", "switch"}]
    BY DEF keep_reserve, pick, IInv, TypeOK
  <2>4. is_currently_scheduled' \subseteq Ids \X CPU
    BY <1>2 DEF keep_reserve, IInv, TypeOK
  <2>5. UNCHANGED <<setup, now, rt, running, spent, job, ready, relq, highest_prio, curr_reserve, wants_ipi,
                    cpu_reserve, should_expire, curr, task_cpu, stack_in_use, other, tif, ipi, panic>>
    BY DEF keep_reserve
  <2> QED BY <1>2, <2>1, <2>2, <2>3, <2>4, <2>5 DEF IInv, TypeOK
<1>5. Hosted'
  BY <1>1, HostedKept DEF keep_reserve, IInv
<1>6. Located' /\ Ordered'
  <2>1. \A d \in CPU : phase'[d] = "resim" <=> phase[d] = "resim"
    BY <1>1
  <2>2. now' \in Nat /\ now <= now'
    BY DEF keep_reserve, IInv, TypeOK
  <2> QED BY <2>1, <2>2, QueuesSame DEF keep_reserve, IInv
<1>7. Executing'
  <2>1. \A d \in CPU : curr[d] # NULL => curr[d] \in rt /\ curr[d] \in Task /\ Server[curr[d]] \in Ids
    BY OneProcessor, Typed
  <2>2. curr[c] # NULL /\ curr[c] \in relq[Server[curr[c]]] => curr[c] \in running
    BY <2>1, RunnableIs DEF IInv, Located
  <2> QED BY <1>1, <2>2 DEF keep_reserve, IInv, Executing
<1>8. ASSUME NEW d \in CPU PROVE PickedAt(d)'
  <2>1. CASE d = c
    <3>1. next'[c] # NULL => Server[next'[c]] = s /\ next'[c] \notin relq'[s] /\ next'[c] \in rt' \cap running'
      BY <1>1, <1>3 DEF keep_reserve
    <3>2. cpu_reserve'[c] = s /\ phase'[c] \in {"wait", "switch"}
      BY <1>1 DEF keep_reserve
    <3>3. phase'[c] = "wait" <=> next'[c] # NULL /\ task_cpu'[next'[c]] # c
      BY <1>1 DEF keep_reserve
    <3> QED BY <2>1, <3>1, <3>2, <3>3 DEF PickedAt, Chosen, Migrating
  <2>2. CASE d # c
    BY <1>1, <2>2, PickedKept DEF keep_reserve, IInv, Picked
  <2> QED BY <2>1, <2>2
<1>9. FollowsAt(c)'
  BY <1>1 DEF keep_reserve, FollowsAt, Chosen
<1>10. \A d \in CPU : d # c => FollowsAt(d)'
  BY <1>1, OthersUnaware DEF keep_reserve
<1>11. ~panic'
  BY DEF keep_reserve, IInv
<1> QED BY <1>4, <1>5, <1>6, <1>7, <1>8, <1>9, <1>10, <1>11 DEF IInv, Picked, Follows

\* c serves the reserve that it owns.
LEMMA SwitchReserveInv ==
  ASSUME IInv, NEW c \in CPU, switch_reserve(c)
  PROVE  IInv'
<1> DEFINE s == cpu_reserve[c]
           r == other[c]
           n == highest_prio[r]
<1>1. /\ phase[c] = "swap" /\ next'[c] = n /\ phase'[c] = "notify" /\ cpu_reserve'[c] = r /\ other'[c] = s
      /\ curr_reserve[r] = c
      /\ \A d \in CPU : d # c => phase'[d] = phase[d] /\ next'[d] = next[d] /\ cpu_reserve'[d] = cpu_reserve[d]
                                   /\ other'[d] = other[d]
  BY DEF switch_reserve, IInv, TypeOK
<1>2. Ids' = Ids /\ s \in Ids /\ r \in Ids
  BY <1>1, SetupKept, ReserveTyped DEF switch_reserve, IInv, Hosted, TypeOK
<1>3. n # NULL => n \in Task /\ n \in rt /\ n \in running /\ Server[n] = r /\ n \notin relq[r] /\ n \in Runnable
  BY <1>2, HighestPrioTask DEF IInv
<1>4. TypeOK'
  <2>1. next' \in [CPU -> Task \cup {NULL}]
    BY <1>3 DEF switch_reserve, IInv, TypeOK
  <2>2. cpu_reserve' \in [CPU -> Ids] /\ other' \in [CPU -> Ids \cup {NULL}]
    BY <1>2 DEF switch_reserve, IInv, TypeOK
  <2>3. phase' \in [CPU -> {"run", "sched", "swap", "back", "notify", "wait", "resim", "attach", "switch"}]
    BY DEF switch_reserve, IInv, TypeOK
  <2>4. is_currently_scheduled' \subseteq Ids \X CPU
    BY <1>2 DEF switch_reserve, IInv, TypeOK
  <2>5. UNCHANGED <<setup, now, rt, running, spent, flags, job, ready, relq, highest_prio, curr_reserve, wants_ipi,
                    should_expire, curr, task_cpu, stack_in_use, was_running, tif, ipi, panic>>
    BY DEF switch_reserve
  <2> QED BY <1>2, <2>1, <2>2, <2>3, <2>4, <2>5 DEF IInv, TypeOK
<1>5. Hosted'
  <2>1. WellFormed' /\ \A d \in CPU : npsf_reserves(d)' = npsf_reserves(d)
    BY SetupKept DEF switch_reserve, IInv, Hosted
  <2>2. r \in npsf_reserves(c) /\ s \in npsf_reserves(c) /\ r # s /\ curr_reserve[s] = c
    BY <1>1 DEF IInv, Hosted, ServesOwned
  <2>3. curr_reserve' = curr_reserve
    BY DEF switch_reserve
  <2>4. \A d \in CPU : cpu_reserve'[d] \in npsf_reserves(d)
    BY <1>1, <2>2 DEF IInv, Hosted
  <2>5. ServesOwned'
    BY <1>1, <2>3 DEF IInv, Hosted, ServesOwned
  <2>6. ASSUME NEW d \in CPU, phase'[d] \in {"swap", "notify"}
        PROVE  /\ other'[d] \in npsf_reserves(d) /\ other'[d] # cpu_reserve'[d]
               /\ phase'[d] = "notify" => curr_reserve'[other'[d]] = d
    <3>1. CASE d = c
      BY <1>1, <2>2, <2>3, <3>1
    <3>2. CASE d # c
      BY <1>1, <2>3, <2>6, <3>2 DEF IInv, Hosted
    <3> QED BY <3>1, <3>2
  <2> QED BY <2>1, <2>4, <2>5, <2>6 DEF Hosted
<1>6. Located' /\ Ordered'
  <2>1. \A d \in CPU : phase'[d] = "resim" <=> phase[d] = "resim"
    BY <1>1
  <2>2. now' \in Nat /\ now <= now'
    BY DEF switch_reserve, IInv, TypeOK
  <2> QED BY <2>1, <2>2, QueuesSame DEF switch_reserve, IInv
<1>7. Executing'
  BY <1>1 DEF switch_reserve, IInv, Executing
<1>8. ASSUME NEW d \in CPU PROVE PickedAt(d)'
  <2>1. CASE d = c
    BY <1>1, <1>3, <2>1 DEF switch_reserve, PickedAt, Chosen, Migrating
  <2>2. CASE d # c
    BY <1>1, <2>2, PickedKept DEF switch_reserve, IInv, Picked
  <2> QED BY <2>1, <2>2
<1>9. FollowsAt(c)'
  BY <1>1 DEF switch_reserve, FollowsAt, Chosen
<1>10. \A d \in CPU : d # c => FollowsAt(d)'
  BY <1>1, OthersUnaware DEF switch_reserve
<1>11. ~panic'
  BY DEF switch_reserve, IInv
<1> QED BY <1>4, <1>5, <1>6, <1>7, <1>8, <1>9, <1>10, <1>11 DEF IInv, Picked, Follows

\* c passes its previous server on, if it is shared.
LEMMA NotifyInv ==
  ASSUME IInv, NEW c \in CPU, notify_next_cpu(c)
  PROVE  IInv'
<1> DEFINE p == other[c]
           n == next[c]
           succ == next_npsf(p, c)
<1>1. /\ phase[c] = "notify" /\ next' = next /\ was_running'[c] = (curr[c] \in running)
      /\ phase'[c] = IF n # NULL /\ task_cpu[n] # c THEN "wait" ELSE "switch"
      /\ \A d \in CPU : d # c => phase'[d] = phase[d] /\ was_running'[d] = was_running[d] /\ other'[d] = other[d]
  BY DEF notify_next_cpu, pick, IInv, TypeOK
<1>2. Ids' = Ids /\ p \in Ids /\ p \in npsf_reserves(c) /\ succ \in CPU /\ curr_reserve[p] = c /\ p # cpu_reserve[c]
  BY <1>1, SetupKept, ReserveTyped DEF notify_next_cpu, IInv, Hosted, TypeOK
<1>3. ipi \subseteq ipi' /\ tif \subseteq tif' /\ ipi' \subseteq CPU /\ tif' \subseteq Task \cup CPU
  <2>1. Current(c) \in Task \cup CPU
    BY DEF IInv, TypeOK, Current
  <2> QED BY <1>2, <2>1 DEF notify_next_cpu, preempt, On, IInv, TypeOK
<1>4. curr_reserve' \in [Ids -> CPU] /\ \A r \in Ids : r # p => curr_reserve'[r] = curr_reserve[r]
  BY <1>2 DEF notify_next_cpu, IInv, TypeOK
<1>5. n \in Task \cup {NULL}
  BY DEF IInv, TypeOK
<1>6. TypeOK'
  <2>1. was_running' \in [CPU -> BOOLEAN] /\ other' \in [CPU -> Ids \cup {NULL}]
    BY DEF notify_next_cpu, pick, IInv, TypeOK
  <2>2. flags' \in [Task -> {"RUNNING", "SLEEP"}]
    BY <1>5 DEF notify_next_cpu, pick, IInv, TypeOK
  <2>3. phase' \in [CPU -> {"run", "sched", "swap", "back", "notify", "wait", "resim", "attach", "switch"}]
    BY DEF notify_next_cpu, pick, IInv, TypeOK
  <2>4. wants_ipi' \subseteq Ids
    BY DEF notify_next_cpu, IInv, TypeOK
  <2>5. UNCHANGED <<setup, now, rt, running, spent, job, ready, relq, highest_prio, is_currently_scheduled,
                    cpu_reserve, should_expire, curr, task_cpu, stack_in_use, panic>>
    BY DEF notify_next_cpu
  <2> QED BY <1>1, <1>2, <1>3, <1>4, <2>1, <2>2, <2>3, <2>4, <2>5 DEF IInv, TypeOK
<1>7. Hosted'
  <2>1. WellFormed' /\ \A d \in CPU : npsf_reserves(d)' = npsf_reserves(d)
    BY SetupKept DEF notify_next_cpu, IInv, Hosted
  <2>2. cpu_reserve' = cpu_reserve
    BY DEF notify_next_cpu
  <2>3. \A d \in CPU : cpu_reserve[d] # p /\ cpu_reserve[d] \in Ids
    BY <1>2 DEF IInv, Hosted, ServesOwned, TypeOK
  <2>4. ServesOwned'
    BY <1>4, <2>2, <2>3 DEF IInv, Hosted, ServesOwned
  <2>5. ASSUME NEW d \in CPU, phase'[d] \in {"swap", "notify"}
        PROVE  /\ other'[d] \in npsf_reserves(d) /\ other'[d] # cpu_reserve'[d]
               /\ phase'[d] = "notify" => curr_reserve'[other'[d]] = d
    <3>1. d # c /\ phase'[d] = phase[d] /\ other'[d] = other[d]
      BY <1>1, <2>5
    <3>2. other[d] \in npsf_reserves(d) /\ other[d] # cpu_reserve[d]
            /\ (phase[d] = "notify" => curr_reserve[other[d]] = d)
      BY <2>5, <3>1 DEF IInv, Hosted
    <3>3. other[d] \in Ids
      BY <3>2, ReserveTyped DEF IInv, TypeOK
    <3> QED BY <1>2, <1>4, <2>2, <3>1, <3>2, <3>3
  <2>6. \A d \in CPU : cpu_reserve'[d] \in npsf_reserves(d)
    BY <2>2 DEF IInv, Hosted
  <2> QED BY <2>1, <2>4, <2>5, <2>6 DEF Hosted
<1>8. Located' /\ Ordered'
  <2>1. \A d \in CPU : phase'[d] = "resim" <=> phase[d] = "resim"
    BY <1>1
  <2>2. now' \in Nat /\ now <= now'
    BY DEF notify_next_cpu, IInv, TypeOK
  <2> QED BY <2>1, <2>2, QueuesSame DEF notify_next_cpu, IInv
<1>9. Executing'
  <2>1. \A d \in CPU : curr[d] # NULL => curr[d] \in rt /\ curr[d] \in Task /\ Server[curr[d]] \in Ids
    BY OneProcessor, Typed
  <2>2. curr[c] # NULL /\ curr[c] \in relq[Server[curr[c]]] => curr[c] \in running
    BY <2>1, RunnableIs DEF IInv, Located
  <2> QED BY <1>1, <2>2 DEF notify_next_cpu, IInv, Executing
<1>10. ASSUME NEW d \in CPU PROVE PickedAt(d)'
  <2>1. PickedAt(d)
    BY DEF IInv, Picked
  <2>2. CASE d = c
    <3>1. n # NULL => Server[n] = cpu_reserve[c] /\ n \notin relq[cpu_reserve[c]]
                        /\ (task_cpu[n] = c => n \in rt \cap running)
      BY <1>1, <2>1, <2>2 DEF PickedAt, Chosen
    <3>2. phase'[c] \in {"wait", "switch"} /\ (phase'[c] = "wait" <=> n # NULL /\ task_cpu[n] # c)
      BY <1>1
    <3>3. next'[c] = n /\ UNCHANGED <<relq, cpu_reserve, task_cpu, rt, running>>
      BY <1>1 DEF notify_next_cpu
    <3> QED BY <2>2, <3>1, <3>2, <3>3 DEF PickedAt, Chosen, Migrating
  <2>3. CASE d # c
    BY <1>1, <2>1, <2>3, PickedKept DEF notify_next_cpu
  <2> QED BY <2>2, <2>3
<1>11. FollowsAt(c)'
  <2>1. FollowsAt(c)
    BY DEF IInv, Follows
  <2>2. Unaware(c)' <=> Unaware(c)
    BY DEF Unaware, notify_next_cpu
  <2>3. UNCHANGED <<setup, highest_prio, cpu_reserve, is_currently_scheduled>> /\ next'[c] = n
    BY <1>1 DEF notify_next_cpu
  <2>4. ASSUME highest_prio[cpu_reserve[c]] = NULL, n # NULL PROVE phase'[c] # "switch"
    <3>1. n \notin Runnable
      BY <1>1, <2>4, NothingToRun DEF IInv, Chosen
    <3>2. ASSUME task_cpu[n] = c PROVE FALSE
      <4>1. n \in rt /\ n \in running
        BY <1>1, <2>4, <3>2 DEF IInv, Picked, PickedAt, Chosen
      <4>2. PICK d \in CPU : phase[d] = "resim" /\ curr[d] = n
        BY <3>1, <4>1, RunnableIs
      <4>3. d = c
        BY <2>4, <3>2, <4>2, OneProcessor
      <4> QED BY <1>1, <4>2, <4>3
    <3> QED BY <1>1, <2>4, <3>2
  <2>5. c \in ipi \/ Unaware(c) \/ highest_prio[cpu_reserve[c]] = n \/ highest_prio[cpu_reserve[c]] = NULL
    BY <1>1, <2>1 DEF FollowsAt, Chosen
  <2>6. setup.flag => <<cpu_reserve[c], c>> \in is_currently_scheduled
    BY <1>1, <2>1 DEF FollowsAt
  <2>7. phase'[c] \in {"wait", "switch"}
    BY <1>1
  <2> QED BY <1>3, <2>2, <2>3, <2>4, <2>5, <2>6, <2>7 DEF FollowsAt
<1>12. \A d \in CPU : d # c => FollowsAt(d)'
  BY <1>1, <1>3, OthersUnaware DEF notify_next_cpu
<1>13. ~panic'
  BY DEF notify_next_cpu, IInv
<1> QED BY <1>6, <1>7, <1>8, <1>9, <1>10, <1>11, <1>12, <1>13 DEF IInv, Picked, Follows

\* The picked task comes to the runqueue of c.
LEMMA AttachInv ==
  ASSUME IInv, NEW c \in CPU, attach(c)
  PROVE  IInv'
<1> DEFINE n == next[c]
<1>1. /\ phase[c] \in {"wait", "attach"} /\ phase'[c] = "switch"
      /\ next'[c] = IF n \in rt \cap running THEN n ELSE NULL
      /\ \A d \in CPU : d # c => phase'[d] = phase[d] /\ next'[d] = next[d]
  BY DEF attach, StackFree, IInv, TypeOK
<1>2. /\ n # NULL /\ n \in Task /\ stack_in_use[n] = NO_CPU
      /\ Server[n] = cpu_reserve[c] /\ n \notin relq[cpu_reserve[c]]
  <2>1. PickedAt(c) /\ next[c] \in Task \cup {NULL}
    BY DEF IInv, Picked, TypeOK
  <2>2. phase[c] = "wait" => stack_in_use[n] = NO_CPU
    BY DEF attach, StackFree
  <2> QED BY <1>1, <2>1, <2>2 DEF PickedAt, Chosen, Migrating
<1>3. task_cpu'[n] = c /\ \A t \in Task : t # n => task_cpu'[t] = task_cpu[t]
  BY <1>2 DEF attach, IInv, TypeOK
<1>4. TypeOK'
  <2>1. next' \in [CPU -> Task \cup {NULL}] /\ task_cpu' \in [Task -> CPU]
    BY <1>2 DEF attach, IInv, TypeOK
  <2>2. phase' \in [CPU -> {"run", "sched", "swap", "back", "notify", "wait", "resim", "attach", "switch"}]
    BY DEF attach, IInv, TypeOK
  <2>3. Ids' = Ids
    BY SetupKept DEF attach
  <2> QED BY <2>1, <2>2, <2>3 DEF attach, IInv, TypeOK
<1>5. Hosted'
  BY <1>1, HostedKept DEF attach, IInv
<1>6. Located' /\ Ordered'
  <2>1. \A d \in CPU : phase'[d] = "resim" <=> phase[d] = "resim"
    BY <1>1
  <2>2. now' \in Nat /\ now <= now'
    BY DEF attach, IInv, TypeOK
  <2> QED BY <2>1, <2>2, QueuesSame DEF attach, IInv
<1>7. Executing'
  <2>1. \A t \in Task : stack_in_use'[t] # NO_CPU => task_cpu'[t] = stack_in_use'[t]
    BY <1>2, <1>3 DEF attach, IInv, Executing
  <2>2. \A d \in CPU : curr[d] # NULL /\ curr[d] \in relq[Server[curr[d]]] =>
          \/ phase'[d] \in {"swap", "back", "notify"}
          \/ phase'[d] \in {"wait", "switch"} /\ was_running[d]
    BY <1>1 DEF IInv, Executing
  <2>3. \A d \in CPU : phase'[d] = "resim" => curr[d] \in rt \cap running
    BY <1>1 DEF IInv, Executing
  <2>4. UNCHANGED <<curr, rt, running, relq, stack_in_use, was_running>>
    BY DEF attach
  <2>5. \A d \in CPU : curr[d] # NULL => curr[d] \in rt /\ stack_in_use[curr[d]] = d
    BY DEF IInv, Executing
  <2> QED BY <2>1, <2>2, <2>3, <2>4, <2>5 DEF Executing
<1>8. ASSUME NEW d \in CPU PROVE PickedAt(d)'
  <2>1. CASE d = c
    <3>1. next'[c] # NULL => next'[c] = n /\ n \in rt \cap running
      BY <1>1
    <3>2. UNCHANGED <<relq, cpu_reserve, rt, running>>
      BY DEF attach
    <3> QED BY <1>1, <1>2, <1>3, <2>1, <3>1, <3>2 DEF PickedAt, Chosen, Migrating
  <2>2. CASE d # c
    <3>1. Chosen(d) /\ next[d] # NULL => next[d] # n /\ next[d] \in Task
      BY <1>1, <1>2, <2>2, OneProcessor DEF Chosen, IInv, TypeOK
    <3>2. PickedAt(d)
      BY DEF IInv, Picked
    <3>3. UNCHANGED <<relq, cpu_reserve, rt, running, stack_in_use>>
      BY DEF attach
    <3> QED BY <1>1, <1>3, <2>2, <3>1, <3>2, <3>3, PickedKept
  <2> QED BY <2>1, <2>2
<1>9. FollowsAt(c)'
  <2>1. FollowsAt(c)
    BY DEF IInv, Follows
  <2>2. UNCHANGED <<setup, highest_prio, cpu_reserve, is_currently_scheduled, ipi>>
    BY DEF attach
  <2>3. Unaware(c)' <=> Unaware(c)
    BY <2>2 DEF Unaware
  <2>4. highest_prio[cpu_reserve[c]] = n => next'[c] = n
    BY <1>1, <1>2, HighestPrioTask DEF IInv, TypeOK
  <2>5. highest_prio[cpu_reserve[c]] = NULL => next'[c] = NULL
    <3> SUFFICES ASSUME highest_prio[cpu_reserve[c]] = NULL, n \in rt, n \in running PROVE FALSE
      BY <1>1
    <3>1. n \notin Runnable
      BY <1>1, <1>2, NothingToRun DEF IInv, Chosen
    <3>2. PICK d \in CPU : phase[d] = "resim" /\ curr[d] = n
      BY <3>1, RunnableIs
    <3>3. stack_in_use[n] = d
      BY <1>2, <3>2 DEF IInv, Executing
    <3> QED BY <1>2, <3>3, ConstantsAssumption
  <2>6. c \in ipi \/ Unaware(c) \/ highest_prio[cpu_reserve[c]] = n \/ highest_prio[cpu_reserve[c]] = NULL
    BY <1>1, <2>1 DEF FollowsAt, Chosen
  <2>7. setup.flag => <<cpu_reserve[c], c>> \in is_currently_scheduled
    BY <1>1, <2>1 DEF FollowsAt
  <2> QED BY <1>1, <2>2, <2>3, <2>4, <2>5, <2>6, <2>7 DEF FollowsAt
<1>10. \A d \in CPU : d # c => FollowsAt(d)'
  BY <1>1, OthersUnaware DEF attach
<1>11. ~panic'
  BY DEF attach, IInv
<1> QED BY <1>4, <1>5, <1>6, <1>7, <1>8, <1>9, <1>10, <1>11 DEF IInv, Picked, Follows

\* The context switch.
LEMMA FinishSwitchInv ==
  ASSUME IInv, NEW c \in CPU, finish_switch(c)
  PROVE  IInv'
<1> DEFINE n == next[c]
<1>1. /\ phase[c] = "switch" /\ phase'[c] = "run" /\ next'[c] = NULL /\ curr'[c] = n
      /\ \A d \in CPU : d # c => phase'[d] = phase[d] /\ next'[d] = next[d] /\ curr'[d] = curr[d]
                                   /\ was_running'[d] = was_running[d]
  BY DEF finish_switch, IInv, TypeOK
<1>2. /\ n # NULL => /\ n \in Task /\ n \in rt /\ n \in running /\ task_cpu[n] = c
                     /\ Server[n] = cpu_reserve[c] /\ n \notin relq[cpu_reserve[c]]
      /\ n \in Task \cup {NULL}
  <2>1. PickedAt(c) /\ next[c] \in Task \cup {NULL}
    BY DEF IInv, Picked, TypeOK
  <2> QED BY <1>1, <2>1 DEF PickedAt, Chosen, Migrating
<1>3. \A t \in Task : stack_in_use'[t] = IF t = n THEN c ELSE IF t = curr[c] THEN NO_CPU ELSE stack_in_use[t]
  BY DEF finish_switch, switch_stacks
<1>4. TypeOK'
  <2>1. next' \in [CPU -> Task \cup {NULL}] /\ curr' \in [CPU -> Task \cup {NULL}]
    BY <1>2 DEF finish_switch, IInv, TypeOK
  <2>2. stack_in_use' \in [Task -> CPU \cup {NO_CPU}] /\ was_running' \in [CPU -> BOOLEAN]
    BY DEF finish_switch, switch_stacks, IInv, TypeOK
  <2>3. phase' \in [CPU -> {"run", "sched", "swap", "back", "notify", "wait", "resim", "attach", "switch"}]
    BY DEF finish_switch, IInv, TypeOK
  <2>4. Ids' = Ids
    BY SetupKept DEF finish_switch
  <2> QED BY <2>1, <2>2, <2>3, <2>4 DEF finish_switch, IInv, TypeOK
<1>5. Hosted'
  BY <1>1, HostedKept DEF finish_switch, IInv
<1>6. Located' /\ Ordered'
  <2>1. \A d \in CPU : /\ phase'[d] = "resim" <=> phase[d] = "resim"
                       /\ phase[d] = "resim" => curr'[d] = curr[d]
    BY <1>1
  <2>2. now' \in Nat /\ now <= now'
    BY DEF finish_switch, IInv, TypeOK
  <2> QED BY <2>1, <2>2, QueuesSame DEF finish_switch, IInv
<1>7. Executing'
  <2>1. \A d \in CPU : d # c /\ curr[d] # NULL =>
          curr[d] \in rt /\ curr[d] \in Task /\ curr[d] # n /\ curr[d] # curr[c] /\ stack_in_use[curr[d]] = d
    BY <1>2, OneProcessor DEF IInv, Executing
  <2>2. UNCHANGED <<rt, running, relq, task_cpu>>
    BY DEF finish_switch
  <2>3. \A d \in CPU : curr'[d] # NULL => curr'[d] \in rt' /\ stack_in_use'[curr'[d]] = d
    BY <1>1, <1>2, <1>3, <2>1, <2>2
  <2>4. \A t \in Task : stack_in_use'[t] # NO_CPU => task_cpu'[t] = stack_in_use'[t]
    BY <1>2, <1>3, <2>2, ConstantsAssumption DEF IInv, Executing
  <2>5. \A d \in CPU : curr'[d] # NULL /\ curr'[d] \in relq'[Server[curr'[d]]] =>
          \/ phase'[d] \in {"swap", "back", "notify"}
          \/ phase'[d] \in {"wait", "switch"} /\ was_running'[d]
    BY <1>1, <1>2, <2>2 DEF IInv, Executing
  <2>6. \A d \in CPU : phase'[d] = "resim" => curr'[d] \in rt' \cap running'
    BY <1>1, <2>2 DEF IInv, Executing
  <2> QED BY <2>3, <2>4, <2>5, <2>6 DEF Executing
<1>8. ASSUME NEW d \in CPU PROVE PickedAt(d)'
  <2>1. CASE d = c
    BY <1>1, <2>1 DEF PickedAt, Chosen, Migrating
  <2>2. CASE d # c
    <3>1. Chosen(d) /\ next[d] # NULL => next[d] # n /\ next[d] \in Task
      BY <1>1, <2>2, OneProcessor DEF Chosen, IInv, TypeOK
    <3>2. PickedAt(d)
      BY DEF IInv, Picked
    <3>3. UNCHANGED <<relq, cpu_reserve, rt, running, task_cpu>>
      BY DEF finish_switch
    <3> QED BY <1>1, <1>3, <2>2, <3>1, <3>2, <3>3, PickedKept
  <2> QED BY <2>1, <2>2
<1>9. FollowsAt(c)'
  <2>1. FollowsAt(c)
    BY DEF IInv, Follows
  <2>2. UNCHANGED <<setup, highest_prio, cpu_reserve, is_currently_scheduled, ipi>>
    BY DEF finish_switch
  <2>3. Unaware(c)' <=> Unaware(c)
    BY <2>2 DEF Unaware
  <2>4. c \in ipi \/ Unaware(c) \/ highest_prio[cpu_reserve[c]] = n
    BY <1>1, <2>1 DEF FollowsAt, Chosen
  <2>5. setup.flag => <<cpu_reserve[c], c>> \in is_currently_scheduled
    BY <1>1, <2>1 DEF FollowsAt
  <2> QED BY <1>1, <2>2, <2>3, <2>4, <2>5 DEF FollowsAt, WillSchedule, Chosen
<1>10. \A d \in CPU : d # c => FollowsAt(d)'
  BY <1>1, OthersUnaware DEF finish_switch
<1>11. ~panic'
  BY DEF finish_switch, IInv
<1> QED BY <1>4, <1>5, <1>6, <1>7, <1>8, <1>9, <1>10, <1>11 DEF IInv, Picked, Follows

-----------------------------------------------------------------------------
(* Steps that change a server                                              *)

\* The queues of server s have changed, and its owner knows of a new highest_prio.
QueuesChanged(s, on) ==
  /\ ready' \in [Ids -> SUBSET Task] /\ highest_prio' \in [Ids -> Task \cup {NULL}]
  /\ \A r \in Ids : r # s => highest_prio'[r] = highest_prio[r]
  /\ on.tif \subseteq tif' /\ ipi \subseteq ipi'
  /\ tif' \subseteq on.tif \cup {on.current} /\ ipi' \subseteq CPU
  /\ highest_prio'[s] # highest_prio[s] /\ <<s, curr_reserve[s]>> \in is_currently_scheduled =>
       IF curr_reserve[s] = on.cpu THEN on.current \in tif' ELSE curr_reserve[s] \in ipi'

\* Tasks T become ready, by a release or by a wake-up.
LEMMA Enqueued ==
  ASSUME IInv, NEW s \in Ids, NEW js \in [Task -> Job], NEW T \in SUBSET Task, NEW on,
         setup' = setup, now' = now, job' = js,
         reschedule_server(s, js, ready[s] \cup T, highest_prio[s], on),
         \A t \in T : Server[t] = s /\ t \notin ready[s] /\ highest_prio[s] # t /\ js[t].release <= now,
         \A r \in Ids : relq'[r] = IF r = s THEN relq[s] \ T ELSE relq[r],
         \A t \in Task : t \in Runnable' <=> t \in Runnable \/ t \in T,
         \A t \in Task : t \notin T => js[t] = job[t],
         rt' \in SUBSET Task, \A t \in rt' : t \in rt \/ t \in T, Task \ rt' \subseteq running'
  PROVE  Located' /\ Ordered' /\ QueuesChanged(s, on)
<1> DEFINE Q == ready[s] \cup T
           hp == highest_prio[s]
<1>1. TypeOK /\ Located /\ Ordered /\ NULL \notin Task
  BY ConstantsAssumption DEF IInv
<1>2. Q \in SUBSET Task /\ hp \in Task \cup {NULL} /\ ready[s] \in SUBSET Task
  BY <1>1 DEF TypeOK
<1>3. hp \notin ready[s] /\ hp \notin relq[s]
  BY <1>1, <1>2 DEF Located, TypeOK
<1>4. hp \notin Q
  BY <1>3
<1>5. ready \in [Ids -> SUBSET Task] /\ highest_prio \in [Ids -> Task \cup {NULL}] /\ curr_reserve[s] \in CPU
        /\ ipi \subseteq CPU /\ rt \subseteq Task
  BY <1>1 DEF TypeOK
<1> HIDE DEF Q, hp
<1>6. reschedule_server(s, js, Q, hp, on)
  BY DEF Q, hp
<1>7. /\ ready' \in [Ids -> SUBSET Task] /\ highest_prio' \in [Ids -> Task \cup {NULL}]
      /\ \A r \in Ids : r # s => ready'[r] = ready[r] /\ highest_prio'[r] = highest_prio[r]
      /\ \A t \in Task : t \in ready'[s] \/ highest_prio'[s] = t <=> t \in Q \/ hp = t
      /\ highest_prio'[s] \notin ready'[s]
      /\ ~edf_preemption_needed(js, ready'[s], highest_prio'[s])
      /\ preempt(highest_prio'[s] # hp /\ <<s, curr_reserve[s]>> \in is_currently_scheduled,
                 curr_reserve[s], on)
  <2>1. Rescheduled(s, js, Q, hp, on)
    BY <1>2, <1>4, <1>5, <1>6, Reschedule
  <2> QED BY <2>1 DEF Rescheduled
<1>8. \A t \in Task : t \in ready[s] \/ t \in relq[s] \/ hp = t <=> t \in Runnable /\ Server[t] = s
  BY <1>1 DEF Located, hp
<1>9. \A t \in Task : t \in ready'[s] \/ t \in relq'[s] \/ highest_prio'[s] = t <=> t \in Runnable' /\ Server[t] = s
  BY <1>7, <1>8 DEF Q
<1>10. \A t \in Task : t \in Q \/ hp = t => t \notin relq'[s]
  BY <1>1, <1>3 DEF Q, Located
<1>11. \A t \in Task : ~(t \in ready'[s] /\ t \in relq'[s])
  BY <1>7, <1>10
<1>12. highest_prio'[s] \notin relq'[s]
  <2>1. relq'[s] \subseteq Task
    BY <1>1 DEF TypeOK
  <2> QED BY <1>7, <1>10, <2>1
<1>13. \A t \in rt' : Server[t] = s => t \in relq'[s] \/ job'[t].release <= now
  BY <1>1 DEF Ordered
<1>14. \A t \in Task : Server[t] # s => (t \in Runnable' <=> t \in Runnable) /\ job'[t] = job[t]
                                         /\ (t \in rt' => t \in rt)
  OBVIOUS
<1>15. Located' /\ Ordered'
  BY <1>1, <1>7, <1>9, <1>11, <1>12, <1>13, <1>14, QueuesKept
<1>16. /\ on.tif \subseteq tif' /\ ipi \subseteq ipi'
       /\ (highest_prio'[s] # hp /\ <<s, curr_reserve[s]>> \in is_currently_scheduled) =>
            IF curr_reserve[s] = on.cpu THEN on.current \in tif' ELSE curr_reserve[s] \in ipi'
       /\ tif' \subseteq on.tif \cup {on.current} /\ ipi' \subseteq ipi \cup {curr_reserve[s]}
  BY <1>5, <1>7 DEF preempt
<1> QED BY <1>5, <1>7, <1>15, <1>16 DEF hp, QueuesChanged

\* Task t has left server s, and the owner knows of a new highest_prio; it is not
\* told if there is none.
Left(t, s, on) ==
  /\ ready' \in [Ids -> SUBSET Task] /\ highest_prio' \in [Ids -> Task \cup {NULL}]
  /\ \A r \in Ids : r # s => highest_prio'[r] = highest_prio[r]
  /\ on.tif \subseteq tif' /\ ipi \subseteq ipi'
  /\ tif' \subseteq on.tif \cup {on.current} /\ ipi' \subseteq CPU
  /\ \/ highest_prio[s] # t /\ highest_prio'[s] = highest_prio[s]
     \/ highest_prio[s] = t /\ highest_prio'[s] = NULL
     \/ /\ highest_prio[s] = t
        /\ <<s, curr_reserve[s]>> \in is_currently_scheduled =>
             IF curr_reserve[s] = on.cpu THEN on.current \in tif' ELSE curr_reserve[s] \in ipi'

\* Task t leaves its server because it exits or blocks.
LEMMA Removed ==
  ASSUME IInv, NEW t \in rt, NEW on, NEW s, s = Server[t],
         remove_from_server(t, on), setup' = setup, now' = now, relq' = relq,
         t \notin relq[s],
         \A u \in Task : u \in Runnable' <=> u \in Runnable /\ u # t,
         \A u \in Task : u # t => job'[u] = job[u],
         rt' \in SUBSET rt, t \in rt' => job'[t] = job[t], Task \ rt' \subseteq running'
  PROVE  Located' /\ Ordered' /\ ~panic' /\ panic' \in BOOLEAN /\ Left(t, s, on)
<1>1. TypeOK /\ Located /\ Ordered /\ NULL \notin Task /\ ~panic
  BY ConstantsAssumption DEF IInv
<1>2. s \in Ids /\ t \in Task
  BY Typed
<1>3. ready \in [Ids -> SUBSET Task] /\ highest_prio \in [Ids -> Task \cup {NULL}] /\ curr_reserve[s] \in CPU
        /\ ipi \subseteq CPU /\ ready[s] \in SUBSET Task /\ relq[s] \in SUBSET Task /\ job \in [Task -> Job]
        /\ rt \subseteq Task
  BY <1>1, <1>2 DEF TypeOK, Job
<1>4. ~panic' /\ panic' \in BOOLEAN
  BY <1>1 DEF remove_from_server, BugOn
<1>5. \A u \in Task : u \in ready[s] \/ u \in relq[s] \/ highest_prio[s] = u <=> u \in Runnable /\ Server[u] = s
  BY <1>1, <1>2 DEF Located
<1>6. /\ highest_prio[s] \notin ready[s] /\ highest_prio[s] \notin relq[s]
      /\ \A u \in Task : ~(u \in ready[s] /\ u \in relq[s])
  BY <1>1, <1>2, <1>3 DEF Located
<1>7. \A u \in rt' : Server[u] = s => u \in relq'[s] \/ job'[u].release <= now
  BY <1>1, <1>3 DEF Ordered
<1>8. \A u \in Task : Server[u] # s => (u \in Runnable' <=> u \in Runnable) /\ job'[u] = job[u]
                                         /\ (u \in rt' => u \in rt)
  OBVIOUS
<1>9. CASE highest_prio[s] = t
  <2>1. reschedule_server(s, job, ready[s], NULL, on)
    BY <1>9 DEF remove_from_server
  <2>2. /\ ready' \in [Ids -> SUBSET Task] /\ highest_prio' \in [Ids -> Task \cup {NULL}]
        /\ \A r \in Ids : r # s => ready'[r] = ready[r] /\ highest_prio'[r] = highest_prio[r]
        /\ \A u \in Task : u \in ready'[s] \/ highest_prio'[s] = u <=> u \in ready[s]
        /\ highest_prio'[s] \notin ready'[s]
        /\ ~edf_preemption_needed(job, ready'[s], highest_prio'[s])
        /\ preempt(highest_prio'[s] # NULL /\ <<s, curr_reserve[s]>> \in is_currently_scheduled,
                   curr_reserve[s], on)
    BY <1>1, <1>2, <1>3, <2>1, RescheduleEmpty
  <2>3. \A u \in Task : u \in ready'[s] \/ u \in relq'[s] \/ highest_prio'[s] = u <=> u \in Runnable' /\ Server[u] = s
    BY <1>1, <1>5, <1>6, <1>9, <2>2
  <2>4. \A u \in Task : ~(u \in ready'[s] /\ u \in relq'[s])
    BY <1>1, <1>6, <2>2
  <2>5. highest_prio'[s] \notin relq'[s]
    BY <1>1, <1>2, <1>3, <1>6, <2>2
  <2>6. t \notin ready'[s] /\ highest_prio'[s] # t
    BY <1>1, <1>2, <1>6, <1>9, <2>2
  <2>7. ~edf_preemption_needed(job', ready'[s], highest_prio'[s])
    <3>1. \A u \in ready'[s] : u \in Task /\ job'[u] = job[u]
      BY <1>2, <2>2, <2>6
    <3>2. highest_prio'[s] # NULL => job'[highest_prio'[s]] = job[highest_prio'[s]]
      BY <1>2, <2>2, <2>6
    <3> QED BY <2>2, <3>1, <3>2 DEF edf_preemption_needed, edf_higher_prio
  <2>8. Located' /\ Ordered'
    <3>1. ready'[s] \in SUBSET Task /\ rt' \in SUBSET Task
      BY <1>2, <1>3, <2>2
    <3>2. \A r \in Ids : r # s => relq'[r] = relq[r]
      OBVIOUS
    <3> QED BY <1>1, <1>2, <1>7, <1>8, <2>2, <2>3, <2>4, <2>5, <2>7, <3>1, <3>2, QueuesKept
  <2>9. /\ on.tif \subseteq tif' /\ ipi \subseteq ipi'
        /\ (highest_prio'[s] # NULL /\ <<s, curr_reserve[s]>> \in is_currently_scheduled) =>
             IF curr_reserve[s] = on.cpu THEN on.current \in tif' ELSE curr_reserve[s] \in ipi'
        /\ tif' \subseteq on.tif \cup {on.current} /\ ipi' \subseteq ipi \cup {curr_reserve[s]}
    BY <1>3, <2>2 DEF preempt
  <2> QED BY <1>3, <1>4, <1>9, <2>2, <2>8, <2>9 DEF Left
<1>10. CASE highest_prio[s] # t
  <2>1. /\ ready' = [ready EXCEPT ![s] = @ \ {t}] /\ tif' = on.tif /\ highest_prio' = highest_prio /\ ipi' = ipi
    BY <1>10 DEF remove_from_server
  <2>2. /\ ready' \in [Ids -> SUBSET Task] /\ ready'[s] = ready[s] \ {t}
        /\ \A r \in Ids : r # s => ready'[r] = ready[r]
    BY <1>2, <1>3, <2>1
  <2>3. \A u \in Task : u \in ready'[s] \/ u \in relq'[s] \/ highest_prio'[s] = u <=> u \in Runnable' /\ Server[u] = s
    BY <1>5, <1>10, <2>1, <2>2
  <2>4. ~edf_preemption_needed(job', ready'[s], highest_prio'[s])
    <3>1. \A u \in ready[s] : ~edf_higher_prio(job, u, highest_prio[s])
      BY <1>1, <1>2 DEF Ordered, edf_preemption_needed
    <3>2. \A u \in ready'[s] : job'[u] = job[u] /\ u \in ready[s]
      BY <1>3, <2>2
    <3>3. highest_prio[s] # NULL => job'[highest_prio[s]] = job[highest_prio[s]]
      BY <1>2, <1>3, <1>10
    <3> QED BY <2>1, <3>1, <3>2, <3>3 DEF edf_preemption_needed, edf_higher_prio
  <2>5. Located' /\ Ordered'
    <3>1. ready'[s] \in SUBSET Task /\ rt' \in SUBSET Task
      BY <1>2, <1>3, <2>2
    <3>2. \A r \in Ids : r # s =>
            ready'[r] = ready[r] /\ relq'[r] = relq[r] /\ highest_prio'[r] = highest_prio[r]
      BY <2>1, <2>2
    <3>3. \A u \in Task : ~(u \in ready'[s] /\ u \in relq'[s])
      BY <1>6, <2>2
    <3>4. highest_prio'[s] \notin ready'[s] /\ highest_prio'[s] \notin relq'[s]
      BY <1>6, <2>1, <2>2
    <3> QED BY <1>1, <1>2, <1>7, <1>8, <2>3, <2>4, <3>1, <3>2, <3>3, <3>4, QueuesKept
  <2>6. on.tif \subseteq on.tif \cup {on.current} /\ ipi \subseteq ipi
    OBVIOUS
  <2> QED BY <1>3, <1>4, <1>10, <2>1, <2>2, <2>5, <2>6 DEF Left
<1> QED BY <1>9, <1>10

\* A handler on e leaves alone what the other processors execute and have picked.
LEMMA HandlerStep ==
  ASSUME IInv, NEW e \in CPU, Open(e),
         UNCHANGED <<setup, ownerVars, task_cpu, other, next, was_running>>,
         \A d \in CPU : d # e => phase'[d] = phase[d] /\ curr'[d] = curr[d],
         phase'[e] \in {"run", "sched"},
         \A r \in Ids : relq'[r] \subseteq relq[r],
         curr'[e] # NULL => /\ curr'[e] \in rt' /\ curr'[e] \in Task /\ Server[curr'[e]] \in Ids
                            /\ stack_in_use'[curr'[e]] = e /\ curr'[e] \notin relq[Server[curr'[e]]],
         \A t \in rt : t \in rt' \/ t = curr[e] \/ stack_in_use[t] = NO_CPU,
         \A t \in rt \cap running : t \in rt' \cap running' \/ t = curr[e],
         \A t \in Task : \/ stack_in_use'[t] = stack_in_use[t]
                         \/ stack_in_use'[t] = NO_CPU /\ (t = curr[e] \/ stack_in_use[t] = NO_CPU)
                         \/ stack_in_use'[t] = e /\ task_cpu[t] = e /\ ~RqLocked(e) /\ t \notin rt
  PROVE  Hosted' /\ Executing' /\ Picked'
<1>1. NO_CPU \notin CPU /\ NULL \notin Task /\ rt \subseteq Task
  BY ConstantsAssumption DEF IInv, TypeOK
<1>2. \A d \in CPU : d # e /\ curr[d] # NULL =>
        /\ curr[d] \in rt /\ curr[d] # curr[e] /\ stack_in_use[curr[d]] = d /\ curr[d] \in Task
        /\ Server[curr[d]] \in Ids
  BY OneProcessor, Typed DEF IInv, Executing
<1>3. Hosted'
  BY HostedKept DEF IInv
<1>4. Executing'
  <2>1. \A d \in CPU : curr'[d] # NULL => curr'[d] \in rt' /\ stack_in_use'[curr'[d]] = d
    BY <1>1, <1>2
  <2>2. \A t \in Task : stack_in_use'[t] # NO_CPU => task_cpu'[t] = stack_in_use'[t]
    BY DEF IInv, Executing
  <2>3. \A d \in CPU : curr'[d] # NULL /\ curr'[d] \in relq'[Server[curr'[d]]] =>
          \/ phase'[d] \in {"swap", "back", "notify"}
          \/ phase'[d] \in {"wait", "switch"} /\ was_running'[d]
    BY <1>2 DEF IInv, Executing
  <2>4. \A d \in CPU : phase'[d] = "resim" => curr'[d] \in rt' \cap running'
    <3> SUFFICES ASSUME NEW d \in CPU, phase'[d] = "resim" PROVE curr'[d] \in rt' \cap running'
      OBVIOUS
    <3>1. d # e /\ phase[d] = "resim" /\ curr'[d] = curr[d]
      OBVIOUS
    <3>2. curr[d] \in rt \cap running
      BY <3>1 DEF IInv, Executing
    <3>3. curr[d] # NULL
      BY <1>1, <3>2
    <3> QED BY <1>2, <3>1, <3>2, <3>3
  <2> QED BY <2>1, <2>2, <2>3, <2>4 DEF Executing
<1>5. ASSUME NEW d \in CPU PROVE PickedAt(d)'
  <2>1. CASE d = e
    BY <2>1 DEF PickedAt, Chosen, Migrating
  <2>2. CASE d # e
    <3>1. PickedAt(d) /\ phase'[d] = phase[d]
      BY <2>2 DEF IInv, Picked
    <3>2. CASE ~(Chosen(d) /\ next[d] # NULL)
      BY <3>1, <3>2, PickedKept
    <3>3. CASE Chosen(d) /\ next[d] # NULL
      <4>1. next[d] \in Task /\ cpu_reserve[d] \in Ids
        BY <3>3 DEF IInv, TypeOK
      <4>2. task_cpu[next[d]] = d => next[d] # curr[e]
        BY <2>2, <3>3, OneProcessor
      <4>3. ASSUME phase[d] \in {"resim", "attach"}
            PROVE  stack_in_use'[next[d]] \in {stack_in_use[next[d]], NO_CPU}
        <5>1. RqLocked(task_cpu[next[d]])
          BY <4>3 DEF RqLocked
        <5> QED BY <4>1, <5>1
      <4> QED BY <3>1, <4>1, <4>2, <4>3, PickedKept
    <3> QED BY <3>2, <3>3
  <2> QED BY <2>1, <2>2
<1> QED BY <1>3, <1>4, <1>5 DEF Picked

\* The processor that carries out a handler and stays out of schedule().
LEMMA OwnFollows ==
  ASSUME IInv, NEW e \in CPU, NEW s \in Ids, Open(e), phase'[e] = "run",
         UNCHANGED <<setup, ownerVars>>,
         ipi \subseteq ipi',
         \A r \in Ids : r # s => highest_prio'[r] = highest_prio[r],
         \/ Current(e)' \in tif'
         \/ /\ tif \subseteq tif' /\ curr'[e] = curr[e]
            /\ \/ highest_prio'[s] = highest_prio[s]
               \/ curr_reserve[s] # e \/ <<s, e>> \notin is_currently_scheduled
  PROVE  FollowsAt(e)'
<1>1. FollowsAt(e) /\ phase[e] = "run" /\ cpu_reserve[e] \in Ids /\ curr_reserve[cpu_reserve[e]] = e
  BY DEF IInv, Follows, Open, TypeOK, Hosted, ServesOwned
<1>2. setup.flag => <<cpu_reserve[e], e>> \in is_currently_scheduled
  BY <1>1 DEF FollowsAt
<1>3. Unaware(e)' <=> Unaware(e)
  BY DEF Unaware
<1>4. CASE Current(e)' \in tif'
  BY <1>2, <1>4 DEF FollowsAt, WillSchedule, Chosen
<1>5. CASE tif \subseteq tif' /\ curr'[e] = curr[e]
             /\ highest_prio'[cpu_reserve[e]] = highest_prio[cpu_reserve[e]]
  <2>1. WillSchedule(e) => WillSchedule(e)'
    BY <1>1, <1>5 DEF WillSchedule, Current
  <2> QED BY <1>1, <1>2, <1>3, <1>5, <2>1 DEF FollowsAt, Chosen
<1>6. CASE <<cpu_reserve[e], e>> \notin is_currently_scheduled
  <2>1. Unaware(e)
    BY <1>2, <1>6 DEF Unaware
  <2> QED BY <1>2, <1>3, <2>1 DEF FollowsAt, Chosen
<1> QED BY <1>1, <1>4, <1>5, <1>6

\* The job that a wake-up or task_new() begins.
LEMMA ReleaseAt ==
  ASSUME NEW t \in Task, now \in Nat
  PROVE  /\ release_at(t, now) \in Job /\ release_at(t, now).release = now
         /\ release_at(t, now).deadline \in Nat /\ release_at(t, now).deadline > now
<1>1. Period[t] \in Nat \ {0}
  BY ConstantsAssumption
<1>2. release_at(t, now) = [release |-> now, deadline |-> now + Period[t]]
  BY DEF release_at, prepare_for_next_period
<1> QED BY <1>1, <1>2 DEF Job

\* A job that has been released becomes ready.
LEMMA ReleaseJobsInv ==
  ASSUME IInv, NEW c \in CPU, NEW s \in Ids, NEW r \in 0 .. now, release_jobs(c, s, r)
  PROVE  IInv'
<1>1. PICK T \in SUBSET Task : T = {t \in relq[s] : job[t].release = r}
  BY DEF IInv, TypeOK
<1>2. /\ Open(c) /\ phase[c] = "run"
      /\ relq' = [relq EXCEPT ![s] = @ \ T]
      /\ reschedule_server(s, job, ready[s] \cup T, highest_prio[s], On(c))
      /\ flags' = requeued({}, job, ready[s] \cup T, highest_prio[s])
      /\ UNCHANGED <<setup, taskVars, job, spent, ownerVars, timeVars, switchVars, schedVars, panic>>
  BY <1>1 DEF release_jobs, Open
<1>3. \A q \in Ids : relq'[q] = IF q = s THEN relq[s] \ T ELSE relq[q]
  BY <1>2 DEF IInv, TypeOK
<1>4. Runnable' = Runnable
  BY <1>2 DEF Runnable
<1>5. \A t \in T : /\ Server[t] = s /\ t \notin ready[s] /\ highest_prio[s] # t /\ job[t].release <= now
                   /\ t \in Runnable
  BY <1>1, <1>2 DEF release_jobs, IInv, Located
<1>6. /\ Located' /\ Ordered'
      /\ ready' \in [Ids -> SUBSET Task] /\ highest_prio' \in [Ids -> Task \cup {NULL}]
      /\ \A q \in Ids : q # s => highest_prio'[q] = highest_prio[q]
      /\ On(c).tif \subseteq tif' /\ ipi \subseteq ipi'
      /\ tif' \subseteq On(c).tif \cup {On(c).current} /\ ipi' \subseteq CPU
      /\ highest_prio'[s] # highest_prio[s] /\ <<s, curr_reserve[s]>> \in is_currently_scheduled =>
           IF curr_reserve[s] = On(c).cpu THEN On(c).current \in tif' ELSE curr_reserve[s] \in ipi'
  <2>1. PICK js \in [Task -> Job] : js = job
    BY DEF IInv, TypeOK, Job
  <2>2. PICK on : on = On(c)
    OBVIOUS
  <2>3. reschedule_server(s, js, ready[s] \cup T, highest_prio[s], on) /\ job' = js /\ now' = now
          /\ rt' \in SUBSET Task /\ (\A t \in rt' : t \in rt) /\ Task \ rt' \subseteq running'
    BY <1>2, <2>1, <2>2 DEF IInv, TypeOK, Located
  <2>4. \A t \in T : Server[t] = s /\ t \notin ready[s] /\ highest_prio[s] # t /\ js[t].release <= now
    BY <1>5, <2>1
  <2>5. \A t \in Task : t \in Runnable' <=> t \in Runnable \/ t \in T
    BY <1>4, <1>5
  <2>6. setup' = setup /\ \A t \in Task : t \notin T => js[t] = job[t]
    BY <1>2, <2>1
  <2>7. Located' /\ Ordered' /\ QueuesChanged(s, on)
    BY <1>3, <2>3, <2>4, <2>5, <2>6, Enqueued
  <2> QED BY <2>2, <2>7 DEF QueuesChanged
<1>7. /\ tif \subseteq tif' /\ tif' \subseteq Task \cup CPU
      /\ highest_prio'[s] # highest_prio[s] /\ <<s, curr_reserve[s]>> \in is_currently_scheduled =>
           IF curr_reserve[s] = c THEN Current(c) \in tif' ELSE curr_reserve[s] \in ipi'
  <2>1. Current(c) \in Task \cup CPU
    BY DEF IInv, TypeOK, Current
  <2> QED BY <1>6, <2>1 DEF On, IInv, TypeOK
<1>8. TypeOK'
  <2>1. relq' \in [Ids -> SUBSET Task]
    BY <1>2 DEF IInv, TypeOK
  <2>2. flags' \in [Task -> {"RUNNING", "SLEEP"}]
    BY <1>2 DEF requeued, IInv, TypeOK
  <2>3. Ids' = Ids
    BY <1>2, SetupKept
  <2> QED BY <1>2, <1>6, <1>7, <2>1, <2>2, <2>3 DEF IInv, TypeOK
<1>9. Hosted' /\ Executing' /\ Picked'
  <2>1. \A q \in Ids : relq'[q] \subseteq relq[q]
    BY <1>3
  <2>2. curr[c] # NULL => /\ curr[c] \in rt /\ curr[c] \in Task /\ Server[curr[c]] \in Ids
                          /\ stack_in_use[curr[c]] = c /\ curr[c] \notin relq[Server[curr[c]]]
    BY <1>2, Typed DEF IInv, Executing
  <2> QED BY <1>2, <2>1, <2>2, HandlerStep
<1>10. FollowsAt(c)'
  <2>1. Current(c)' = Current(c)
    BY <1>2 DEF Current
  <2> QED BY <1>2, <1>6, <1>7, <2>1, OwnFollows
<1>11. ASSUME NEW d \in CPU, d # c PROVE FollowsAt(d)'
  <2>1. phase[d] = "resim" => NULL # curr[d] /\ NULL # next[d]
    BY Typed DEF IInv, Executing, Picked, PickedAt, Migrating
  <2>2. phase'[d] = phase[d] /\ next'[d] = next[d] /\ curr'[d] = curr[d] /\ cpu_reserve'[d] = cpu_reserve[d]
          /\ is_currently_scheduled' = is_currently_scheduled /\ setup' = setup /\ job' = job
    BY <1>2
  <2>3. \/ highest_prio'[s] = highest_prio[s]
        \/ <<s, curr_reserve[s]>> \in is_currently_scheduled => curr_reserve[s] \in ipi' \cup {c}
    BY <1>7
  <2>4. d \in ipi => d \in ipi'
    BY <1>6
  <2>5. Current(d) \in tif => Current(d) \in tif'
    BY <1>7
  <2> QED BY <1>6, <1>11, <2>1, <2>2, <2>3, <2>4, <2>5, OthersFollow, ZenonT(40)
<1>12. ~panic'
  BY <1>2 DEF IInv
<1> QED BY <1>6, <1>8, <1>9, <1>10, <1>11, <1>12 DEF IInv, Follows

\* A task wakes up, or its wake-up is simulated: its job is released, so it
\* becomes ready, and its deadline does not come closer.
LEMMA WakeUp ==
  ASSUME IInv, NEW t \in rt, NEW e \in CPU, t \notin Runnable, task_wake_up(t, e)
  PROVE  \E js \in [Task -> Job] :
           /\ job' = js /\ relq' = relq /\ ~panic' /\ panic' \in BOOLEAN
           /\ reschedule_server(Server[t], js, ready[Server[t]] \cup {t}, highest_prio[Server[t]], On(e))
           /\ js[t].release <= now /\ job[t].deadline <= js[t].deadline
           /\ \A u \in Task : u # t => js[u] = job[u]
           /\ flags' \in [Task -> {"RUNNING", "SLEEP"}] /\ spent' \subseteq spent
<1>1. t \in Task /\ Server[t] \in Ids /\ NULL \notin Task /\ job \in [Task -> Job] /\ now \in Nat
        /\ flags \in [Task -> {"RUNNING", "SLEEP"}]
  BY Typed DEF IInv, TypeOK
<1>2. /\ \A s \in Ids : t \notin ready[s] /\ t \notin relq[s] /\ highest_prio[s] # t
  BY <1>1 DEF IInv, Located
<1>3. job[t].release <= now /\ job[t] \in Job /\ job[t].deadline \in Nat
  BY <1>1, <1>2 DEF IInv, Ordered, Job
<1>4. release_at(t, now) \in Job /\ release_at(t, now).release = now
        /\ release_at(t, now).deadline \in Nat /\ release_at(t, now).deadline > now
  BY <1>1, ReleaseAt
<1>5. PICK js : js = IF is_tardy(job[t]) THEN [job EXCEPT ![t] = release_at(t, now)] ELSE job
  OBVIOUS
<1>6. /\ js \in [Task -> Job] /\ \A u \in Task : u # t => js[u] = job[u]
      /\ js[t] = IF is_tardy(job[t]) THEN release_at(t, now) ELSE job[t]
  BY <1>1, <1>4, <1>5
<1>7. js[t].release <= now /\ job[t].deadline <= js[t].deadline
  BY <1>1, <1>3, <1>4, <1>6 DEF is_tardy
<1>8. is_released(js[t])
  BY <1>7 DEF is_released
<1>9. ~is_queued(t)
  BY <1>2 DEF is_queued
<1>10. ~panic' /\ panic' \in BOOLEAN /\ job' = js /\ spent' \subseteq spent
  BY <1>5, <1>9 DEF task_wake_up, BugOn, IInv
<1>11. /\ reschedule_server(Server[t], js, ready[Server[t]] \cup {t}, highest_prio[Server[t]], On(e))
       /\ relq' = relq
       /\ flags' = requeued({t}, js, ready[Server[t]] \cup {t}, highest_prio[Server[t]])
  BY <1>1, <1>2, <1>5, <1>8 DEF task_wake_up
<1>12. flags' \in [Task -> {"RUNNING", "SLEEP"}]
  BY <1>1, <1>11 DEF requeued
<1> QED BY <1>6, <1>7, <1>10, <1>11, <1>12

\* try_to_wake_up()
LEMMA WakeInv ==
  ASSUME IInv, NEW t \in Task, NEW e \in CPU, wake(t, e)
  PROVE  IInv'
<1>1. PICK s : s = Server[t]
  OBVIOUS
<1>2. /\ t \in rt /\ t \notin running /\ Open(e) /\ phase[e] = "run" /\ running' = running \cup {t}
      /\ task_wake_up(t, e) /\ UNCHANGED <<setup, rt, ownerVars, timeVars, switchVars, schedVars>>
  BY DEF wake, Open
<1>3. t \notin Runnable /\ s \in Ids
  BY <1>1, <1>2, Typed, RunnableIs
<1>4. PICK js \in [Task -> Job] :
        /\ job' = js /\ relq' = relq /\ ~panic' /\ panic' \in BOOLEAN
        /\ reschedule_server(s, js, ready[s] \cup {t}, highest_prio[s], On(e))
        /\ js[t].release <= now
        /\ \A u \in Task : u # t => js[u] = job[u]
        /\ flags' \in [Task -> {"RUNNING", "SLEEP"}] /\ spent' \subseteq spent
  BY <1>1, <1>2, <1>3, WakeUp
<1>5. \A u \in Task : u \in Runnable' <=> u \in Runnable \/ u \in {t}
  <2>1. \A d \in CPU : phase[d] = "resim" => curr[d] # t
    BY <1>2 DEF IInv, Executing
  <2> QED BY <1>2, <2>1, RunnableIs
<1>6. Located' /\ Ordered' /\ QueuesChanged(s, On(e))
  <2>1. PICK on : on = On(e)
    OBVIOUS
  <2>2. reschedule_server(s, js, ready[s] \cup {t}, highest_prio[s], on)
    BY <1>4, <2>1
  <2>3. \A u \in {t} : Server[u] = s /\ u \notin ready[s] /\ highest_prio[s] # u /\ js[u].release <= now
    BY <1>1, <1>3, <1>4 DEF IInv, Located
  <2>4. \A r \in Ids : relq'[r] = IF r = s THEN relq[s] \ {t} ELSE relq[r]
    <3>1. t \notin relq[s]
      BY <1>3 DEF IInv, Located
    <3> QED BY <1>4, <3>1
  <2>5. rt' \in SUBSET Task /\ (\A u \in rt' : u \in rt \/ u \in {t}) /\ Task \ rt' \subseteq running'
    BY <1>2 DEF IInv, TypeOK, Located
  <2>6. setup' = setup /\ now' = now /\ job' = js /\ {t} \in SUBSET Task
          /\ \A u \in Task : u \notin {t} => js[u] = job[u]
    BY <1>2, <1>4
  <2>7. Located' /\ Ordered' /\ QueuesChanged(s, on)
    BY <1>3, <1>5, <2>2, <2>3, <2>4, <2>5, <2>6, Enqueued
  <2> QED BY <2>1, <2>7
<1>7. /\ ready' \in [Ids -> SUBSET Task] /\ highest_prio' \in [Ids -> Task \cup {NULL}]
      /\ \A r \in Ids : r # s => highest_prio'[r] = highest_prio[r]
      /\ tif \subseteq tif' /\ tif' \subseteq Task \cup CPU /\ ipi \subseteq ipi' /\ ipi' \subseteq CPU
      /\ highest_prio'[s] # highest_prio[s] /\ <<s, curr_reserve[s]>> \in is_currently_scheduled =>
           IF curr_reserve[s] = e THEN Current(e) \in tif' ELSE curr_reserve[s] \in ipi'
  <2>1. Current(e) \in Task \cup CPU
    BY DEF IInv, TypeOK, Current
  <2> QED BY <1>6, <2>1 DEF QueuesChanged, On, IInv, TypeOK
<1>8. TypeOK'
  <2>1. Ids' = Ids
    BY <1>2, SetupKept
  <2>2. job' \in [Task -> [release : Nat, deadline : Nat]]
    BY <1>4 DEF Job
  <2> QED BY <1>2, <1>4, <1>7, <2>1, <2>2 DEF IInv, TypeOK
<1>9. Hosted' /\ Executing' /\ Picked'
  <2>1. curr[e] # NULL => /\ curr[e] \in rt /\ curr[e] \in Task /\ Server[curr[e]] \in Ids
                          /\ stack_in_use[curr[e]] = e /\ curr[e] \notin relq[Server[curr[e]]]
    BY <1>2, Typed DEF IInv, Executing
  <2> QED BY <1>2, <1>4, <2>1, HandlerStep
<1>10. FollowsAt(e)'
  <2>1. Current(e)' = Current(e)
    BY <1>2 DEF Current
  <2> QED BY <1>2, <1>3, <1>7, <2>1, OwnFollows
<1>11. ASSUME NEW d \in CPU, d # e PROVE FollowsAt(d)'
  <2>1. ASSUME phase[d] = "resim" PROVE t # curr[d] /\ ~(t = next[d] /\ t = highest_prio[cpu_reserve[d]])
    <3>1. curr[d] \in running /\ cpu_reserve[d] \in Ids
      BY <2>1 DEF IInv, Executing, TypeOK
    <3> QED BY <1>2, <1>3, <3>1 DEF IInv, Located
  <2>2. phase'[d] = phase[d] /\ next'[d] = next[d] /\ curr'[d] = curr[d] /\ cpu_reserve'[d] = cpu_reserve[d]
          /\ is_currently_scheduled' = is_currently_scheduled /\ setup' = setup
    BY <1>2
  <2>3. \/ highest_prio'[s] = highest_prio[s]
        \/ <<s, curr_reserve[s]>> \in is_currently_scheduled => curr_reserve[s] \in ipi' \cup {e}
    BY <1>7
  <2>4. (d \in ipi => d \in ipi') /\ (Current(d) \in tif => Current(d) \in tif')
    BY <1>7
  <2>5. \A u \in Task : u # t => job'[u] = job[u]
    BY <1>4
  <2> QED BY <1>7, <1>11, <2>1, <2>2, <2>3, <2>4, <2>5, OthersFollow, SMTT(40)
<1> QED BY <1>4, <1>6, <1>8, <1>9, <1>10, <1>11 DEF IInv, Follows

\* npsf_task_new()
LEMMA TaskNewInv ==
  ASSUME IInv, NEW t \in Task, NEW e \in CPU, task_new(t, e)
  PROVE  IInv'
<1>1. PICK c, s : c \in CPU /\ c = Home[t] /\ s = Server[t]
  BY ConstantsAssumption
<1>2. PICK js : js = [job EXCEPT ![t] = release_at(t, now)]
  OBVIOUS
<1>3. PICK on : IF t \in Queued THEN on = [On(e) EXCEPT !.tif = @ \cup {t}]
                ELSE on = [cpu |-> c, current |-> t, tif |-> (tif \ {c}) \cup {t}]
  OBVIOUS
<1>4. /\ t \notin rt /\ task_cpu[t] = c /\ s \in npsf_reserves(c)
      /\ Open(e) /\ phase[e] = "run" /\ ~RqLocked(c) /\ rt' = rt \cup {t} /\ job' = js
      /\ flags' = requeued({t}, js, ready[s] \cup {t}, highest_prio[s])
      /\ BugOn(is_queued(t))
      /\ UNCHANGED <<setup, running, spent, relq, ownerVars, timeVars, task_cpu, schedVars>>
  BY <1>1, <1>2 DEF task_new, npsf_admit_task, Open
<1>5. /\ reschedule_server(s, js, ready[s] \cup {t}, highest_prio[s], on)
      /\ IF t \in Queued THEN curr' = curr /\ stack_in_use' = stack_in_use
         ELSE /\ e = c /\ curr[c] = NULL /\ curr' = [curr EXCEPT ![c] = t]
              /\ stack_in_use' = [stack_in_use EXCEPT ![t] = c]
  BY <1>1, <1>2, <1>3 DEF task_new
<1>6. s \in Ids /\ NULL \notin Task /\ now \in Nat /\ job \in [Task -> Job]
        /\ release_at(t, now) \in Job /\ release_at(t, now).release = now
        /\ flags \in [Task -> {"RUNNING", "SLEEP"}]
  BY <1>4, Typed, ReleaseAt, ReserveTyped DEF IInv, TypeOK
<1>7. js \in [Task -> Job] /\ js[t].release <= now /\ \A u \in Task : u # t => js[u] = job[u]
  BY <1>2, <1>6
<1>8. t \notin Runnable /\ \A r \in Ids : t \notin ready[r] /\ t \notin relq[r] /\ highest_prio[r] # t
  BY <1>4, RunnableIs DEF IInv, Located
<1>9. ~panic' /\ panic' \in BOOLEAN
  BY <1>4, <1>8 DEF BugOn, is_queued, IInv
<1>10. \A d \in CPU : curr'[d] = curr[d] \/ (d = e /\ e = c /\ curr[d] = NULL /\ curr'[d] = t /\ t \notin Queued)
  BY <1>5 DEF IInv, TypeOK
<1>11. \A u \in Task : u \in Runnable' <=> u \in Runnable \/ u \in {t}
  <2>1. \A d \in CPU : phase[d] = "resim" => curr[d] # t /\ curr'[d] = curr[d]
    BY <1>4, <1>10 DEF IInv, Executing
  <2>2. t \in running
    BY <1>4 DEF IInv, Located
  <2> QED BY <1>4, <2>1, <2>2, RunnableIs
<1>12. Located' /\ Ordered' /\ QueuesChanged(s, on)
  <2>3. \A u \in {t} : Server[u] = s /\ u \notin ready[s] /\ highest_prio[s] # u /\ js[u].release <= now
    BY <1>1, <1>6, <1>7, <1>8
  <2>4. \A r \in Ids : relq'[r] = IF r = s THEN relq[s] \ {t} ELSE relq[r]
    BY <1>4, <1>6, <1>8
  <2>5. rt' \in SUBSET Task /\ (\A u \in rt' : u \in rt \/ u \in {t}) /\ Task \ rt' \subseteq running'
    BY <1>4 DEF IInv, TypeOK, Located
  <2>6. setup' = setup /\ now' = now /\ job' = js /\ {t} \in SUBSET Task
          /\ \A u \in Task : u \notin {t} => js[u] = job[u]
    BY <1>4, <1>7
  <2> QED BY <1>5, <1>6, <1>7, <1>11, <2>3, <2>4, <2>5, <2>6, Enqueued
<1>13. Current(e) \in Task \cup CPU /\ c \notin Task
  <2>1. Current(e) \in Task \cup CPU
    BY DEF IInv, TypeOK, Current
  <2>2. c \in CPU
    BY <1>1
  <2> QED BY <2>1, <2>2, ConstantsAssumption
<1>14. on.cpu = e /\ on.current \in Task \cup CPU /\ on.tif \subseteq Task \cup CPU
  <2>1. tif \subseteq Task \cup CPU
    BY DEF IInv, TypeOK
  <2>2. CASE t \in Queued
    BY <1>3, <1>13, <2>1, <2>2 DEF On
  <2>3. CASE t \notin Queued
    BY <1>3, <1>5, <2>1, <2>3
  <2> QED BY <2>2, <2>3
<1>15. /\ ready' \in [Ids -> SUBSET Task] /\ highest_prio' \in [Ids -> Task \cup {NULL}]
       /\ \A r \in Ids : r # s => highest_prio'[r] = highest_prio[r]
       /\ on.tif \subseteq tif' /\ tif' \subseteq Task \cup CPU /\ ipi \subseteq ipi' /\ ipi' \subseteq CPU
       /\ highest_prio'[s] # highest_prio[s] /\ <<s, curr_reserve[s]>> \in is_currently_scheduled =>
            IF curr_reserve[s] = e THEN on.current \in tif' ELSE curr_reserve[s] \in ipi'
  BY <1>12, <1>14 DEF QueuesChanged
<1>16. TypeOK'
  <2>1. Ids' = Ids
    BY <1>4, SetupKept
  <2>2. job' \in [Task -> [release : Nat, deadline : Nat]]
    BY <1>4, <1>7 DEF Job
  <2>3. flags' \in [Task -> {"RUNNING", "SLEEP"}]
    BY <1>4, <1>6 DEF requeued
  <2>4. curr' \in [CPU -> Task \cup {NULL}] /\ stack_in_use' \in [Task -> CPU \cup {NO_CPU}]
    <3>1. curr \in [CPU -> Task \cup {NULL}] /\ stack_in_use \in [Task -> CPU \cup {NO_CPU}]
      BY DEF IInv, TypeOK
    <3>2. CASE t \in Queued
      BY <1>5, <3>1, <3>2
    <3>3. CASE t \notin Queued
      BY <1>5, <3>1, <3>3
    <3> QED BY <3>2, <3>3
  <2>5. rt' \subseteq Task
    BY <1>4 DEF IInv, TypeOK
  <2> QED BY <1>4, <1>9, <1>15, <2>1, <2>2, <2>3, <2>4, <2>5 DEF IInv, TypeOK
<1>17. Hosted' /\ Executing' /\ Picked'
  <2>1. \A u \in Task : \/ stack_in_use'[u] = stack_in_use[u]
                        \/ stack_in_use'[u] = e /\ task_cpu[u] = e /\ ~RqLocked(e) /\ u \notin rt
    BY <1>4, <1>5 DEF IInv, TypeOK
  <2>2. curr'[e] # NULL => /\ curr'[e] \in rt' /\ curr'[e] \in Task /\ Server[curr'[e]] \in Ids
                           /\ stack_in_use'[curr'[e]] = e /\ curr'[e] \notin relq[Server[curr'[e]]]
    <3>1. CASE curr'[e] = curr[e]
      <4>1. curr[e] # NULL => /\ curr[e] \in rt /\ curr[e] \in Task /\ Server[curr[e]] \in Ids
                              /\ stack_in_use[curr[e]] = e /\ curr[e] \notin relq[Server[curr[e]]]
        BY <1>4, Typed DEF IInv, Executing
      <4>2. curr[e] # NULL => stack_in_use'[curr[e]] = e
        BY <2>1, <4>1
      <4> QED BY <1>4, <3>1, <4>1, <4>2
    <3>2. CASE curr'[e] = t /\ e = c /\ t \notin Queued
      <4>1. stack_in_use'[t] = e
        BY <1>5, <3>2 DEF IInv, TypeOK
      <4> QED BY <1>1, <1>4, <1>6, <1>8, <3>2, <4>1
    <3> QED BY <1>10, <3>1, <3>2
  <2>3. \A d \in CPU : d # e => phase'[d] = phase[d] /\ curr'[d] = curr[d]
    BY <1>4, <1>10
  <2>4. phase'[e] \in {"run", "sched"} /\ \A r \in Ids : relq'[r] \subseteq relq[r]
    BY <1>4
  <2> QED BY <1>4, <2>1, <2>2, <2>3, <2>4, HandlerStep
<1>18. FollowsAt(e)'
  <2>1. CASE t \in Queued
    <3>1. Current(e)' = Current(e) /\ curr'[e] = curr[e]
      BY <1>5, <2>1 DEF Current
    <3>2. on.current = Current(e) /\ tif \subseteq on.tif
      BY <1>3, <2>1 DEF On
    <3>3. \/ Current(e)' \in tif'
          \/ /\ tif \subseteq tif' /\ curr'[e] = curr[e]
             /\ \/ highest_prio'[s] = highest_prio[s]
                \/ curr_reserve[s] # e \/ <<s, e>> \notin is_currently_scheduled
      BY <1>15, <3>1, <3>2
    <3> QED BY <1>4, <1>6, <1>15, <3>3, OwnFollows
  <2>2. CASE t \notin Queued
    <3>1. curr'[e] = t /\ t # NULL
      BY <1>5, <1>6, <2>2 DEF IInv, TypeOK
    <3>2. Current(e)' \in tif'
      BY <1>3, <1>15, <2>2, <3>1 DEF Current
    <3> QED BY <1>4, <1>6, <1>15, <3>2, OwnFollows
  <2> QED BY <2>1, <2>2
<1>19. ASSUME NEW d \in CPU, d # e PROVE FollowsAt(d)'
  <2>1. ASSUME phase[d] = "resim" PROVE t # curr[d] /\ ~(t = next[d] /\ t = highest_prio[cpu_reserve[d]])
    <3>1. curr[d] \in rt /\ cpu_reserve[d] \in Ids
      BY <2>1 DEF IInv, Executing, TypeOK
    <3> QED BY <1>4, <1>8, <3>1
  <2>2. phase'[d] = phase[d] /\ next'[d] = next[d] /\ curr'[d] = curr[d] /\ cpu_reserve'[d] = cpu_reserve[d]
          /\ is_currently_scheduled' = is_currently_scheduled /\ setup' = setup
    BY <1>4, <1>10, <1>19
  <2>3. \/ highest_prio'[s] = highest_prio[s]
        \/ <<s, curr_reserve[s]>> \in is_currently_scheduled => curr_reserve[s] \in ipi' \cup {e}
    BY <1>15
  <2>4. Current(d) # c \/ t \in Queued
    BY <1>5, <1>13, <1>19 DEF Current, IInv, TypeOK
  <2>5. (d \in ipi => d \in ipi') /\ (Current(d) \in tif => Current(d) \in tif')
    BY <1>3, <1>15, <2>4 DEF On
  <2>6. \A u \in Task : u # t => job'[u] = job[u]
    BY <1>4, <1>7
  <2> QED BY <1>15, <1>19, <2>1, <2>2, <2>3, <2>5, <2>6, OthersFollow, SMTT(40)
<1> QED BY <1>9, <1>12, <1>16, <1>17, <1>18, <1>19 DEF IInv, Follows

\* npsf_task_exit()
LEMMA TaskExitInv ==
  ASSUME IInv, NEW t \in Task, NEW e \in CPU, task_exit(t, e)
  PROVE  IInv'
<1>1. PICK s : s = Server[t]
  OBVIOUS
<1>2. PICK on : on = IF curr[e] = t
                     THEN [cpu |-> e, current |-> e, tif |-> (tif \ {t}) \cup {e}] ELSE On(e)
  OBVIOUS
<1>3. /\ t \in rt /\ Open(e) /\ phase[e] = "run"
      /\ curr[e] = t \/ (t \notin running /\ stack_in_use[t] = NO_CPU)
      /\ remove_from_server(t, on) /\ rt' = rt \ {t} /\ running' = running \cup {t}
      /\ stack_in_use' = [stack_in_use EXCEPT ![t] = NO_CPU]
      /\ curr' = IF curr[e] = t THEN [curr EXCEPT ![e] = NULL] ELSE curr
      /\ flags' = [flags EXCEPT ![t] = "RUNNING"]
      /\ job' = [job EXCEPT ![t] = [release |-> 0, deadline |-> 0]]
      /\ spent' = spent \ {t}
      /\ UNCHANGED <<setup, relq, ownerVars, timeVars, task_cpu, schedVars>>
  BY <1>2 DEF task_exit, Open
<1>4. s \in Ids /\ NULL \notin Task /\ e \notin Task
  BY <1>1, <1>3, Typed, ConstantsAssumption
<1>5. t \notin relq[s] /\ (curr[e] # t => highest_prio[s] # t)
  <2>1. CASE curr[e] = t
    <3>1. curr[e] # NULL /\ phase[e] \in {"run", "sched", "resim", "attach"}
      BY <1>3, <1>4, <2>1
    <3>2. curr[e] \notin relq[Server[curr[e]]]
      BY <3>1 DEF IInv, Executing
    <3> QED BY <1>1, <2>1, <3>2
  <2>2. CASE curr[e] # t
    BY <1>3, <1>4, <2>2, RunnableIs DEF IInv, Located
  <2> QED BY <2>1, <2>2
<1>6. \A d \in CPU : curr'[d] = IF d = e /\ curr[e] = t THEN NULL ELSE curr[d]
  BY <1>3 DEF IInv, TypeOK
<1>7. \A d \in CPU : d # e \/ curr[e] # t => curr[d] # t
  <2> SUFFICES ASSUME NEW d \in CPU, d # e \/ curr[e] # t, curr[d] = t PROVE FALSE
    OBVIOUS
  <2>1. stack_in_use[t] = d
    BY <1>4 DEF IInv, Executing
  <2>2. curr[e] # t
    BY <1>4, OneProcessor
  <2> QED BY <1>3, <2>1, <2>2, ConstantsAssumption
<1>8. \A u \in Task : u # t => job'[u] = job[u]
  BY <1>3 DEF IInv, TypeOK
<1>9. Located' /\ Ordered' /\ ~panic' /\ panic' \in BOOLEAN /\ Left(t, s, on)
  <2>1. \A u \in Task : u \in Runnable' <=> u \in Runnable /\ u # t
    <3>1. \A d \in CPU : phase[d] = "resim" => curr'[d] = curr[d]
      BY <1>3, <1>6
    <3> QED BY <1>3, <3>1, RunnableIs
  <2>2. rt' \in SUBSET rt /\ t \notin rt' /\ Task \ rt' \subseteq running'
    BY <1>3 DEF IInv, Located
  <2>3. setup' = setup /\ now' = now /\ relq' = relq
    BY <1>3
  <2> QED BY <1>1, <1>3, <1>5, <1>8, <2>1, <2>2, <2>3, Removed
<1>10. Current(e) \in Task \cup CPU
  BY DEF IInv, TypeOK, Current
<1>11. on.cpu = e /\ on.current \in Task \cup CPU /\ on.tif \subseteq Task \cup CPU
  BY <1>2, <1>10 DEF On, IInv, TypeOK
<1>12. /\ ready' \in [Ids -> SUBSET Task] /\ highest_prio' \in [Ids -> Task \cup {NULL}]
       /\ \A r \in Ids : r # s => highest_prio'[r] = highest_prio[r]
       /\ on.tif \subseteq tif' /\ tif' \subseteq Task \cup CPU /\ ipi \subseteq ipi' /\ ipi' \subseteq CPU
       /\ \/ highest_prio'[s] = highest_prio[s]
          \/ highest_prio[s] = t /\ highest_prio'[s] = NULL
          \/ <<s, curr_reserve[s]>> \in is_currently_scheduled => curr_reserve[s] \in ipi' \cup {e}
       /\ curr[e] # t => highest_prio'[s] = highest_prio[s]
  BY <1>5, <1>9, <1>11 DEF Left
<1>13. TypeOK'
  <2>1. Ids' = Ids
    BY <1>3, SetupKept
  <2>2. job' \in [Task -> [release : Nat, deadline : Nat]]
    BY <1>3 DEF IInv, TypeOK
  <2>3. flags' \in [Task -> {"RUNNING", "SLEEP"}] /\ rt' \subseteq Task /\ running' \subseteq Task /\ spent' \subseteq Task
    BY <1>3 DEF IInv, TypeOK
  <2>4. curr' \in [CPU -> Task \cup {NULL}] /\ stack_in_use' \in [Task -> CPU \cup {NO_CPU}]
    BY <1>3 DEF IInv, TypeOK
  <2> QED BY <1>3, <1>9, <1>12, <2>1, <2>2, <2>3, <2>4 DEF IInv, TypeOK
<1>14. Hosted' /\ Executing' /\ Picked'
  <2>1. \A u \in Task : stack_in_use'[u] = IF u = t THEN NO_CPU ELSE stack_in_use[u]
    BY <1>3 DEF IInv, TypeOK
  <2>2. curr'[e] # NULL => /\ curr'[e] \in rt' /\ curr'[e] \in Task /\ Server[curr'[e]] \in Ids
                           /\ stack_in_use'[curr'[e]] = e /\ curr'[e] \notin relq[Server[curr'[e]]]
    <3> SUFFICES ASSUME curr[e] # t, curr[e] # NULL
                 PROVE  /\ curr[e] \in rt /\ curr[e] \in Task /\ Server[curr[e]] \in Ids
                        /\ stack_in_use[curr[e]] = e /\ curr[e] \notin relq[Server[curr[e]]]
      BY <1>3, <1>6, <2>1
    <3> QED BY <1>3, Typed DEF IInv, Executing
  <2>3. \A d \in CPU : d # e => phase'[d] = phase[d] /\ curr'[d] = curr[d]
    BY <1>3, <1>6
  <2>4. phase'[e] \in {"run", "sched"} /\ \A r \in Ids : relq'[r] \subseteq relq[r]
    BY <1>3
  <2>5. \A u \in rt : u \in rt' \/ u = curr[e] \/ stack_in_use[u] = NO_CPU
    BY <1>3
  <2>6. \A u \in rt \cap running : u \in rt' \cap running' \/ u = curr[e]
    BY <1>3
  <2>7. \A u \in Task : \/ stack_in_use'[u] = stack_in_use[u]
                        \/ stack_in_use'[u] = NO_CPU /\ (u = curr[e] \/ stack_in_use[u] = NO_CPU)
    BY <1>3, <2>1
  <2> QED BY <1>3, <2>2, <2>3, <2>4, <2>5, <2>6, <2>7, HandlerStep
<1>15. FollowsAt(e)'
  <2>1. CASE curr[e] = t
    <3>1. Current(e)' \in tif'
      BY <1>2, <1>6, <1>12, <2>1 DEF Current
    <3> QED BY <1>3, <1>4, <1>12, <3>1, OwnFollows
  <2>2. CASE curr[e] # t
    <3>1. tif \subseteq tif' /\ curr'[e] = curr[e] /\ highest_prio'[s] = highest_prio[s]
      BY <1>2, <1>6, <1>12, <2>2 DEF On
    <3> QED BY <1>3, <1>4, <1>12, <3>1, OwnFollows
  <2> QED BY <2>1, <2>2
<1>16. ASSUME NEW d \in CPU, d # e PROVE FollowsAt(d)'
  <2>1. ASSUME phase[d] = "resim" PROVE t # curr[d] /\ ~(t = next[d] /\ t = highest_prio[cpu_reserve[d]])
    <3>1. t # curr[d]
      BY <1>7, <1>16
    <3>2. ASSUME t = next[d], t = highest_prio[cpu_reserve[d]] PROVE FALSE
      <4>1. t \in running
        BY <1>4, <3>2, HighestPrioTask DEF IInv, TypeOK
      <4>2. stack_in_use[t] = e
        BY <1>3, <1>4, <4>1 DEF IInv, Executing
      <4>3. stack_in_use[t] = NO_CPU
        BY <1>4, <2>1, <3>2, ZenonT(40) DEF IInv, Picked, PickedAt, Chosen
      <4> QED BY <4>2, <4>3, ConstantsAssumption
    <3> QED BY <3>1, <3>2
  <2>2. phase'[d] = phase[d] /\ next'[d] = next[d] /\ curr'[d] = curr[d] /\ cpu_reserve'[d] = cpu_reserve[d]
          /\ is_currently_scheduled' = is_currently_scheduled /\ setup' = setup
    BY <1>3, <1>6, <1>16
  <2>3. \/ highest_prio'[s] = highest_prio[s]
        \/ <<s, curr_reserve[s]>> \in is_currently_scheduled => curr_reserve[s] \in ipi' \cup {e}
        \/ highest_prio'[s] = NULL /\ highest_prio[s] = curr[e] /\ curr[e] # NULL
    BY <1>4, <1>12
  <2>4. Current(d) # t
    BY <1>7, <1>16, ConstantsAssumption DEF Current
  <2>5. (d \in ipi => d \in ipi') /\ (Current(d) \in tif => Current(d) \in tif')
    BY <1>2, <1>12, <2>4 DEF On
  <2> QED BY <1>8, <1>12, <1>16, <2>1, <2>2, <2>3, <2>5, OthersFollow, SMTT(40)
<1> QED BY <1>9, <1>13, <1>14, <1>15, <1>16 DEF IInv, Follows

\* npsf_task_block()
LEMMA BlockInv ==
  ASSUME IInv, NEW c \in CPU, block(c)
  PROVE  IInv'
<1>1. PICK t \in Task : t = curr[c]
  BY ConstantsAssumption DEF block
<1>2. PICK s : s = Server[t]
  OBVIOUS
<1>3. /\ phase[c] = "run" /\ Open(c) /\ running' = running \ {t} /\ remove_from_server(t, On(c))
      /\ UNCHANGED <<setup, rt, jobVars, relq, ownerVars, timeVars, switchVars, other, next, was_running>>
      /\ phase' = [phase EXCEPT ![c] = "sched"]
  BY <1>1 DEF block, Open, enter
<1>4. phase'[c] = "sched" /\ \A d \in CPU : d # c => phase'[d] = phase[d]
  BY <1>3 DEF IInv, TypeOK
<1>5. NULL \notin Task /\ t \in rt /\ s \in Ids /\ t \notin relq[s] /\ stack_in_use[t] = c
  <2>1. NULL \notin Task /\ t \in rt /\ stack_in_use[t] = c
    BY <1>1, Typed DEF IInv, Executing
  <2>2. t \notin relq[Server[t]]
    BY <1>1, <1>3, <2>1 DEF IInv, Executing
  <2> QED BY <1>2, <2>1, <2>2, Typed
<1>6. Located' /\ Ordered' /\ ~panic' /\ panic' \in BOOLEAN /\ Left(t, s, On(c))
  <2>1. \A u \in Task : u \in Runnable' <=> u \in Runnable /\ u # t
    BY <1>3, <1>4, RunnableIs
  <2>2. rt' \in SUBSET rt /\ Task \ rt' \subseteq running'
    BY <1>3, <1>5 DEF IInv, Located
  <2>3. setup' = setup /\ now' = now /\ relq' = relq /\ job' = job
    BY <1>3
  <2>4. PICK on : on = On(c)
    OBVIOUS
  <2>5. Located' /\ Ordered' /\ ~panic' /\ panic' \in BOOLEAN /\ Left(t, s, on)
    BY <1>2, <1>3, <1>5, <2>1, <2>2, <2>3, <2>4, Removed
  <2> QED BY <2>4, <2>5
<1>7. /\ ready' \in [Ids -> SUBSET Task] /\ highest_prio' \in [Ids -> Task \cup {NULL}]
      /\ \A r \in Ids : r # s => highest_prio'[r] = highest_prio[r]
      /\ tif \subseteq tif' /\ tif' \subseteq Task \cup CPU /\ ipi \subseteq ipi' /\ ipi' \subseteq CPU
      /\ \/ highest_prio'[s] = highest_prio[s]
         \/ highest_prio[s] = t /\ highest_prio'[s] = NULL
         \/ <<s, curr_reserve[s]>> \in is_currently_scheduled => curr_reserve[s] \in ipi' \cup {c}
  <2>1. Current(c) \in Task \cup CPU /\ tif \subseteq Task \cup CPU
    BY DEF IInv, TypeOK, Current
  <2> QED BY <1>6, <2>1 DEF Left, On
<1>8. TypeOK'
  <2>1. Ids' = Ids
    BY <1>3, SetupKept
  <2>2. phase' \in [CPU -> {"run", "sched", "swap", "back", "notify", "wait", "resim", "attach", "switch"}]
    BY <1>3 DEF IInv, TypeOK
  <2> QED BY <1>3, <1>6, <1>7, <2>1, <2>2 DEF IInv, TypeOK
<1>9. Hosted' /\ Executing' /\ Picked'
  <2>1. \A u \in rt \cap running : u \in rt' \cap running' \/ u = curr[c]
    BY <1>1, <1>3
  <2> QED BY <1>1, <1>2, <1>3, <1>4, <1>5, <2>1, HandlerStep
<1>10. FollowsAt(c)'
  <2>1. FollowsAt(c)
    BY DEF IInv, Follows
  <2> QED BY <1>3, <1>4, <2>1 DEF FollowsAt, Chosen
<1>11. ASSUME NEW d \in CPU, d # c PROVE FollowsAt(d)'
  <2>1. phase[d] = "resim" => NULL # curr[d] /\ NULL # next[d]
    BY Typed DEF IInv, Executing, Picked, PickedAt, Migrating
  <2>2. phase'[d] = phase[d] /\ next'[d] = next[d] /\ curr'[d] = curr[d] /\ cpu_reserve'[d] = cpu_reserve[d]
          /\ is_currently_scheduled' = is_currently_scheduled /\ setup' = setup /\ job' = job
    BY <1>3, <1>4, <1>11
  <2>3. \/ highest_prio'[s] = highest_prio[s]
        \/ <<s, curr_reserve[s]>> \in is_currently_scheduled => curr_reserve[s] \in ipi' \cup {c}
        \/ highest_prio'[s] = NULL /\ highest_prio[s] = curr[c] /\ curr[c] # NULL
    BY <1>1, <1>5, <1>7
  <2>4. (d \in ipi => d \in ipi') /\ (Current(d) \in tif => Current(d) \in tif')
    BY <1>7
  <2> QED BY <1>7, <1>11, <2>1, <2>2, <2>3, <2>4, OthersFollow, ZenonT(40)
<1> QED BY <1>6, <1>8, <1>9, <1>10, <1>11 DEF IInv, Follows

\* litmus_schedule() simulates that the previous task blocks ...
LEMMA ResimBlockInv ==
  ASSUME IInv, NEW c \in CPU, resim_block(c)
  PROVE  IInv'
<1>1. PICK t : t = curr[c]
  OBVIOUS
<1>2. PICK s : s = Server[t]
  OBVIOUS
<1>3. /\ phase[c] = "wait" /\ stack_in_use[next[c]] = NO_CPU /\ t \in rt /\ t \in running /\ ~was_running[c]
      /\ remove_from_server(t, On(c))
      /\ phase' = [phase EXCEPT ![c] = "resim"]
      /\ UNCHANGED <<setup, taskVars, jobVars, relq, ownerVars, timeVars, switchVars, other, next, was_running>>
  BY <1>1 DEF resim_block, StackFree, PrevUnblocked
<1>4. phase'[c] = "resim" /\ \A d \in CPU : d # c => phase'[d] = phase[d]
  BY <1>3 DEF IInv, TypeOK
<1>5. NULL \notin Task /\ t \in Task /\ s \in Ids /\ t \notin relq[s] /\ task_cpu[t] = c
  <2>1. NULL \notin Task /\ t \in Task /\ t # NULL /\ s \in Ids
    BY <1>2, <1>3, Typed
  <2>2. t \notin relq[Server[t]]
    BY <1>1, <1>3, <2>1 DEF IInv, Executing
  <2> QED BY <1>1, <1>2, <2>1, <2>2, OneProcessor
<1>6. t \in Runnable
  <2>1. \A d \in CPU : phase[d] = "resim" => curr[d] # t
    BY <1>1, <1>3, <1>5, OneProcessor
  <2> QED BY <1>3, <2>1, RunnableIs
<1>7. Located' /\ Ordered' /\ ~panic' /\ panic' \in BOOLEAN /\ Left(t, s, On(c))
  <2>1. \A u \in Task : u \in Runnable' <=> u \in Runnable /\ u # t
    BY <1>1, <1>3, <1>4, RunnableIs
  <2>2. rt' \in SUBSET rt /\ Task \ rt' \subseteq running'
    BY <1>3, <1>5 DEF IInv, Located
  <2>3. setup' = setup /\ now' = now /\ relq' = relq /\ job' = job
    BY <1>3
  <2>4. PICK on : on = On(c)
    OBVIOUS
  <2>5. Located' /\ Ordered' /\ ~panic' /\ panic' \in BOOLEAN /\ Left(t, s, on)
    BY <1>2, <1>3, <1>5, <2>1, <2>2, <2>3, <2>4, Removed
  <2> QED BY <2>4, <2>5
<1>8. /\ ready' \in [Ids -> SUBSET Task] /\ highest_prio' \in [Ids -> Task \cup {NULL}]
      /\ \A r \in Ids : r # s => highest_prio'[r] = highest_prio[r]
      /\ tif \subseteq tif' /\ tif' \subseteq Task \cup CPU /\ ipi \subseteq ipi' /\ ipi' \subseteq CPU
      /\ \/ highest_prio'[s] = highest_prio[s]
         \/ highest_prio[s] = t /\ highest_prio'[s] = NULL
         \/ <<s, curr_reserve[s]>> \in is_currently_scheduled => curr_reserve[s] \in ipi' \cup {c}
      /\ highest_prio[s] # t => highest_prio'[s] = highest_prio[s]
  <2>1. Current(c) \in Task \cup CPU /\ tif \subseteq Task \cup CPU
    BY DEF IInv, TypeOK, Current
  <2> QED BY <1>7, <2>1 DEF Left, On
<1>9. TypeOK'
  <2>1. Ids' = Ids
    BY <1>3, SetupKept
  <2>2. phase' \in [CPU -> {"run", "sched", "swap", "back", "notify", "wait", "resim", "attach", "switch"}]
    BY <1>3 DEF IInv, TypeOK
  <2> QED BY <1>3, <1>7, <1>8, <2>1, <2>2 DEF IInv, TypeOK
<1>10. Hosted'
  BY <1>3, <1>4, HostedKept DEF IInv
<1>11. Executing'
  <2>1. \A d \in CPU : phase'[d] = "resim" => curr[d] \in rt' \cap running'
    BY <1>1, <1>3, <1>4 DEF IInv, Executing
  <2>2. \A d \in CPU : curr[d] # NULL /\ curr[d] \in relq'[Server[curr[d]]] =>
           /\ curr[d] \in relq[Server[curr[d]]]
           /\ phase'[d] = phase[d] /\ was_running'[d] = was_running[d]
    BY <1>1, <1>2, <1>3, <1>4, <1>5
  <2>3. \A d \in CPU : curr[d] # NULL => curr[d] \in rt'
    BY <1>3 DEF IInv, Executing
  <2> QED BY <1>3, <2>1, <2>2, <2>3, ExecutingKept DEF IInv
<1>12. ASSUME NEW d \in CPU PROVE PickedAt(d)'
  <2>1. PickedAt(d)
    BY DEF IInv, Picked
  <2>2. CASE d = c
    BY <1>3, <1>4, <2>1, <2>2 DEF PickedAt, Chosen, Migrating
  <2>3. CASE d # c
    BY <1>3, <1>4, <2>1, <2>3, PickedKept
  <2> QED BY <2>2, <2>3
<1>13. FollowsAt(c)'
  <2>1. FollowsAt(c) /\ PickedAt(c) /\ cpu_reserve[c] \in Ids
    BY DEF IInv, Follows, Picked, TypeOK
  <2>2. next[c] # t /\ next[c] # NULL
    BY <1>3, <1>5, <2>1 DEF PickedAt, Chosen, Migrating
  <2>3. UNCHANGED <<setup, next, curr, cpu_reserve, is_currently_scheduled, job>>
    BY <1>3
  <2>4. Unaware(c)' <=> Unaware(c)
    BY <2>3 DEF Unaware
  <2>5. setup.flag => <<cpu_reserve[c], c>> \in is_currently_scheduled
    BY <1>3, <2>1 DEF FollowsAt
  <2>6. CASE c \in ipi \/ Unaware(c)
    BY <1>4, <1>8, <2>3, <2>4, <2>5, <2>6 DEF FollowsAt
  <2>7. CASE c \notin ipi /\ ~Unaware(c) /\ s # cpu_reserve[c]
    <3>1. highest_prio'[cpu_reserve[c]] = highest_prio[cpu_reserve[c]]
      BY <1>8, <2>1, <2>7
    <3>2. highest_prio[cpu_reserve[c]] \in {next[c], NULL}
      BY <1>3, <2>1, <2>7 DEF FollowsAt, Chosen
    <3> QED BY <1>1, <1>2, <1>4, <2>3, <2>5, <2>7, <3>1, <3>2 DEF FollowsAt
  <2>8. CASE c \notin ipi /\ ~Unaware(c) /\ s = cpu_reserve[c]
    <3>1. highest_prio[s] \in {next[c], NULL}
      BY <1>3, <2>1, <2>8 DEF FollowsAt, Chosen
    <3>2. t \in ready[s]
      BY <1>2, <1>5, <1>6, <2>2, <3>1 DEF IInv, Located
    <3>3. ~edf_higher_prio(job, t, highest_prio[s])
      BY <1>5, <3>2 DEF IInv, Ordered, edf_preemption_needed
    <3>4. highest_prio[s] = next[c]
      BY <1>5, <3>1, <3>3 DEF edf_higher_prio
    <3>5. highest_prio'[s] = next[c] /\ highest_prio[s] # t
      BY <1>8, <2>2, <3>4
    <3>6. ~edf_higher_prio(job', curr'[c], next'[c])
      BY <1>1, <2>3, <3>3, <3>4
    <3> QED BY <1>4, <2>3, <2>5, <2>8, <3>5, <3>6 DEF FollowsAt
  <2> QED BY <2>6, <2>7, <2>8
<1>14. ASSUME NEW d \in CPU, d # c PROVE FollowsAt(d)'
  <2>1. phase[d] = "resim" => NULL # curr[d] /\ NULL # next[d]
    BY Typed DEF IInv, Executing, Picked, PickedAt, Migrating
  <2>2. phase'[d] = phase[d] /\ next'[d] = next[d] /\ curr'[d] = curr[d] /\ cpu_reserve'[d] = cpu_reserve[d]
          /\ is_currently_scheduled' = is_currently_scheduled /\ setup' = setup /\ job' = job
    BY <1>3, <1>4, <1>14
  <2>3. \/ highest_prio'[s] = highest_prio[s]
        \/ <<s, curr_reserve[s]>> \in is_currently_scheduled => curr_reserve[s] \in ipi' \cup {c}
        \/ highest_prio'[s] = NULL /\ highest_prio[s] = curr[c] /\ curr[c] # NULL
    BY <1>1, <1>5, <1>8
  <2>4. (d \in ipi => d \in ipi') /\ (Current(d) \in tif => Current(d) \in tif')
    BY <1>8
  <2> QED BY <1>8, <1>14, <2>1, <2>2, <2>3, <2>4, OthersFollow
<1> QED BY <1>7, <1>9, <1>10, <1>11, <1>12, <1>13, <1>14 DEF IInv, Picked, Follows

\* ... and wakes up again: it does not overtake the picked task.
LEMMA ResimWakeUpInv ==
  ASSUME IInv, NEW c \in CPU, resim_wake_up(c)
  PROVE  IInv'
<1>1. PICK t : t = curr[c]
  OBVIOUS
<1>2. PICK s : s = Server[t]
  OBVIOUS
<1>3. /\ phase[c] = "resim" /\ task_wake_up(t, c) /\ phase' = [phase EXCEPT ![c] = "attach"]
      /\ UNCHANGED <<setup, taskVars, ownerVars, timeVars, switchVars, other, next, was_running>>
  BY <1>1 DEF resim_wake_up
<1>4. phase'[c] = "attach" /\ \A d \in CPU : d # c => phase'[d] = phase[d]
  BY <1>3 DEF IInv, TypeOK
<1>5. NULL \notin Task /\ t \in rt /\ t \in running /\ t \in Task /\ s \in Ids /\ t \notin Runnable
  <2>1. t \in rt /\ t \in running
    BY <1>1, <1>3 DEF IInv, Executing
  <2> QED BY <1>1, <1>2, <1>3, <2>1, Typed, RunnableIs
<1>6. PICK js \in [Task -> Job] :
        /\ job' = js /\ relq' = relq /\ ~panic' /\ panic' \in BOOLEAN
        /\ reschedule_server(s, js, ready[s] \cup {t}, highest_prio[s], On(c))
        /\ js[t].release <= now /\ job[t].deadline <= js[t].deadline
        /\ \A u \in Task : u # t => js[u] = job[u]
        /\ flags' \in [Task -> {"RUNNING", "SLEEP"}] /\ spent' \subseteq spent
  BY <1>2, <1>3, <1>5, WakeUp
<1>7. \A r \in Ids : t \notin ready[r] /\ t \notin relq[r] /\ highest_prio[r] # t
  BY <1>5 DEF IInv, Located
<1>8. \A u \in Task : u \in Runnable' <=> u \in Runnable \/ u \in {t}
  <2>1. \A d \in CPU : d # c => curr[d] # t
    BY <1>1, <1>5, OneProcessor
  <2>2. \A d \in CPU : phase'[d] = "resim" => phase[d] = "resim" /\ curr'[d] = curr[d] /\ d # c
    BY <1>3, <1>4
  <2>3. \A d \in CPU : phase[d] = "resim" => d = c \/ (phase'[d] = "resim" /\ curr'[d] = curr[d])
    BY <1>3, <1>4
  <2> QED BY <1>1, <1>3, <1>5, <2>1, <2>2, <2>3, RunnableIs
<1>9. Located' /\ Ordered' /\ QueuesChanged(s, On(c))
  <2>1. PICK on : on = On(c)
    OBVIOUS
  <2>2. reschedule_server(s, js, ready[s] \cup {t}, highest_prio[s], on)
    BY <1>6, <2>1
  <2>3. \A u \in {t} : Server[u] = s /\ u \notin ready[s] /\ highest_prio[s] # u /\ js[u].release <= now
    BY <1>2, <1>5, <1>6, <1>7
  <2>4. \A r \in Ids : relq'[r] = IF r = s THEN relq[s] \ {t} ELSE relq[r]
    BY <1>5, <1>6, <1>7
  <2>5. rt' \in SUBSET Task /\ (\A u \in rt' : u \in rt \/ u \in {t}) /\ Task \ rt' \subseteq running'
    BY <1>3 DEF IInv, TypeOK, Located
  <2>6. setup' = setup /\ now' = now /\ job' = js /\ {t} \in SUBSET Task
          /\ \A u \in Task : u \notin {t} => js[u] = job[u]
    BY <1>3, <1>5, <1>6
  <2>7. Located' /\ Ordered' /\ QueuesChanged(s, on)
    BY <1>5, <1>8, <2>2, <2>3, <2>4, <2>5, <2>6, Enqueued
  <2> QED BY <2>1, <2>7
<1>10. /\ ready' \in [Ids -> SUBSET Task] /\ highest_prio' \in [Ids -> Task \cup {NULL}]
       /\ \A r \in Ids : r # s => highest_prio'[r] = highest_prio[r]
       /\ tif \subseteq tif' /\ tif' \subseteq Task \cup CPU /\ ipi \subseteq ipi' /\ ipi' \subseteq CPU
       /\ highest_prio'[s] # highest_prio[s] /\ <<s, curr_reserve[s]>> \in is_currently_scheduled =>
            IF curr_reserve[s] = c THEN Current(c) \in tif' ELSE curr_reserve[s] \in ipi'
  <2>1. Current(c) \in Task \cup CPU /\ tif \subseteq Task \cup CPU
    BY DEF IInv, TypeOK, Current
  <2> QED BY <1>9, <2>1 DEF QueuesChanged, On
<1>11. TypeOK'
  <2>1. Ids' = Ids
    BY <1>3, SetupKept
  <2>2. job' \in [Task -> [release : Nat, deadline : Nat]]
    BY <1>6 DEF Job
  <2>3. phase' \in [CPU -> {"run", "sched", "swap", "back", "notify", "wait", "resim", "attach", "switch"}]
    BY <1>3 DEF IInv, TypeOK
  <2> QED BY <1>3, <1>6, <1>10, <2>1, <2>2, <2>3 DEF IInv, TypeOK
<1>12. Hosted'
  BY <1>3, <1>4, HostedKept DEF IInv
<1>13. Executing'
  <2>1. \A d \in CPU : phase'[d] = "resim" => curr[d] \in rt' \cap running'
    BY <1>3, <1>4 DEF IInv, Executing
  <2>2. \A d \in CPU : curr[d] # NULL /\ curr[d] \in relq'[Server[curr[d]]] =>
           /\ curr[d] \in relq[Server[curr[d]]]
           /\ phase'[d] = phase[d] /\ was_running'[d] = was_running[d]
    BY <1>1, <1>2, <1>3, <1>4, <1>5, <1>6, <1>7
  <2>3. \A d \in CPU : curr[d] # NULL => curr[d] \in rt'
    BY <1>3 DEF IInv, Executing
  <2> QED BY <1>3, <2>1, <2>2, <2>3, ExecutingKept DEF IInv
<1>14. ASSUME NEW d \in CPU PROVE PickedAt(d)'
  <2>1. PickedAt(d)
    BY DEF IInv, Picked
  <2>2. CASE d = c
    BY <1>3, <1>4, <1>6, <2>1, <2>2 DEF PickedAt, Chosen, Migrating
  <2>3. CASE d # c
    BY <1>3, <1>4, <1>6, <2>1, <2>3, PickedKept
  <2> QED BY <2>2, <2>3
<1>15. FollowsAt(c)'
  <2>1. FollowsAt(c) /\ PickedAt(c) /\ cpu_reserve[c] \in Ids
    BY DEF IInv, Follows, Picked, TypeOK
  <2>2. next[c] # NULL /\ next[c] \in Task
    BY <1>3, <2>1 DEF PickedAt, Migrating, IInv, TypeOK
  <2>3. UNCHANGED <<setup, next, curr, cpu_reserve, is_currently_scheduled>>
    BY <1>3
  <2>4. Unaware(c)' <=> Unaware(c)
    BY <2>3 DEF Unaware
  <2>5. setup.flag => <<cpu_reserve[c], c>> \in is_currently_scheduled
    BY <1>3, <2>1 DEF FollowsAt
  <2>6. CASE c \in ipi \/ Unaware(c)
    BY <1>4, <1>10, <2>3, <2>4, <2>5, <2>6 DEF FollowsAt
  <2>7. CASE c \notin ipi /\ ~Unaware(c) /\ s # cpu_reserve[c]
    <3>1. highest_prio'[cpu_reserve[c]] = highest_prio[cpu_reserve[c]]
      BY <1>10, <2>1, <2>7
    <3>2. highest_prio[cpu_reserve[c]] \in {next[c], NULL}
      BY <1>3, <2>1, <2>7 DEF FollowsAt, Chosen
    <3> QED BY <1>4, <2>3, <2>5, <3>1, <3>2 DEF FollowsAt
  <2>8. CASE c \notin ipi /\ ~Unaware(c) /\ s = cpu_reserve[c]
    <3>1. highest_prio[s] = next[c] /\ ~edf_higher_prio(job, t, next[c])
      BY <1>1, <1>2, <1>3, <2>1, <2>8 DEF FollowsAt
    <3>2. next[c] # t
      BY <1>5, <1>7, <3>1
    <3>3. ASSUME NEW u \in ready[s] \cup {t} PROVE ~edf_higher_prio(js, u, next[c])
      <4>1. job[t].deadline \in Nat /\ js[t].deadline \in Nat /\ job[next[c]].deadline \in Nat
              /\ js[next[c]] = job[next[c]] /\ t \in Nat /\ next[c] \in Nat
        <5>1. job \in [Task -> Job]
          BY Typed
        <5> QED BY <1>5, <1>6, <2>2, <3>2, <5>1, ConstantsAssumption DEF Job
      <4>2. CASE u = t
        BY <1>6, <2>2, <3>1, <4>1, <4>2 DEF edf_higher_prio
      <4>3. CASE u # t
        <5>1. u \in ready[s] /\ u \in Task
          BY <1>5, <4>3, Typed
        <5>2. ~edf_higher_prio(job, u, next[c])
          BY <1>5, <3>1, <5>1 DEF IInv, Ordered, edf_preemption_needed
        <5>3. js[u] = job[u]
          BY <1>6, <4>3, <5>1
        <5> QED BY <4>1, <5>2, <5>3 DEF edf_higher_prio
      <4> QED BY <4>2, <4>3
    <3>4. ~edf_preemption_needed(js, ready[s] \cup {t}, highest_prio[s])
      BY <3>1, <3>3 DEF edf_preemption_needed
    <3>5. highest_prio' = [highest_prio EXCEPT ![s] = highest_prio[s]]
      BY <1>6, <3>4 DEF reschedule_server
    <3>6. highest_prio'[s] = next[c]
      BY <1>5, <3>1, <3>5, Typed
    <3> QED BY <1>4, <2>3, <2>5, <2>8, <3>6 DEF FollowsAt
  <2> QED BY <2>6, <2>7, <2>8
<1>16. ASSUME NEW d \in CPU, d # c PROVE FollowsAt(d)'
  <2>1. t # curr[d] /\ ~(t = next[d] /\ t = highest_prio[cpu_reserve[d]])
    <3>1. cpu_reserve[d] \in Ids
      BY Typed
    <3> QED BY <1>1, <1>5, <1>7, <1>16, <3>1, OneProcessor
  <2>2. phase'[d] = phase[d] /\ next'[d] = next[d] /\ curr'[d] = curr[d] /\ cpu_reserve'[d] = cpu_reserve[d]
          /\ is_currently_scheduled' = is_currently_scheduled /\ setup' = setup
    BY <1>3, <1>4, <1>16
  <2>3. \/ highest_prio'[s] = highest_prio[s]
        \/ <<s, curr_reserve[s]>> \in is_currently_scheduled => curr_reserve[s] \in ipi' \cup {c}
    BY <1>10
  <2>4. (d \in ipi => d \in ipi') /\ (Current(d) \in tif => Current(d) \in tif')
    BY <1>10
  <2>5. \A u \in Task : u # t => job'[u] = job[u]
    BY <1>6
  <2> QED BY <1>10, <1>16, <2>1, <2>2, <2>3, <2>4, <2>5, OthersFollow, SMTT(40)
<1> QED BY <1>6, <1>9, <1>11, <1>12, <1>13, <1>14, <1>15, <1>16 DEF IInv, Picked, Follows

\* What npsf_schedule_server() does to the server that c serves: a complete job
\* returns to the ready queue, or waits for its next release.
LEMMA ServerScheduled ==
  ASSUME IInv, NEW c \in CPU, schedule_server(c), NEW s, s = cpu_reserve[c], NEW t, t = curr[c]
  PROVE  /\ Located' /\ Ordered' /\ ~panic' /\ panic' \in BOOLEAN
         /\ job' \in [Task -> Job] /\ ready' \in [Ids -> SUBSET Task] /\ relq' \in [Ids -> SUBSET Task]
         /\ highest_prio' \in [Ids -> Task \cup {NULL}] /\ spent' \subseteq spent
         /\ \A r \in Ids : r # s => highest_prio'[r] = highest_prio[r] /\ relq'[r] = relq[r]
         /\ \A u \in Task : u \in relq'[s] => u \in relq[s] \/ (u = t /\ t \in running)
         /\ \A u \in Task : u # t => job'[u] = job[u]
<1>1. s \in Ids /\ NULL \notin Task /\ job \in [Task -> Job] /\ now \in Nat
        /\ ready \in [Ids -> SUBSET Task] /\ relq \in [Ids -> SUBSET Task]
        /\ highest_prio \in [Ids -> Task \cup {NULL}] /\ rt \subseteq Task
  BY Typed DEF IInv, TypeOK
<1>2. phase[c] = "sched" /\ UNCHANGED <<setup, taskVars, timeVars, switchVars>>
  BY DEF schedule_server
<1>3. \A d \in CPU : d # c => phase'[d] = phase[d]
  BY DEF schedule_server, pick, IInv, TypeOK
<1>4. phase'[c] # "resim"
  BY DEF schedule_server, pick, IInv, TypeOK
<1>5. Runnable' = Runnable
  <2>1. \A d \in CPU : phase'[d] = "resim" <=> phase[d] = "resim"
    BY <1>2, <1>3, <1>4
  <2> QED BY <1>2, <2>1 DEF Runnable
<1>6. PICK completes \in BOOLEAN :
        completes <=> t \in rt /\ Server[t] = s /\ t \in running /\ (t \in spent \/ flags[t] = "SLEEP")
  OBVIOUS
<1>7. CASE ~completes
  <2>1. job' = job /\ spent' = spent /\ relq' = relq /\ ready' = [ready EXCEPT ![s] = ready[s]]
          /\ highest_prio' = [highest_prio EXCEPT ![s] = highest_prio[s]]
          /\ BugOn(t \in rt /\ Server[t] = s /\ t \notin running /\ t = highest_prio[s])
    BY <1>6, <1>7 DEF schedule_server, BugOn
  <2>2. ready' = ready /\ highest_prio' = highest_prio
    BY <1>1, <2>1
  <2>3. ~(t \in rt /\ t \notin running /\ t = highest_prio[s])
    BY <1>1, HighestPrioTask DEF IInv
  <2>4. ~panic' /\ panic' \in BOOLEAN
    BY <2>1, <2>3 DEF BugOn, IInv
  <2>5. Located' /\ Ordered'
    <3>1. now' \in Nat /\ now <= now'
      BY <1>1, <1>2
    <3>2. \A d \in CPU : phase'[d] = "resim" <=> phase[d] = "resim"
      BY <1>2, <1>3, <1>4
    <3> QED BY <1>2, <2>1, <2>2, <3>1, <3>2, QueuesSame DEF IInv
  <2> QED BY <1>1, <2>1, <2>2, <2>4, <2>5
<1>8. CASE completes
  <2>1. t \in Task /\ t \in rt /\ t \in running /\ Server[t] = s
    BY <1>1, <1>6, <1>8
  <2>2. t \in Runnable /\ t \notin relq[s]
    <3>1. \A d \in CPU : phase[d] = "resim" => curr[d] # t
      BY <1>1, <1>2, <2>1, OneProcessor
    <3>2. t \notin relq[Server[t]]
      BY <1>1, <1>2, <2>1 DEF IInv, Executing
    <3> QED BY <2>1, <3>1, <3>2, RunnableIs
  <2>3. PICK js : js = [job EXCEPT ![t] = prepare_for_next_period(t, @)]
    OBVIOUS
  <2>4. /\ js \in [Task -> Job] /\ (\A u \in Task : u # t => js[u] = job[u])
        /\ job[t].deadline \in Nat /\ js[t].deadline \in Nat /\ job[t].deadline < js[t].deadline
    <3>1. Period[t] \in Nat \ {0}
      BY <2>1, ConstantsAssumption
    <3>2. job[t] \in Job /\ job[t].deadline \in Nat
      BY <1>1, <2>1 DEF Job
    <3>3. prepare_for_next_period(t, job[t]) = [release |-> job[t].deadline, deadline |-> job[t].deadline + Period[t]]
      BY DEF prepare_for_next_period
    <3>4. prepare_for_next_period(t, job[t]) \in Job /\ prepare_for_next_period(t, job[t]).deadline \in Nat
            /\ job[t].deadline < prepare_for_next_period(t, job[t]).deadline
      BY <3>1, <3>2, <3>3 DEF Job
    <3> QED BY <1>1, <2>1, <2>3, <3>2, <3>4
  <2>5. PICK rel \in BOOLEAN : rel <=> js[t].release <= now
    OBVIOUS
  <2>6. PICK Q : Q = IF rel THEN ready[s] \cup {t} ELSE ready[s] \ {t}
    OBVIOUS
  <2>7. Q \in SUBSET Task
    BY <1>1, <2>1, <2>6
  <2>8. relq' = IF ~rel THEN [relq EXCEPT ![s] = @ \cup {t}] ELSE relq
    BY <1>6, <1>8, <2>3, <2>5 DEF schedule_server, is_released
  <2>9. /\ relq' \in [Ids -> SUBSET Task] /\ \A r \in Ids : r # s => relq'[r] = relq[r]
        /\ relq'[s] = IF rel THEN relq[s] ELSE relq[s] \cup {t}
    BY <1>1, <2>1, <2>8
  <2>10. job' = js /\ spent' = spent \ {t}
    BY <1>6, <1>8, <2>3 DEF schedule_server
  <2>11. \A u \in Task : u \in ready[s] \/ u \in relq[s] \/ highest_prio[s] = u <=> u \in Runnable /\ Server[u] = s
    BY <1>1 DEF IInv, Located
  <2>12. /\ highest_prio[s] \notin ready[s] /\ highest_prio[s] \notin relq[s]
         /\ \A u \in Task : ~(u \in ready[s] /\ u \in relq[s])
    BY <1>1 DEF IInv, Located
  <2>13. /\ ready' \in [Ids -> SUBSET Task] /\ highest_prio' \in [Ids -> Task \cup {NULL}]
         /\ \A r \in Ids : r # s => ready'[r] = ready[r] /\ highest_prio'[r] = highest_prio[r]
         /\ \A u \in Task : u \in ready'[s] \/ highest_prio'[s] = u <=>
              \/ (u \in ready[s] \/ highest_prio[s] = u) /\ u # t
              \/ u = t /\ rel
         /\ highest_prio'[s] \notin ready'[s]
         /\ ~edf_preemption_needed(js, ready'[s], highest_prio'[s])
         /\ ~panic' /\ panic' \in BOOLEAN
    <3>1. CASE highest_prio[s] = t
      <4>1. PICK hp : hp = take_ready(js, Q)
        OBVIOUS
      <4>2. /\ ready' = [ready EXCEPT ![s] = Q \ {hp}] /\ highest_prio' = [highest_prio EXCEPT ![s] = hp]
            /\ BugOn(is_queued(t) \/ (t \notin running /\ t = hp))
        BY <1>6, <1>8, <2>1, <2>3, <2>5, <2>6, <3>1, <4>1 DEF schedule_server, is_released, BugOn
      <4>3. \A r \in Ids : t \notin ready[r] /\ t \notin relq[r]
        BY <1>1, <2>1, <3>1 DEF IInv, Located
      <4>4. ~panic' /\ panic' \in BOOLEAN
        BY <2>1, <4>2, <4>3 DEF BugOn, is_queued, IInv
      <4>5. CASE Q = {}
        <5>1. hp = NULL
          BY <4>1, <4>5 DEF take_ready
        <5>2. ready'[s] = {} /\ highest_prio'[s] = NULL /\ ready' \in [Ids -> SUBSET Task]
                /\ highest_prio' \in [Ids -> Task \cup {NULL}]
                /\ \A r \in Ids : r # s => ready'[r] = ready[r] /\ highest_prio'[r] = highest_prio[r]
          BY <1>1, <4>2, <4>5, <5>1
        <5> QED BY <1>1, <2>1, <2>6, <3>1, <4>4, <4>5, <5>2 DEF edf_preemption_needed
      <4>6. CASE Q # {}
        <5>1. hp \in Q /\ hp \in Task /\ \A u \in Q : ~edf_higher_prio(js, u, hp)
          BY <2>4, <2>7, <4>1, <4>6, TakeReady
        <5>2. ready'[s] = Q \ {hp} /\ highest_prio'[s] = hp /\ ready' \in [Ids -> SUBSET Task]
                /\ highest_prio' \in [Ids -> Task \cup {NULL}]
                /\ \A r \in Ids : r # s => ready'[r] = ready[r] /\ highest_prio'[r] = highest_prio[r]
          BY <1>1, <2>7, <4>2, <5>1
        <5>3. ~edf_preemption_needed(js, ready'[s], highest_prio'[s])
          BY <5>1, <5>2 DEF edf_preemption_needed
        <5>4. \A u \in Task : u \in ready'[s] \/ highest_prio'[s] = u <=>
                \/ (u \in ready[s] \/ highest_prio[s] = u) /\ u # t
                \/ u = t /\ rel
          BY <1>1, <2>1, <2>6, <3>1, <4>3, <5>1, <5>2
        <5> QED BY <4>4, <5>2, <5>3, <5>4
      <4> QED BY <4>5, <4>6
    <3>2. CASE highest_prio[s] # t
      <4>1. t \in ready[s]
        BY <2>1, <2>2, <2>11, <3>2
      <4>2. /\ ready' = [ready EXCEPT ![s] = Q] /\ highest_prio' = [highest_prio EXCEPT ![s] = highest_prio[s]]
            /\ BugOn(t \notin ready[s] \/ (t \notin running /\ t = highest_prio[s]))
        BY <1>6, <1>8, <2>1, <2>3, <2>5, <2>6, <3>2 DEF schedule_server, is_released, BugOn
      <4>3. ~panic' /\ panic' \in BOOLEAN
        BY <2>1, <4>1, <4>2 DEF BugOn, IInv
      <4>4. highest_prio' = highest_prio /\ ready' \in [Ids -> SUBSET Task] /\ ready'[s] = Q
              /\ \A r \in Ids : r # s => ready'[r] = ready[r]
        BY <1>1, <2>7, <4>2
      <4>5. \A u \in ready[s] : ~edf_higher_prio(job, u, highest_prio[s])
        BY <1>1 DEF IInv, Ordered, edf_preemption_needed
      <4>6. highest_prio[s] # NULL /\ highest_prio[s] \in Task /\ js[highest_prio[s]] = job[highest_prio[s]]
              /\ job[highest_prio[s]].deadline \in Nat
        <5>1. highest_prio[s] # NULL
          BY <1>1, <2>1, <4>1, <4>5 DEF edf_higher_prio
        <5> QED BY <1>1, <2>4, <3>2, <5>1 DEF Job
      <4>7. ASSUME NEW u \in Q PROVE ~edf_higher_prio(js, u, highest_prio[s])
        <5>1. u \in ready[s] /\ u \in Task
          BY <2>6, <2>7, <4>1
        <5>2. CASE u = t
          <6>1. ~edf_higher_prio(job, t, highest_prio[s])
            BY <4>1, <4>5
          <6> QED BY <2>4, <3>2, <4>6, <5>2, <6>1 DEF edf_higher_prio
        <5>3. CASE u # t
          BY <2>4, <4>5, <4>6, <5>1, <5>3 DEF edf_higher_prio
        <5> QED BY <5>2, <5>3
      <4>8. ~edf_preemption_needed(js, ready'[s], highest_prio'[s])
        BY <4>4, <4>7 DEF edf_preemption_needed
      <4>9. highest_prio'[s] \notin ready'[s]
        BY <2>6, <2>12, <3>2, <4>4
      <4>10. \A u \in Task : u \in ready'[s] \/ highest_prio'[s] = u <=>
               \/ (u \in ready[s] \/ highest_prio[s] = u) /\ u # t
               \/ u = t /\ rel
        BY <2>6, <3>2, <4>1, <4>4
      <4> QED BY <1>1, <4>3, <4>4, <4>8, <4>9, <4>10
    <3> QED BY <3>1, <3>2
  <2>14. \A u \in Task : u \in ready'[s] \/ u \in relq'[s] \/ highest_prio'[s] = u <=> u \in Runnable' /\ Server[u] = s
    BY <1>5, <2>1, <2>2, <2>9, <2>11, <2>13
  <2>15. \A u \in Task : u \in ready'[s] \/ highest_prio'[s] = u => u \notin relq'[s]
    BY <2>2, <2>9, <2>12, <2>13
  <2>16. Located' /\ Ordered'
    <3>1. \A u \in Task : Server[u] # s => (u \in Runnable' <=> u \in Runnable) /\ job'[u] = job[u]
                                             /\ (u \in rt' => u \in rt)
      BY <1>2, <1>5, <2>1, <2>4, <2>10
    <3>2. highest_prio'[s] \notin relq'[s] /\ \A u \in Task : ~(u \in ready'[s] /\ u \in relq'[s])
      BY <1>1, <2>9, <2>15
    <3>3. \A u \in rt' : Server[u] = s => u \in relq'[s] \/ job'[u].release <= now
      <4> SUFFICES ASSUME NEW u \in rt', Server[u] = s PROVE u \in relq'[s] \/ job'[u].release <= now
        OBVIOUS
      <4>1. u \in Task /\ u \in rt
        BY <1>1, <1>2
      <4>2. CASE u = t
        BY <2>5, <2>9, <2>10, <4>2
      <4>3. CASE u # t
        BY <2>4, <2>9, <2>10, <4>1, <4>3 DEF IInv, Ordered
      <4> QED BY <4>2, <4>3
    <3>4. rt' \in SUBSET Task /\ Task \ rt' \subseteq running' /\ setup' = setup /\ now' = now
      BY <1>1, <1>2 DEF IInv, Located
    <3>5. \A r \in Ids : r # s => ready'[r] = ready[r] /\ relq'[r] = relq[r] /\ highest_prio'[r] = highest_prio[r]
      BY <2>9, <2>13
    <3>6. highest_prio'[s] \notin ready'[s] /\ ready'[s] \in SUBSET Task
            /\ ~edf_preemption_needed(job', ready'[s], highest_prio'[s])
      BY <1>1, <2>10, <2>13
    <3> QED BY <1>1, <2>14, <3>1, <3>2, <3>3, <3>4, <3>5, <3>6, QueuesKept DEF IInv
  <2> QED BY <2>1, <2>4, <2>9, <2>10, <2>13, <2>16
<1> QED BY <1>7, <1>8

\* npsf_schedule() under the lock of the server it serves.
LEMMA ScheduleServerInv ==
  ASSUME IInv, NEW c \in CPU, schedule_server(c)
  PROVE  IInv'
<1>1. PICK s, t : s = cpu_reserve[c] /\ t = curr[c]
  OBVIOUS
<1>2. /\ Located' /\ Ordered' /\ ~panic' /\ panic' \in BOOLEAN
      /\ job' \in [Task -> Job] /\ ready' \in [Ids -> SUBSET Task] /\ relq' \in [Ids -> SUBSET Task]
      /\ highest_prio' \in [Ids -> Task \cup {NULL}] /\ spent' \subseteq spent
      /\ \A r \in Ids : r # s => highest_prio'[r] = highest_prio[r] /\ relq'[r] = relq[r]
      /\ \A u \in Task : u \in relq'[s] => u \in relq[s] \/ (u = t /\ t \in running)
      /\ \A u \in Task : u # t => job'[u] = job[u]
  BY <1>1, ServerScheduled
<1>3. /\ phase[c] = "sched"
      /\ UNCHANGED <<setup, taskVars, curr_reserve, wants_ipi, cpu_reserve, timeVars, switchVars, sigVars>>
  BY DEF schedule_server
<1>4. s \in Ids /\ NULL \notin Task /\ highest_prio \in [Ids -> Task \cup {NULL}] /\ setup \in Setups /\ Ids' = Ids
        /\ s \in npsf_reserves(c) /\ curr_reserve[s] = c
  BY <1>1, <1>3, Typed, SetupKept DEF IInv, Hosted, ServesOwned
<1>5. PICK n, fl :
        /\ highest_prio' = [highest_prio EXCEPT ![s] = n]
        /\ fl \in [Task -> {"RUNNING", "SLEEP"}]
        /\ \/ /\ pick(c, n, fl)
              /\ UNCHANGED <<other, is_currently_scheduled>>
           \/ /\ get_current_reserve(c) # s
              /\ other' = [other EXCEPT ![c] = get_current_reserve(c)]
              /\ is_currently_scheduled' = is_currently_scheduled \ {<<s, c>>}
              /\ phase' = [phase EXCEPT ![c] = "swap"]
              /\ flags' = fl
              /\ UNCHANGED <<next, was_running>>
  <2>1. PICK completes \in BOOLEAN :
          completes <=> t \in rt /\ Server[t] = s /\ t \in running /\ (t \in spent \/ flags[t] = "SLEEP")
    OBVIOUS
  <2>2. PICK fl : fl = IF completes THEN [flags EXCEPT ![t] = "RUNNING"] ELSE flags
    OBVIOUS
  <2>3. fl \in [Task -> {"RUNNING", "SLEEP"}]
    BY <2>1, <2>2 DEF IInv, TypeOK
  <2> QED BY <1>1, <2>1, <2>2, <2>3 DEF schedule_server
<1>6. n = highest_prio'[s] /\ n \in Task \cup {NULL}
  BY <1>2, <1>4, <1>5
<1>7. n # NULL => n \in Task /\ n \in rt /\ n \in running /\ Server[n] = s /\ n \notin relq'[s]
  BY <1>2, <1>3, <1>4, <1>6, RunnableIs DEF Located
<1>8. get_current_reserve(c) \in npsf_reserves(c) /\ get_current_reserve(c) \in Ids
  BY <1>4, CurrentReserve, ReserveTyped DEF IInv, TypeOK, Hosted
<1>9. \A d \in CPU : d # c =>
        /\ phase'[d] = phase[d] /\ next'[d] = next[d] /\ was_running'[d] = was_running[d] /\ other'[d] = other[d]
        /\ <<cpu_reserve[d], d>> \in is_currently_scheduled' <=> <<cpu_reserve[d], d>> \in is_currently_scheduled
  <2> SUFFICES ASSUME NEW d \in CPU, d # c
               PROVE  /\ phase'[d] = phase[d] /\ next'[d] = next[d]
                      /\ was_running'[d] = was_running[d] /\ other'[d] = other[d]
                      /\ <<cpu_reserve[d], d>> \in is_currently_scheduled'
                           <=> <<cpu_reserve[d], d>> \in is_currently_scheduled
    OBVIOUS
  <2>1. TypeOK
    BY DEF IInv
  <2>2. CASE pick(c, n, fl) /\ UNCHANGED <<other, is_currently_scheduled>>
    <3>1. phase'[d] = phase[d] /\ next'[d] = next[d] /\ was_running'[d] = was_running[d]
      BY <2>1, <2>2 DEF pick, TypeOK
    <3> QED BY <2>2, <3>1
  <2>3. CASE /\ other' = [other EXCEPT ![c] = get_current_reserve(c)]
             /\ is_currently_scheduled' = is_currently_scheduled \ {<<s, c>>}
             /\ phase' = [phase EXCEPT ![c] = "swap"]
             /\ UNCHANGED <<next, was_running>>
    <3>1. phase'[d] = phase[d] /\ other'[d] = other[d]
      BY <2>1, <2>3 DEF TypeOK
    <3>2. <<cpu_reserve[d], d>> # <<s, c>>
      OBVIOUS
    <3> QED BY <2>3, <3>1, <3>2
  <2> QED BY <1>5, <2>2, <2>3
<1>10. TypeOK'
  <2>1. job' \in [Task -> [release : Nat, deadline : Nat]] /\ spent' \subseteq Task
    BY <1>2 DEF Job, IInv, TypeOK
  <2>2. flags' \in [Task -> {"RUNNING", "SLEEP"}]
    BY <1>5, <1>6 DEF pick
  <2>3. next' \in [CPU -> Task \cup {NULL}] /\ was_running' \in [CPU -> BOOLEAN]
    <3>1. next \in [CPU -> Task \cup {NULL}] /\ was_running \in [CPU -> BOOLEAN]
      BY DEF IInv, TypeOK
    <3>2. \/ next' = [next EXCEPT ![c] = n] /\ was_running' = [was_running EXCEPT ![c] = curr[c] \in running]
          \/ UNCHANGED <<next, was_running>>
      BY <1>5 DEF pick
    <3>3. next' \in [CPU -> Task \cup {NULL}]
      BY <1>6, <3>1, <3>2
    <3>4. was_running' \in [CPU -> BOOLEAN]
      <4>1. CASE UNCHANGED was_running
        BY <3>1, <4>1
      <4>2. CASE was_running' = [was_running EXCEPT ![c] = curr[c] \in running]
        <5>1. CASE curr[c] \in running
          BY <3>1, <4>2, <5>1
        <5>2. CASE curr[c] \notin running
          BY <3>1, <4>2, <5>2
        <5> QED BY <5>1, <5>2
      <4> QED BY <3>2, <4>1, <4>2
    <3> QED BY <3>3, <3>4
  <2>4. other' \in [CPU -> Ids \cup {NULL}] /\ is_currently_scheduled' \subseteq Ids \X CPU
    BY <1>5, <1>8, SMTT(40) DEF IInv, TypeOK
  <2>5. phase' \in [CPU -> {"run", "sched", "swap", "back", "notify", "wait", "resim", "attach", "switch"}]
    BY <1>5 DEF pick, IInv, TypeOK
  <2> QED BY <1>2, <1>3, <1>4, <2>1, <2>2, <2>3, <2>4, <2>5 DEF IInv, TypeOK
<1>11. \A d \in CPU : d # c /\ curr[d] # NULL => curr[d] # t /\ curr[d] \in Task /\ Server[curr[d]] \in Ids
  BY <1>1, OneProcessor, Typed
<1>12. ASSUME NEW d \in CPU, d # c, curr[d] # NULL, curr[d] \in relq'[Server[curr[d]]]
       PROVE  curr[d] \in relq[Server[curr[d]]]
  BY <1>2, <1>11, <1>12
<1>13. ASSUME NEW d \in CPU, d # c PROVE PickedAt(d)'
  <2>1. PickedAt(d) /\ cpu_reserve[d] # s /\ cpu_reserve[d] \in Ids
    BY <1>1, <1>13, OneProcessor, Typed DEF IInv, Picked
  <2>2. relq'[cpu_reserve[d]] = relq[cpu_reserve[d]]
    BY <1>2, <2>1
  <2>3. phase'[d] = phase[d] /\ next'[d] = next[d] /\ UNCHANGED <<cpu_reserve, task_cpu, rt, running, stack_in_use>>
    BY <1>3, <1>9, <1>13
  <2> QED BY <2>1, <2>2, <2>3, PickedKept
<1>14. ASSUME NEW d \in CPU, d # c PROVE FollowsAt(d)'
  <2>1. cpu_reserve[d] # s /\ cpu_reserve[d] \in Ids
    BY <1>1, <1>14, OneProcessor, Typed
  <2>2. phase[d] = "resim" => t # curr[d] /\ ~(t = next[d] /\ t = highest_prio[cpu_reserve[d]])
    <3> SUFFICES ASSUME phase[d] = "resim" PROVE t # curr[d] /\ ~(t = next[d])
      OBVIOUS
    <3>1. curr[d] # NULL
      BY Typed DEF IInv, Executing
    <3>2. next[d] # NULL /\ stack_in_use[next[d]] = NO_CPU
      BY DEF IInv, Picked, PickedAt, Chosen, Migrating
    <3>3. t # NULL => stack_in_use[t] = c
      BY <1>1 DEF IInv, Executing
    <3> QED BY <1>11, <1>14, <3>1, <3>2, <3>3, ConstantsAssumption
  <2>3. setup' = setup /\ cpu_reserve'[d] = cpu_reserve[d] /\ curr'[d] = curr[d] /\ tif' = tif /\ ipi' = ipi
    BY <1>3
  <2>4. curr_reserve[s] \in ipi' \cup {c}
    BY <1>4
  <2>5. /\ phase'[d] = phase[d] /\ next'[d] = next[d]
        /\ <<cpu_reserve[d], d>> \in is_currently_scheduled' <=> <<cpu_reserve[d], d>> \in is_currently_scheduled
    BY <1>9, <1>14
  <2>6. \A r \in Ids : r # s => highest_prio'[r] = highest_prio[r]
    BY <1>2
  <2>7. \A u \in Task : u # t => job'[u] = job[u]
    BY <1>2
  <2>8. /\ d \in ipi => d \in ipi'
        /\ phase[d] = "run" /\ Current(d) \in tif => Current(d) \in tif'
    BY <2>3
  <2>9. \/ highest_prio'[s] = highest_prio[s]
        \/ <<s, curr_reserve[s]>> \in is_currently_scheduled => curr_reserve[s] \in ipi' \cup {c}
        \/ highest_prio'[s] = NULL /\ highest_prio[s] = curr[c] /\ curr[c] # NULL
    BY <2>4
  <2> QED BY <1>14, <2>2, <2>3, <2>5, <2>6, <2>7, <2>8, <2>9, OthersFollow
<1>15. FollowsAt(c)
  BY DEF IInv, Follows
<1>16. CASE pick(c, n, fl) /\ UNCHANGED <<other, is_currently_scheduled>>
  <2>1. /\ next'[c] = n /\ was_running'[c] = (curr[c] \in running) /\ phase'[c] \in {"wait", "switch"}
        /\ phase'[c] = "wait" <=> n # NULL /\ task_cpu[n] # c
    BY <1>16 DEF pick, IInv, TypeOK
  <2>2. Hosted'
    BY <1>3, <1>9, <1>16, <2>1, HostedKept DEF IInv
  <2>3. Executing'
    <3>1. curr[c] # NULL /\ curr[c] \in relq'[Server[curr[c]]] => curr[c] \in running
      <4> SUFFICES ASSUME curr[c] # NULL, curr[c] \in relq'[Server[curr[c]]] PROVE curr[c] \in running
        OBVIOUS
      <4>1. curr[c] \in Task /\ Server[curr[c]] \in Ids
        BY OneProcessor, Typed
      <4>2. curr[c] \in Runnable'
        BY <1>2, <1>4, <4>1 DEF Located
      <4> QED BY <1>3, <4>2, RunnableIs
    <3>2. \A d \in CPU : curr'[d] # NULL /\ curr'[d] \in relq'[Server[curr'[d]]] =>
            \/ phase'[d] \in {"swap", "back", "notify"}
            \/ phase'[d] \in {"wait", "switch"} /\ was_running'[d]
      <4> SUFFICES ASSUME NEW d \in CPU, curr'[d] # NULL, curr'[d] \in relq'[Server[curr'[d]]]
                   PROVE  \/ phase'[d] \in {"swap", "back", "notify"}
                          \/ phase'[d] \in {"wait", "switch"} /\ was_running'[d]
        OBVIOUS
      <4>1. CASE d = c
        BY <1>3, <2>1, <3>1, <4>1
      <4>2. CASE d # c
        BY <1>3, <1>9, <1>12, <4>2 DEF IInv, Executing
      <4> QED BY <4>1, <4>2
    <3>3. \A d \in CPU : phase'[d] = "resim" => curr'[d] \in rt' \cap running'
      BY <1>3, <1>9, <2>1 DEF IInv, Executing
    <3> QED BY <1>3, <3>2, <3>3 DEF IInv, Executing
  <2>4. PickedAt(c)'
    BY <1>1, <1>3, <1>7, <2>1 DEF PickedAt, Chosen, Migrating
  <2>5. FollowsAt(c)'
    BY <1>1, <1>3, <1>6, <1>15, <1>16, <2>1 DEF FollowsAt, Chosen
  <2> QED BY <1>2, <1>10, <1>13, <1>14, <2>2, <2>3, <2>4, <2>5 DEF IInv, Picked, Follows
<1>17. CASE /\ get_current_reserve(c) # s
            /\ other' = [other EXCEPT ![c] = get_current_reserve(c)]
            /\ is_currently_scheduled' = is_currently_scheduled \ {<<s, c>>}
            /\ phase' = [phase EXCEPT ![c] = "swap"]
  <2>1. phase'[c] = "swap" /\ other'[c] = get_current_reserve(c)
    BY <1>17 DEF IInv, TypeOK
  <2>2. Hosted'
    <3>1. WellFormed' /\ \A d \in CPU : npsf_reserves(d)' = npsf_reserves(d)
      BY <1>3, SetupKept DEF IInv, Hosted
    <3>2. ServesOwned'
      BY <1>3 DEF IInv, Hosted, ServesOwned
    <3>3. \A d \in CPU : cpu_reserve'[d] \in npsf_reserves(d)
      BY <1>3 DEF IInv, Hosted
    <3>4. ASSUME NEW d \in CPU, phase'[d] \in {"swap", "notify"}
          PROVE  /\ other'[d] \in npsf_reserves(d) /\ other'[d] # cpu_reserve'[d]
                 /\ phase'[d] = "notify" => curr_reserve'[other'[d]] = d
      <4>1. CASE d = c
        BY <1>1, <1>3, <1>8, <1>17, <2>1, <4>1
      <4>2. CASE d # c
        BY <1>3, <1>9, <3>4, <4>2 DEF IInv, Hosted
      <4> QED BY <4>1, <4>2
    <3> QED BY <3>1, <3>2, <3>3, <3>4 DEF Hosted
  <2>3. Executing'
    <3>1. \A d \in CPU : curr'[d] # NULL /\ curr'[d] \in relq'[Server[curr'[d]]] =>
            \/ phase'[d] \in {"swap", "back", "notify"}
            \/ phase'[d] \in {"wait", "switch"} /\ was_running'[d]
      <4> SUFFICES ASSUME NEW d \in CPU, d # c, curr'[d] # NULL, curr'[d] \in relq'[Server[curr'[d]]]
                   PROVE  \/ phase'[d] \in {"swap", "back", "notify"}
                          \/ phase'[d] \in {"wait", "switch"} /\ was_running'[d]
        BY <2>1
      <4> QED BY <1>3, <1>9, <1>12 DEF IInv, Executing
    <3>2. \A d \in CPU : phase'[d] = "resim" => curr'[d] \in rt' \cap running'
      BY <1>3, <1>9, <2>1 DEF IInv, Executing
    <3> QED BY <1>3, <3>1, <3>2 DEF IInv, Executing
  <2>4. PickedAt(c)'
    BY <2>1 DEF PickedAt, Chosen, Migrating
  <2>5. FollowsAt(c)'
    BY <2>1 DEF FollowsAt, Chosen
  <2> QED BY <1>2, <1>10, <1>13, <1>14, <2>2, <2>3, <2>4, <2>5 DEF IInv, Picked, Follows
<1> QED BY <1>5, <1>16, <1>17

-----------------------------------------------------------------------------
(* Theorems                                                                *)

\* Adding the last server establishes the invariant.
LEMMA InitInv ==
  ASSUME Init
  PROVE  IInv
<1>1. setup \in Setups /\ WellFormed /\ NULL \notin Task /\ NO_CPU \notin CPU
  BY ConstantsAssumption DEF Init
<1>2. \A c \in CPU : Min(npsf_reserves(c)) \in npsf_reserves(c) /\ npsf_reserves(c) \subseteq Ids
  <2> SUFFICES ASSUME NEW c \in CPU PROVE Min(npsf_reserves(c)) \in npsf_reserves(c) /\ npsf_reserves(c) \subseteq Ids
    OBVIOUS
  <2>1. npsf_reserves(c) \in SUBSET Nat /\ npsf_reserves(c) \subseteq Ids
    BY <1>1, ReserveTyped
  <2>2. npsf_reserves(c) # {}
    BY <1>1 DEF WellFormed
  <2> QED BY <2>1, <2>2, MinIsLeast
<1>3. \A c \in CPU : cpu_reserve[c] = Min(npsf_reserves(c))
  BY DEF Init
<1>4. cpu_reserve \in [CPU -> Ids]
  BY <1>2 DEF Init
<1>5. \A c, d \in CPU : cpu_reserve[c] = cpu_reserve[d] => c = d
  BY <1>1, <1>3 DEF WellFormed
<1>6. \A s \in Ids : first_reserve(s) \in CPU
  <2> SUFFICES ASSUME NEW s \in Ids PROVE first_reserve(s) \in CPU
    OBVIOUS
  <2> DEFINE R == [cpu : CPU, budget : Nat]
  <2>1. budgets(s) \in Seq(R) /\ Len(budgets(s)) \in Nat \ {0}
    BY <1>1, BudgetsTyped
  <2>2. 1 \in 1 .. Len(budgets(s))
    BY <2>1
  <2> HIDE DEF R
  <2>3. budgets(s)[1] \in R
    BY <2>1, <2>2
  <2> QED BY <2>3 DEF R, first_reserve
<1>7. curr_reserve \in [Ids -> CPU] /\ \A c \in CPU : curr_reserve[cpu_reserve[c]] = c
  <2>1. curr_reserve = [s \in Ids |-> IF \E c \in CPU : cpu_reserve[c] = s
                                      THEN CHOOSE c \in CPU : cpu_reserve[c] = s ELSE first_reserve(s)]
    BY DEF Init
  <2>2. ASSUME NEW s \in Ids, \E c \in CPU : cpu_reserve[c] = s
        PROVE  (CHOOSE c \in CPU : cpu_reserve[c] = s) \in CPU
    BY <2>2
  <2>3. ASSUME NEW c \in CPU PROVE (CHOOSE d \in CPU : cpu_reserve[d] = cpu_reserve[c]) = c
    BY <1>5
  <2>4. curr_reserve \in [Ids -> CPU]
    BY <1>6, <2>1, <2>2
  <2>5. ASSUME NEW c \in CPU PROVE curr_reserve[cpu_reserve[c]] = c
    <3>1. PICK s \in Ids : s = cpu_reserve[c]
      BY <1>4
    <3>2. curr_reserve[s] = CHOOSE d \in CPU : cpu_reserve[d] = s
      BY <2>1, <3>1
    <3> QED BY <2>3, <3>1, <3>2
  <2> QED BY <2>4, <2>5
<1>8. kickoff \in Nat
  <2>1. setup.slot \in Nat \ {0} /\ Start \in Nat
    BY <1>1, SetupTyped, ConstantsAssumption
  <2>2. ASSUME NEW a \in Nat, NEW n \in Nat \ {0} PROVE (a \div n) * n \in Nat
    <3>1. a \div n \in Nat
      OBVIOUS
    <3> QED BY <3>1
  <2>3. Start + 2 * setup.slot \in Nat
    BY <2>1
  <2> QED BY <2>1, <2>2, <2>3 DEF kickoff, slot_begin
<1>9. TypeOK
  <2>1. is_currently_scheduled \subseteq Ids \X CPU
    BY DEF Init
  <2>2. task_cpu \in [Task -> CPU]
    BY ConstantsAssumption DEF Init
  <2>3. now \in Nat
    BY ConstantsAssumption DEF Init
  <2>4. /\ rt \subseteq Task /\ running \subseteq Task /\ spent \subseteq Task
        /\ flags \in [Task -> {"RUNNING", "SLEEP"}]
        /\ job \in [Task -> [release : Nat, deadline : Nat]]
        /\ stack_in_use \in [Task -> CPU \cup {NO_CPU}]
    BY DEF Init
  <2>5. /\ ready \in [Ids -> SUBSET Task] /\ relq \in [Ids -> SUBSET Task]
        /\ highest_prio \in [Ids -> Task \cup {NULL}] /\ wants_ipi \subseteq Ids
    BY DEF Init
  <2>6. /\ should_expire \in [CPU -> Nat] /\ curr \in [CPU -> Task \cup {NULL}]
        /\ other \in [CPU -> Ids \cup {NULL}] /\ next \in [CPU -> Task \cup {NULL}]
        /\ was_running \in [CPU -> BOOLEAN]
    BY <1>8 DEF Init
  <2>7. phase \in [CPU -> {"run", "sched", "swap", "back", "notify", "wait", "resim", "attach", "switch"}]
    BY DEF Init
  <2>8. tif \subseteq Task \cup CPU /\ ipi \subseteq CPU /\ panic \in BOOLEAN
    BY DEF Init
  <2> QED BY <1>1, <1>4, <1>7, <2>1, <2>2, <2>3, <2>4, <2>5, <2>6, <2>7, <2>8 DEF TypeOK
<1>10. \A c \in CPU : phase[c] = "run" /\ curr[c] = NULL /\ next[c] = NULL
  BY DEF Init
<1>11. Hosted
  BY <1>1, <1>2, <1>3, <1>7, <1>10 DEF Hosted, ServesOwned
<1>12. rt = {} /\ running = Task /\ \A s \in Ids : ready[s] = {} /\ relq[s] = {} /\ highest_prio[s] = NULL
  BY DEF Init
<1>13. Located /\ Ordered
  BY <1>1, <1>12 DEF Located, Ordered, Runnable, edf_preemption_needed
<1>14. Executing
  <2>1. \A t \in Task : stack_in_use[t] = NO_CPU
    BY DEF Init
  <2> QED BY <1>10, <2>1 DEF Executing
<1>15. Picked
  BY <1>10 DEF Picked, PickedAt, Chosen, Migrating
<1>16. Follows
  <2> SUFFICES ASSUME NEW c \in CPU PROVE FollowsAt(c)
    BY DEF Follows
  <2>1. setup.flag => <<cpu_reserve[c], c>> \in is_currently_scheduled
    BY <1>2, <1>3, <1>4 DEF Init
  <2> QED BY <1>4, <1>10, <1>12, <2>1 DEF FollowsAt, Chosen
<1>17. ~panic
  BY DEF Init
<1> QED BY <1>9, <1>11, <1>13, <1>14, <1>15, <1>16, <1>17 DEF IInv

\* Every step of the system preserves it.
LEMMA NextInv ==
  ASSUME IInv, [Next]_vars
  PROVE  IInv'
<1>1. CASE UNCHANGED vars
  <2>1. \A d \in CPU : WillSchedule(d) => WillSchedule(d)'
    BY <1>1 DEF WillSchedule, Current, vars
  <2>2. TypeOK' /\ now <= now'
    BY <1>1, SetupKept DEF vars, IInv, TypeOK
  <2> QED BY <1>1, <2>1, <2>2, QuietStep DEF vars
<1>2. CASE Next
  BY <1>2, TaskNewInv, TaskExitInv, WakeInv, ReleaseJobsInv, InterruptInv, ClockInv, EnterInv, BlockInv,
     ScheduleServerInv, SwitchReserveInv, RacedInv, KeepReserveInv, NotifyInv, ResimBlockInv,
     ResimWakeUpInv, AttachInv, FinishSwitchInv
     DEF Next, Handler, Schedule
<1> QED BY <1>1, <1>2

\* The inductive invariant of NPS-F: owners, queues, executed and picked tasks
\* agree, whatever races for a server.
THEOREM Invariance == Spec => []IInv
<1>1. Init => IInv
  BY InitInv
<1>2. IInv /\ [Next]_vars => IInv'
  BY NextInv
<1> QED BY <1>1, <1>2, PTL DEF Spec

\* No BUG_ON() of the plugin fires, and remove() never deletes a task from a heap
\* that it is not in.
THEOREM PanicFreedom == Spec => []NoPanic
<1>1. IInv => NoPanic
  BY DEF IInv, NoPanic
<1> QED BY <1>1, Invariance, PTL

\* A processor serves only what it owns, so no server is served on two processors.
THEOREM ServerOwnership == Spec => []ServesOwned
<1>1. IInv => ServesOwned
  BY DEF IInv, Hosted
<1> QED BY <1>1, Invariance, PTL

\* The invariant says that highest_prio is right, and that each processor
\* executes it or will look again.
LEMMA HighestFromInv ==
  ASSUME IInv
  PROVE  ServesHighest
<1>1. TypeOK /\ NULL \notin Task /\ highest_prio \in [Ids -> Task \cup {NULL}] /\ rt \subseteq Task
  BY Typed DEF IInv
<1>2. ASSUME NEW s \in Ids
      PROVE  (highest_prio[s] # NULL => highest_prio[s] \in Runnable)
               /\ ~edf_preemption_needed(job, ready[s], highest_prio[s])
  BY HighestPrioTask DEF IInv, Ordered
<1>3. ASSUME NEW t \in rt, NEW s \in Ids
      PROVE  (IF t \in ready[s] THEN 1 ELSE 0) + (IF t \in relq[s] THEN 1 ELSE 0)
               + (IF highest_prio[s] = t THEN 1 ELSE 0)
             = IF t \in Runnable /\ Server[t] = s THEN 1 ELSE 0
  <2>1. t \in Task
    BY <1>1
  <2>2. /\ t \in ready[s] \/ t \in relq[s] \/ highest_prio[s] = t <=> t \in Runnable /\ Server[t] = s
        /\ ~(t \in ready[s] /\ t \in relq[s])
        /\ highest_prio[s] = t => t \notin ready[s] /\ t \notin relq[s]
    BY <2>1 DEF IInv, Located
  <2> QED BY <2>2
<1>4. HighestPrio
  BY <1>1, <1>2, <1>3 DEF HighestPrio
<1>5. ASSUME NEW c \in CPU
      PROVE  curr[c] = highest_prio[cpu_reserve[c]] \/ WillSchedule(c) \/ Unaware(c)
  <2>1. FollowsAt(c)
    BY DEF IInv, Follows
  <2> QED BY <2>1 DEF FollowsAt, WillSchedule
<1> QED BY <1>4, <1>5 DEF ServesHighest

\* highest_prio is right, and each processor executes that of its server or is
\* about to find out.
THEOREM HighestServed == Spec => []ServesHighest
<1>1. IInv => ServesHighest
  BY HighestFromInv
<1> QED BY <1>1, Invariance, PTL

\* A stack that is in use is that of the current task of its processor.
LEMMA OccupiedKept ==
  ASSUME IInv, Occupied, [Next]_vars
  PROVE  Occupied'
<1>1. /\ NULL \notin Task /\ NO_CPU \notin CPU
      /\ curr \in [CPU -> Task \cup {NULL}]
      /\ stack_in_use \in [Task -> CPU \cup {NO_CPU}]
  BY ConstantsAssumption DEF IInv, TypeOK
<1>2. ASSUME UNCHANGED <<curr, stack_in_use>>
      PROVE  Occupied'
  BY <1>2 DEF Occupied
<1>3. ASSUME NEW t \in Task, NEW e \in CPU, task_new(t, e)
      PROVE  Occupied'
  <2>1. \/ /\ curr[e] = NULL
           /\ curr' = [curr EXCEPT ![e] = t]
           /\ stack_in_use' = [stack_in_use EXCEPT ![t] = e]
        \/ UNCHANGED <<curr, stack_in_use>>
    BY <1>3 DEF task_new
  <2> QED BY <1>1, <1>2, <2>1 DEF Occupied
<1>4. ASSUME NEW t \in Task, NEW e \in CPU, task_exit(t, e)
      PROVE  Occupied'
  <2>1. /\ stack_in_use' = [stack_in_use EXCEPT ![t] = NO_CPU]
        /\ \/ curr[e] = t /\ curr' = [curr EXCEPT ![e] = NULL]
           \/ curr' = curr
    BY <1>4 DEF task_exit
  <2> QED BY <1>1, <2>1 DEF Occupied
<1>5. ASSUME NEW c \in CPU, finish_switch(c)
      PROVE  Occupied'
  <2>1. /\ stack_in_use' = [t \in Task |-> IF t = next[c] THEN c
                               ELSE IF t = curr[c] THEN NO_CPU ELSE stack_in_use[t]]
        /\ curr' = [curr EXCEPT ![c] = next[c]]
    BY <1>5 DEF finish_switch, switch_stacks
  <2> QED BY <1>1, <2>1 DEF Occupied
<1>6. CASE Handler
  BY <1>2, <1>3, <1>4, <1>6
     DEF Handler, wake, release_jobs, reserve_switch_tick, tick, reschedule_interrupt
<1>7. CASE Schedule
  <2>1. PICK c \in CPU :
          \/ schedule(c) \/ complete_job(c) \/ block(c) \/ schedule_server(c) \/ switch_reserve(c)
          \/ raced(c) \/ keep_reserve(c) \/ notify_next_cpu(c) \/ resim_block(c)
          \/ resim_wake_up(c) \/ attach(c) \/ finish_switch(c)
    BY <1>7 DEF Schedule
  <2>2. CASE schedule(c) \/ complete_job(c) \/ block(c)
    BY <1>2, <2>2 DEF schedule, complete_job, block
  <2>3. CASE schedule_server(c)
    BY <1>2, <2>3 DEF schedule_server
  <2>4. CASE switch_reserve(c) \/ raced(c) \/ keep_reserve(c)
    BY <1>2, <2>4 DEF switch_reserve, raced, keep_reserve
  <2>5. CASE notify_next_cpu(c) \/ resim_block(c) \/ resim_wake_up(c) \/ attach(c)
    BY <1>2, <2>5 DEF notify_next_cpu, resim_block, resim_wake_up, attach
  <2>6. CASE finish_switch(c)
    BY <1>5, <2>6
  <2> QED BY <2>1, <2>2, <2>3, <2>4, <2>5, <2>6
<1>8. CASE clock
  BY <1>2, <1>8 DEF clock
<1>9. CASE UNCHANGED vars
  BY <1>2, <1>9 DEF vars
<1> QED BY <1>6, <1>7, <1>8, <1>9 DEF Next

\* A processor cannot spin on a stack that its user keeps: the user would have to
\* serve the same server.
LEMMA StackFromInv ==
  ASSUME IInv, Occupied
  PROVE  OneStack
<1>1. /\ NULL \notin Task /\ NO_CPU \notin CPU
      /\ curr \in [CPU -> Task \cup {NULL}]
      /\ next \in [CPU -> Task \cup {NULL}]
      /\ cpu_reserve \in [CPU -> Ids]
  BY ConstantsAssumption DEF IInv, TypeOK
<1>2. ASSUME NEW c \in CPU, NEW d \in CPU, c # d, curr[c] # NULL
      PROVE  curr[c] # curr[d]
  BY <1>2 DEF IInv, Executing
<1>3. ASSUME NEW c \in CPU, NEW d \in CPU, SpinsOn(c, d)
      PROVE  curr[d] = next[c] /\ (WillSchedule(d) \/ Unaware(d))
  <2>1. /\ phase[c] = "wait" /\ next[c] \in Task /\ stack_in_use[next[c]] = d
        /\ Server[next[c]] = cpu_reserve[c] /\ task_cpu[next[c]] # c
    BY <1>1, <1>3 DEF SpinsOn, IInv, Picked, PickedAt, Migrating, Chosen
  <2>2. curr[d] = next[c] /\ d # c
    BY <1>1, <2>1 DEF Occupied, IInv, Executing
  <2>3. cpu_reserve[c] # cpu_reserve[d]
    BY <2>2 DEF IInv, Hosted, ServesOwned
  <2>4. curr[d] # highest_prio[cpu_reserve[d]]
    BY <1>1, <2>1, <2>2, <2>3 DEF IInv, Located
  <2>5. FollowsAt(d)
    BY DEF IInv, Follows
  <2> QED BY <2>2, <2>4, <2>5 DEF FollowsAt, WillSchedule
<1> QED BY <1>2, <1>3 DEF OneStack

\* No task executes on two processors, and a processor that waits for a stack waits
\* for one that is going to call schedule() or is in it.
THEOREM StackSafety == Spec => []OneStack
<1>1. Init => Occupied
  BY DEF Init, Occupied
<1>2. IInv /\ Occupied /\ [Next]_vars => Occupied'
  BY OccupiedKept
<1>3. IInv /\ Occupied => OneStack
  BY StackFromInv
<1> QED BY <1>1, <1>2, <1>3, Invariance, PTL DEF Spec
=============================================================================
