--------------------------- MODULE SemiPart_proofs ---------------------------
(***************************************************************************)
(* Proofs about EDF-WM, C=D and HIME, for any number of tasks and          *)
(* processors, any slices that the plugins admit, and any mixture of       *)
(* regular and sliced tasks.                                               *)
(***************************************************************************)
EXTENDS SemiPart, WellFoundedInduction, TLAPS

USE DEF taskVars, queueVars, switchVars, clockVars, sigVars

-----------------------------------------------------------------------------
(* Slices and jobs                                                         *)

\* A non-empty set of numbers has a least element.
LEMMA Least ==
  ASSUME NEW S \in SUBSET Nat, S # {}
  PROVE  \E x \in S : \A y \in S : x <= y
<1>1. PICK x \in S : \A y \in S : ~(<<y, x>> \in OpToRel(<, Nat))
  BY NatLessThanWellFounded, WFMin
<1>2. ASSUME NEW y \in S PROVE x <= y
  <2>1. ~(y < x)
    BY <1>1 DEF OpToRel
  <2> QED BY <2>1
<1> QED BY <1>2

\* The slices of a task.
LEMMA SliceTyped ==
  ASSUME NEW t \in Task
  PROVE  /\ Count(t) \in Nat
         /\ is_sliced_task(t) => Count(t) >= 1
         /\ \A i \in 1 .. Count(t) :
              /\ Slices[t][i].cpu \in CPU /\ Slices[t][i].budget \in Nat \ {0}
              /\ Slices[t][i].offset \in Nat /\ Slices[t][i].deadline \in Nat
<1>1. Slices[t] \in Seq(Slice)
  BY ConstantsAssumption
<1>2. Count(t) \in Nat /\ \A i \in 1 .. Count(t) : Slices[t][i] \in Slice
  BY <1>1 DEF Count
<1>3. is_sliced_task(t) => Count(t) >= 1
  BY <1>1, <1>2 DEF Count, is_sliced_task
<1>4. \A s \in Slice : /\ s.cpu \in CPU /\ s.budget \in Nat \ {0}
                       /\ s.offset \in Nat /\ s.deadline \in Nat
  BY DEF Slice
<1> QED BY <1>2, <1>3, <1>4

\* The equations that define Sum.
LEMMA SumDef ==
  ASSUME NEW t \in Task, NEW n \in 0 .. Count(t)
  PROVE  /\ Sum(t, n) \in Nat
         /\ n = 0 => Sum(t, n) = 0
         /\ n > 0 => Sum(t, n) = Sum(t, n - 1) + Slices[t][n].budget
<1> DEFINE b(i) == Slices[t][i].budget
           Is(k, g) == g = [i \in 0 .. k |-> IF i = 0 THEN 0 ELSE g[i - 1] + b(i)]
           F(k) == CHOOSE g : Is(k, g)
           Good(k) == Is(k, F(k)) /\ (\A i \in 0 .. k : F(k)[i] \in Nat)
                      /\ (k > 0 => F(k)[k] = F(k - 1)[k - 1] + b(k))
           Bad == {k \in 0 .. Count(t) : ~Good(k)}
<1>1. Count(t) \in Nat /\ \A i \in 1 .. Count(t) : b(i) \in Nat
  BY SliceTyped
<1>2. \A k \in 0 .. Count(t) : Sum(t, k) = F(k)[k]
  BY DEF Sum
<1> HIDE DEF b
<1>3. Bad = {}
  <2> SUFFICES ASSUME Bad # {} PROVE FALSE
    OBVIOUS
  <2>1. Bad \in SUBSET Nat
    BY <1>1
  <2>2. \A k \in 0 .. Count(t) : k \in Bad <=> ~Good(k)
    OBVIOUS
  <2> HIDE DEF Bad
  <2>3. PICK k \in Bad : k \in 0 .. Count(t) /\ k \in Nat /\ \A j \in Bad : k <= j
    <3>1. Bad \subseteq 0 .. Count(t)
      BY DEF Bad
    <3> QED BY <2>1, <3>1, Least
  <2>4. CASE k = 0
    <3> DEFINE g == [i \in 0 .. 0 |-> 0]
    <3>1. Is(0, g)
      OBVIOUS
    <3>2. Is(0, F(0))
      BY <3>1
    <3>3. F(0)[0] = 0
      BY <3>2
    <3>4. \A i \in 0 .. 0 : F(0)[i] \in Nat
      BY <3>3
    <3>5. Good(0)
      BY <3>2, <3>4
    <3> HIDE DEF Good
    <3> QED BY <2>2, <2>3, <2>4, <3>5
  <2>5. CASE k # 0
    <3>1. k - 1 \in 0 .. Count(t) /\ k - 1 \notin Bad /\ k - 1 \in Nat
      BY <1>1, <2>3, <2>5
    <3>2. Good(k - 1)
      BY <2>2, <3>1
    <3>3. PICK h : h = F(k - 1)
      OBVIOUS
    <3>4. Is(k - 1, h) /\ \A i \in 0 .. k - 1 : h[i] \in Nat
      BY <3>2, <3>3
    <3> DEFINE g == [i \in 0 .. k |-> IF i = k THEN h[k - 1] + b(k) ELSE h[i]]
    <3>5. \A i \in 0 .. k : g[i] = IF i = 0 THEN 0 ELSE g[i - 1] + b(i)
      <4> TAKE i \in 0 .. k
      <4>1. CASE i = k
        BY <2>3, <2>5, <4>1
      <4>2. CASE i # k
        <5>1. i \in 0 .. k - 1
          BY <2>3, <4>2
        <5>2. h[i] = IF i = 0 THEN 0 ELSE h[i - 1] + b(i)
          BY <3>4, <5>1
        <5>3. g[i] = h[i] /\ (i # 0 => g[i - 1] = h[i - 1])
          BY <2>3, <4>2, <5>1
        <5> QED BY <5>2, <5>3
      <4> QED BY <4>1, <4>2
    <3>6. Is(k, g)
      BY <3>5
    <3>7. PICK f : f = F(k)
      OBVIOUS
    <3>8. Is(k, f)
      BY <3>6, <3>7
    <3>9. \A i \in 0 .. k : f[i] = h[i] \/ i = k
      <4> DEFINE D == {i \in 0 .. k - 1 : f[i] # h[i]}
      <4> SUFFICES ASSUME D # {} PROVE FALSE
        BY <2>3, <3>1
      <4>1. PICK i \in D : i \in 0 .. k - 1 /\ f[i] # h[i] /\ \A j \in D : i <= j
        <5>1. D \in SUBSET Nat
          BY <3>1
        <5> QED BY <5>1, Least
      <4>2. f[i] = IF i = 0 THEN 0 ELSE f[i - 1] + b(i)
        BY <2>3, <3>1, <3>8, <4>1
      <4>3. h[i] = IF i = 0 THEN 0 ELSE h[i - 1] + b(i)
        BY <3>4, <4>1
      <4>4. i # 0 => i - 1 \in 0 .. k - 1 /\ i - 1 \notin D
        BY <3>1, <4>1
      <4>5. i # 0 => f[i - 1] = h[i - 1]
        BY <4>4
      <4> QED BY <4>1, <4>2, <4>3, <4>5
    <3>10. f[k] = h[k - 1] + b(k)
      <4>1. f[k] = f[k - 1] + b(k)
        BY <2>3, <2>5, <3>8
      <4>2. f[k - 1] = h[k - 1]
        BY <2>3, <2>5, <3>1, <3>9
      <4> QED BY <4>1, <4>2
    <3>11. b(k) \in Nat
      BY <1>1, <2>3, <2>5
    <3>12. \A i \in 0 .. k : f[i] \in Nat
      <4> TAKE i \in 0 .. k
      <4>1. CASE i = k
        <5>1. k - 1 \in 0 .. k - 1
          BY <3>1
        <5>2. h[k - 1] \in Nat
          BY <3>4, <5>1
        <5> QED BY <3>10, <3>11, <4>1, <5>2
      <4>2. CASE i # k
        <5>1. i \in 0 .. k - 1
          BY <2>3, <4>2
        <5> QED BY <3>4, <3>9, <4>2, <5>1
      <4> QED BY <4>1, <4>2
    <3>13. Good(k)
      BY <3>3, <3>7, <3>8, <3>10, <3>12
    <3> HIDE DEF Good
    <3> QED BY <2>2, <2>3, <3>13
  <2> QED BY <2>4, <2>5
<1>4. Good(n)
  BY <1>3
<1>5. n \in Nat /\ n \in 0 .. n /\ (n > 0 => n - 1 \in 0 .. Count(t))
  BY <1>1
<1>6. n = 0 => F(n)[n] = 0
  BY <1>4, <1>5
<1> QED BY <1>2, <1>4, <1>5, <1>6 DEF b

\* The cost of an admitted task is at least the budget of its first slice.
LEMMA SumFirst ==
  ASSUME NEW t \in Task, NEW n \in 1 .. Count(t)
  PROVE  Sum(t, n) >= Slices[t][1].budget
<1> DEFINE Bad == {k \in 1 .. Count(t) : ~(Sum(t, k) >= Slices[t][1].budget)}
<1> SUFFICES ASSUME Bad # {} PROVE FALSE
  OBVIOUS
<1>1. Count(t) \in Nat /\ \A i \in 1 .. Count(t) : Slices[t][i].budget \in Nat
  BY SliceTyped
<1>2. Bad \in SUBSET Nat
  BY <1>1
<1>3. PICK k \in Bad : \A j \in Bad : k <= j
  BY <1>2, Least
<1>4. k \in 1 .. Count(t) /\ ~(Sum(t, k) >= Slices[t][1].budget)
  OBVIOUS
<1>5. k \in 0 .. Count(t) /\ 0 \in 0 .. Count(t) /\ 1 \in 1 .. Count(t) /\ k - 1 \in 0 .. Count(t)
  BY <1>1, <1>4
<1>6. Sum(t, k) = Sum(t, k - 1) + Slices[t][k].budget /\ Sum(t, k - 1) \in Nat
  BY <1>4, <1>5, SumDef
<1>7. CASE k = 1
  <2>1. Sum(t, 0) = 0
    BY <1>5, SumDef
  <2> QED BY <1>1, <1>4, <1>5, <1>6, <1>7, <2>1
<1>8. CASE k # 1
  <2>1. k - 1 \in 1 .. Count(t) /\ k - 1 \notin Bad
    BY <1>1, <1>3, <1>4, <1>8
  <2>2. Sum(t, k - 1) >= Slices[t][1].budget
    BY <2>1
  <2> QED BY <1>1, <1>4, <1>5, <1>6, <2>2
<1> QED BY <1>7, <1>8

\* A job has these fields, and no others.
LEMMA JobFields ==
  ASSUME NEW j \in Job
  PROVE  /\ j.release \in Nat /\ j.deadline \in Nat /\ j.exec_time \in Nat
         /\ j.exec_cost \in Nat /\ j.no \in 0 .. JOB_CAP /\ j.cpu \in CPU
         /\ j.slice \in Nat \ {0} /\ j.slice_start \in Nat
         /\ j.suspend_time \in Nat /\ j.job_release \in Nat /\ j.job_deadline \in Nat
BY DEF Job

\* The job number, as far as it is kept.
Succ(n) == IF n < JOB_CAP THEN n + 1 ELSE n

\* prepare_for_next_period()
LEMMA PeriodFacts ==
  ASSUME NEW t \in Task, NEW j \in Job, NEW k, k = prepare_for_next_period(t, j)
  PROVE  /\ k \in Job /\ k.exec_time = 0 /\ k.no = Succ(j.no)
         /\ k.release = j.deadline /\ k.slice = j.slice /\ k.cpu = j.cpu
         /\ k.exec_cost = j.exec_cost /\ k.suspend_time = j.suspend_time
<1>1. Period[t] \in Nat
  BY ConstantsAssumption
<1>2. j.deadline \in Nat /\ j.deadline + Period[t] \in Nat /\ 0 \in Nat
  BY <1>1, JobFields
<1>3. j.no \in 0 .. JOB_CAP
  BY JobFields
<1>4. Succ(j.no) \in 0 .. JOB_CAP
  BY <1>3 DEF Succ, JOB_CAP
<1>5. k = [j EXCEPT !.release = j.deadline, !.deadline = j.deadline + Period[t],
                    !.exec_time = 0, !.no = Succ(j.no)]
  BY DEF prepare_for_next_period, Succ
<1> QED BY <1>2, <1>4, <1>5 DEF Job

\* slice_window(): only release and deadline change.
LEMMA WindowFacts ==
  ASSUME plugin \in Plugins, NEW t \in Task, NEW j \in Job, j.slice <= Count(t),
         NEW k, k = slice_window(t, j)
  PROVE  /\ k \in Job /\ k.exec_time = j.exec_time /\ k.no = j.no
         /\ k.slice = j.slice /\ k.exec_cost = j.exec_cost
         /\ k.suspend_time = j.suspend_time
<1>1. plugin = "EDF-WM" \/ plugin = "C=D" \/ plugin = "HIME"
  BY ConstantsAssumption
<1>2. j.slice \in 1 .. Count(t)
  BY JobFields, SliceTyped
<1>3. Slices[t][j.slice].deadline \in Nat /\ Slices[t][j.slice].offset \in Nat
  BY <1>2, SliceTyped
<1>4. j.job_release \in Nat /\ j.release \in Nat
  BY JobFields
<1>5. CASE plugin = "EDF-WM"
  <2>1. k = [j EXCEPT !.deadline = j.job_release + Slices[t][j.slice].deadline,
                      !.release = j.job_release + Slices[t][j.slice].offset]
    BY <1>5 DEF slice_window, slice_window_wm
  <2>2. j.job_release + Slices[t][j.slice].deadline \in Nat /\ j.job_release + Slices[t][j.slice].offset \in Nat
    BY <1>3, <1>4
  <2> QED BY <2>1, <2>2 DEF Job
<1>6. CASE plugin = "C=D"
  <2>1. k = [j EXCEPT !.deadline = j.release + Slices[t][j.slice].deadline]
    BY <1>6 DEF slice_window, slice_window_cd
  <2>2. j.release + Slices[t][j.slice].deadline \in Nat
    BY <1>3, <1>4
  <2> QED BY <2>1, <2>2 DEF Job
<1>7. CASE plugin = "HIME"
  BY <1>7 DEF slice_window
<1> QED BY <1>1, <1>5, <1>6, <1>7

\* compute_slice_params()
LEMMA ComputeFacts ==
  ASSUME plugin \in Plugins, NEW t \in Task, NEW j \in Job, j.slice <= Count(t),
         NEW k, k = compute_slice_params(t, j)
  PROVE  /\ k \in Job /\ k.exec_time = j.exec_time /\ k.no = j.no
         /\ k.slice = j.slice /\ k.exec_cost = j.exec_cost + Slices[t][j.slice].budget
         /\ k.cpu = Slices[t][j.slice].cpu /\ k.slice_start = j.exec_time
         /\ k.suspend_time = j.suspend_time
<1>1. PICK w : w = slice_window(t, j)
  OBVIOUS
<1>2. /\ w \in Job /\ w.exec_time = j.exec_time /\ w.no = j.no
      /\ w.slice = j.slice /\ w.exec_cost = j.exec_cost
      /\ w.suspend_time = j.suspend_time
  BY <1>1, WindowFacts
<1>3. j.slice \in 1 .. Count(t)
  BY JobFields, SliceTyped
<1>4. Slices[t][j.slice].budget \in Nat /\ Slices[t][j.slice].cpu \in CPU
  BY <1>3, SliceTyped
<1>5. j.exec_cost + Slices[t][j.slice].budget \in Nat /\ j.exec_time \in Nat
  BY <1>4, JobFields
<1>6. k = [w EXCEPT !.exec_cost = j.exec_cost + Slices[t][j.slice].budget,
                    !.cpu = Slices[t][j.slice].cpu, !.slice_start = j.exec_time]
  BY <1>1, <1>2 DEF compute_slice_params, slice_budget
<1> QED BY <1>2, <1>4, <1>5, <1>6 DEF Job

\* complete_sliced_job()
LEMMA CompleteFacts ==
  ASSUME NEW t \in Task, NEW j \in Job, NEW k, k = complete_sliced_job(t, j)
  PROVE  /\ k \in Job /\ k.exec_time = 0 /\ k.no = Succ(j.no)
         /\ k.slice = j.slice /\ k.suspend_time = j.suspend_time
<1>1. PICK a : a = [j EXCEPT !.release = IF plugin = "EDF-WM" THEN j.job_release ELSE @,
                       !.deadline = j.job_deadline, !.exec_cost = Cost[t]]
  OBVIOUS
<1>2. Cost[t] \in Nat
  BY ConstantsAssumption
<1>3. a \in Job /\ a.no = j.no /\ a.slice = j.slice /\ a.suspend_time = j.suspend_time
  BY <1>1, <1>2 DEF Job
<1>4. PICK b : b = prepare_for_next_period(t, a)
  OBVIOUS
<1>5. b \in Job /\ b.exec_time = 0 /\ b.no = Succ(j.no) /\ b.slice = j.slice /\ b.suspend_time = j.suspend_time
  BY <1>3, <1>4, PeriodFacts
<1>6. k = [b EXCEPT !.job_release = IF plugin = "EDF-WM" THEN b.release ELSE @,
                    !.job_deadline = b.deadline]
  BY <1>1, <1>4 DEF complete_sliced_job
<1>7. b.release \in Nat /\ b.deadline \in Nat
  BY <1>5, JobFields
<1> QED BY <1>5, <1>6, <1>7 DEF Job

\* advance_next_slice(): the first slice of the next job, or the next slice,
\* which begins with the time executed so far.
NextSlice(t, j, k) ==
  /\ k \in Job /\ k.slice <= Count(t) /\ k.cpu = Slices[t][k.slice].cpu
  /\ k.suspend_time = j.suspend_time /\ k.slice_start = k.exec_time
  /\ \/ /\ k.slice = 1 /\ k.exec_time = 0 /\ k.no = Succ(j.no)
        /\ k.exec_cost = Slices[t][1].budget
     \/ /\ j.slice < Count(t) /\ ~depleted(t, j)
        /\ k.slice = j.slice + 1 /\ k.exec_time = j.exec_time /\ k.no = j.no
        /\ k.exec_cost = j.exec_cost + Slices[t][k.slice].budget

\* advance_next_slice() goes to the next slice, or to the first one of the next
\* job after the last slice or when the job has been completed.
LEMMA AdvanceFacts ==
  ASSUME plugin \in Plugins, NEW t \in Task, is_sliced_task(t),
         NEW j \in Job, j.slice <= Count(t), NEW signaled, NEW k,
         k = advance_next_slice(t, j, signaled)
  PROVE  /\ NextSlice(t, j, k)
         /\ signaled \/ j.slice = Count(t) => k.slice = 1 /\ k.exec_time = 0 /\ k.no = Succ(j.no)
                              /\ k.exec_cost = Slices[t][1].budget
<1>0. Count(t) \in Nat /\ Count(t) >= 1 /\ j.slice \in Nat \ {0}
  BY SliceTyped, JobFields
<1>1. CASE signaled \/ depleted(t, j) \/ j.slice = Count(t)
  <2>1. PICK a : a = [j EXCEPT !.slice = 1]
    OBVIOUS
  <2>2. a \in Job /\ a.no = j.no /\ a.slice = 1 /\ a.suspend_time = j.suspend_time
    BY <2>1 DEF Job
  <2>3. PICK b : b = complete_sliced_job(t, a)
    OBVIOUS
  <2>4. b \in Job /\ b.exec_time = 0 /\ b.no = Succ(j.no) /\ b.slice = 1 /\ b.suspend_time = j.suspend_time
    BY <2>2, <2>3, CompleteFacts
  <2>5. PICK p : p = top_priority(b)
    OBVIOUS
  <2>6. p \in Job /\ p.exec_time = 0 /\ p.no = Succ(j.no) /\ p.slice = 1 /\ p.suspend_time = j.suspend_time
    BY <2>4, <2>5 DEF top_priority, Job
  <2>7. PICK q : q = [p EXCEPT !.exec_cost = 0]
    OBVIOUS
  <2>8. q \in Job /\ q.exec_time = 0 /\ q.no = Succ(j.no) /\ q.slice = 1 /\ q.exec_cost = 0 /\ q.suspend_time = j.suspend_time
    BY <2>6, <2>7 DEF Job
  <2>9. k = compute_slice_params(t, q)
    BY <1>1, <2>1, <2>3, <2>5, <2>7 DEF advance_next_slice
  <2>10. /\ k \in Job /\ k.exec_time = 0 /\ k.no = Succ(j.no)
         /\ k.slice = 1 /\ k.exec_cost = 0 + Slices[t][1].budget
         /\ k.cpu = Slices[t][1].cpu /\ k.slice_start = 0
         /\ k.suspend_time = j.suspend_time
    <3>1. q.slice <= Count(t)
      BY <1>0, <2>8
    <3> QED BY <2>8, <2>9, <3>1, ComputeFacts
  <2>11. 0 + Slices[t][1].budget = Slices[t][1].budget
    BY <1>0, SliceTyped
  <2> QED BY <1>0, <2>10, <2>11 DEF NextSlice
<1>2. CASE ~(signaled \/ depleted(t, j) \/ j.slice = Count(t))
  <2>1. PICK a : a = [j EXCEPT !.slice = j.slice + 1]
    OBVIOUS
  <2>2. /\ a \in Job /\ a.no = j.no /\ a.slice = j.slice + 1 /\ a.suspend_time = j.suspend_time
        /\ a.exec_time = j.exec_time /\ a.exec_cost = j.exec_cost /\ a.slice <= Count(t)
    BY <1>0, <1>2, <2>1 DEF Job
  <2>3. k = compute_slice_params(t, a)
    BY <1>2, <2>1 DEF advance_next_slice
  <2>4. /\ k \in Job /\ k.exec_time = j.exec_time /\ k.no = j.no
        /\ k.slice = j.slice + 1 /\ k.exec_cost = j.exec_cost + Slices[t][a.slice].budget
        /\ k.cpu = Slices[t][a.slice].cpu /\ k.slice_start = j.exec_time
        /\ k.suspend_time = j.suspend_time
    BY <2>2, <2>3, ComputeFacts
  <2> QED BY <1>0, <1>2, <2>2, <2>4 DEF NextSlice
<1> QED BY <1>1, <1>2

-----------------------------------------------------------------------------
(* Accounts and budgets                                                    *)

\* A slice whose budget has not run out leaves execution cost.
LEMMA FreshHasCost ==
  ASSUME NEW t \in Task, NEW j \in Job, Accounts(t, j), Fresh(t, j), t \in Precise
  PROVE  j.exec_time < j.exec_cost
<1>1. CASE ~is_sliced_task(t)
  BY <1>1, JobFields DEF Fresh, out_of_budget, budget_exhausted
<1>2. CASE is_sliced_task(t)
  <2>0. /\ j.slice \in 1 .. Count(t) /\ j.exec_time \in Nat /\ j.exec_cost \in Nat
        /\ j.slice_start \in Nat /\ j.no \in Nat
    BY <1>2, JobFields, SliceTyped DEF Accounts, JOB_CAP
  <2>1. Slices[t][j.slice].budget \in Nat
    BY <2>0, SliceTyped
  <2>2. j.exec_time - j.slice_start < Slices[t][j.slice].budget
    BY <1>2, <2>0, <2>1 DEF Fresh, out_of_budget, slice_budget_exhausted, slice_exec_time, slice_budget
  <2>3. j.slice_start + Slices[t][j.slice].budget <= j.exec_cost
    <3>1. CASE j.no >= 2
      <4>1. j.exec_cost = Sum(t, j.slice) /\ j.slice_start = Sum(t, j.slice - 1)
        BY <1>2, <3>1 DEF Accounts
      <4>2. Sum(t, j.slice) = Sum(t, j.slice - 1) + Slices[t][j.slice].budget
        BY <2>0, SumDef, SliceTyped
      <4> QED BY <2>0, <2>1, <4>1, <4>2
    <3>2. CASE ~(j.no >= 2)
      <4>1. j.no < 2
        BY <2>0, <3>2
      <4> QED BY <1>2, <4>1 DEF Accounts, slice_budget
    <3> QED BY <3>1, <3>2
  <2> QED BY <2>0, <2>1, <2>2, <2>3
<1> QED BY <1>1, <1>2

\* After the first job, the budget of a slice runs out with the execution cost.
LEMMA BudgetIsCost ==
  ASSUME NEW t \in Task, is_sliced_task(t), NEW j \in Job, Accounts(t, j), j.no >= 2
  PROVE  /\ j.slice \in 1 .. Count(t)
         /\ j.slice_start + Slices[t][j.slice].budget = j.exec_cost
         /\ slice_budget_remaining(t, j) = j.exec_cost - j.exec_time
         /\ out_of_budget(t, j) <=> j.exec_time >= j.exec_cost
<1>0. /\ j.slice \in 1 .. Count(t) /\ j.exec_time \in Nat /\ j.exec_cost \in Nat
      /\ j.slice_start \in Nat
  BY JobFields, SliceTyped DEF Accounts, JOB_CAP
<1>1. Slices[t][j.slice].budget \in Nat
  BY <1>0, SliceTyped
<1>2. j.exec_cost = Sum(t, j.slice) /\ j.slice_start = Sum(t, j.slice - 1)
  BY DEF Accounts
<1>3. Sum(t, j.slice) = Sum(t, j.slice - 1) + Slices[t][j.slice].budget
  BY <1>0, SumDef, SliceTyped
<1>4. j.slice_start + Slices[t][j.slice].budget = j.exec_cost
  BY <1>2, <1>3
<1>5. slice_budget_remaining(t, j) = j.exec_cost - j.exec_time
  BY <1>0, <1>1, <1>4 DEF slice_budget_remaining, slice_budget, slice_exec_time
<1>6. out_of_budget(t, j) <=> j.exec_time >= j.exec_cost
  BY <1>0, <1>1, <1>4 DEF out_of_budget, slice_budget_exhausted, slice_budget, slice_exec_time
<1> QED BY <1>0, <1>4, <1>5, <1>6

\* The first slice of a new job.
LEMMA FirstSlice ==
  ASSUME NEW t \in Task, is_sliced_task(t), t \in Precise, NEW j \in Job, j.no >= 2,
         j.slice = 1, j.exec_time = 0, j.slice_start = 0,
         j.exec_cost = Slices[t][1].budget, j.cpu = Slices[t][1].cpu
  PROVE  Accounts(t, j) /\ Fresh(t, j)
<1>0. Count(t) \in Nat /\ Count(t) >= 1 /\ 0 \in 0 .. Count(t) /\ 1 \in 0 .. Count(t) /\ j.no \in Nat
  BY SliceTyped, JobFields DEF JOB_CAP
<1>1. Sum(t, 0) = 0 /\ Sum(t, 1) = Sum(t, 1 - 1) + Slices[t][1].budget /\ 1 - 1 = 0
  BY <1>0, SumDef
<1>2. Slices[t][1].budget \in Nat \ {0}
  BY <1>0, SliceTyped
<1>3. Sum(t, 1) = Slices[t][1].budget
  BY <1>1, <1>2
<1>4. Accounts(t, j)
  BY <1>0, <1>1, <1>3 DEF Accounts
<1>5. Fresh(t, j)
  BY <1>2 DEF Fresh, out_of_budget, slice_budget_exhausted, slice_exec_time, slice_budget
<1> QED BY <1>4, <1>5

\* The next slice, if the budget of the last one has been used up exactly.
LEMMA NextSliceKeeps ==
  ASSUME plugin \in Plugins, NEW t \in Task, is_sliced_task(t), NEW j \in Job,
         Accounts(t, j), NEW k, NextSlice(t, j, k),
         \/ k.slice = 1 /\ k.exec_time = 0 /\ k.no = Succ(j.no) /\ k.exec_cost = Slices[t][1].budget
         \/ out_of_budget(t, j) /\ Within(t, j)
  PROVE  Accounts(t, k) /\ Fresh(t, k)
<1>0. /\ t \in Precise /\ j.no \in 1 .. JOB_CAP /\ j.slice \in 1 .. Count(t)
      /\ j.exec_time \in Nat /\ j.exec_cost \in Nat /\ Count(t) \in Nat /\ j.slice_start \in Nat
  BY JobFields, SliceTyped DEF Accounts, JOB_CAP
<1>1. k \in Job /\ k.slice <= Count(t) /\ k.cpu = Slices[t][k.slice].cpu /\ k.slice_start = k.exec_time
  BY DEF NextSlice
<1>2. CASE k.slice = 1 /\ k.exec_time = 0 /\ k.no = Succ(j.no) /\ k.exec_cost = Slices[t][1].budget
  <2>1. k.no >= 2
    BY <1>0, <1>2 DEF Succ, JOB_CAP
  <2> QED BY <1>0, <1>1, <1>2, <2>1, FirstSlice
<1>3. CASE ~(k.slice = 1 /\ k.exec_time = 0 /\ k.no = Succ(j.no) /\ k.exec_cost = Slices[t][1].budget)
  <2>1. /\ j.slice < Count(t) /\ ~depleted(t, j)
        /\ k.slice = j.slice + 1 /\ k.exec_time = j.exec_time /\ k.no = j.no
        /\ k.exec_cost = j.exec_cost + Slices[t][k.slice].budget
    BY <1>3 DEF NextSlice
  <2>2. out_of_budget(t, j) /\ Within(t, j)
    BY <1>3
  <2>3. k.slice \in 1 .. Count(t) /\ Slices[t][k.slice].budget \in Nat \ {0} /\ k.slice - 1 = j.slice
    BY <1>0, <2>1, SliceTyped
  <2>4. Fresh(t, k)
    BY <1>0, <1>1, <2>1, <2>3 DEF Fresh, out_of_budget, slice_budget_exhausted, slice_exec_time, slice_budget
  <2>5. CASE j.no >= 2
    <3>1. j.exec_time = j.exec_cost
      BY <1>0, <2>2, <2>5, BudgetIsCost DEF Within
    <3>2. j.exec_cost = Sum(t, j.slice)
      BY <2>5 DEF Accounts
    <3>3. Sum(t, k.slice) = Sum(t, k.slice - 1) + Slices[t][k.slice].budget
      BY <1>0, <2>3, SumDef
    <3> QED BY <1>0, <1>1, <2>1, <2>3, <2>4, <2>5, <3>1, <3>2, <3>3 DEF Accounts
  <2>6. CASE ~(j.no >= 2)
    <3>1. j.no < 2 /\ j.exec_cost >= Cost[t] /\ Cost[t] \in Nat
      BY <1>0, <2>6, ConstantsAssumption DEF Accounts, JOB_CAP
    <3>2. j.exec_time <= j.exec_cost
      <4>1. CASE plugin = "EDF-WM"
        BY <2>2, <4>1 DEF Within
      <4>2. CASE plugin # "EDF-WM"
        BY <1>0, <2>1, <3>1, <4>2 DEF depleted
      <4> QED BY <4>1, <4>2
    <3>3. k.exec_cost >= Cost[t] /\ k.slice_start + Slices[t][k.slice].budget <= k.exec_cost
      BY <1>0, <1>1, <2>1, <2>3, <3>1, <3>2
    <3> QED BY <1>0, <1>1, <2>1, <2>3, <2>4, <2>6, <3>1, <3>3 DEF Accounts, slice_budget
  <2> QED BY <2>5, <2>6
<1> QED BY <1>2, <1>3

\* A new job of a regular task.
LEMMA NewPeriod ==
  ASSUME NEW t \in Task, ~is_sliced_task(t), NEW j \in Job, j.no >= 1, j.exec_cost = Cost[t],
         NEW k, k = prepare_for_next_period(t, j)
  PROVE  k \in Job /\ k.no >= 2 /\ k.suspend_time = j.suspend_time /\ k.cpu = j.cpu /\ Accounts(t, k) /\ Fresh(t, k)
<1>1. k \in Job /\ k.exec_time = 0 /\ k.no = Succ(j.no) /\ k.exec_cost = Cost[t] /\ k.suspend_time = j.suspend_time /\ k.cpu = j.cpu
  BY PeriodFacts
<1>2. k.no >= 2 /\ k.no >= 1
  BY <1>1, JobFields DEF Succ, JOB_CAP
<1>3. Cost[t] \in Nat \ {0}
  BY ConstantsAssumption
<1> QED BY <1>1, <1>2, <1>3 DEF Accounts, Fresh, out_of_budget, budget_exhausted

\* What a job may be followed by.
Renewed(t, j, k) ==
  /\ k \in Job /\ k.suspend_time = j.suspend_time /\ k.no >= j.no
  /\ Accounts(t, k) /\ Fresh(t, k)

\* wm_release_at(), cd_release_at(), hime_release_at()
LEMMA ReleaseAtFacts ==
  ASSUME plugin \in Plugins, NEW t \in Task, NEW j \in Job, Accounts(t, j),
         NEW from \in Nat, NEW k, k = ReleaseAt(t, j, from)
  PROVE  Renewed(t, j, k) /\ k.no >= 2
<1>1. CASE is_sliced_task(t)
  <2>1. PICK a : a = [j EXCEPT !.job_deadline = from, !.slice = Count(t)]
    OBVIOUS
  <2>2. Count(t) \in Nat \ {0}
    BY <1>1, SliceTyped
  <2>3. a \in Job /\ a.slice = Count(t) /\ a.no = j.no /\ a.suspend_time = j.suspend_time
    BY <2>1, <2>2 DEF Job
  <2>4. PICK signaled : k = advance_next_slice(t, a, signaled)
    BY <1>1, <2>1 DEF ReleaseAt
  <2>5. /\ NextSlice(t, a, k) /\ k.slice = 1 /\ k.exec_time = 0 /\ k.no = Succ(j.no)
        /\ k.exec_cost = Slices[t][1].budget
    <3>1. a.slice <= Count(t)
      BY <2>2, <2>3
    <3> QED BY <1>1, <2>3, <2>4, <3>1, AdvanceFacts
  <2>6. j.no \in 1 .. JOB_CAP /\ t \in Precise
    BY <1>1, JobFields DEF Accounts, JOB_CAP
  <2>7. k.no >= 2 /\ k.no >= j.no
    BY <2>5, <2>6 DEF Succ, JOB_CAP
  <2>8. k \in Job /\ k.cpu = Slices[t][1].cpu /\ k.slice_start = 0 /\ k.suspend_time = j.suspend_time
    BY <2>3, <2>5 DEF NextSlice
  <2> QED BY <1>1, <2>5, <2>6, <2>7, <2>8, FirstSlice DEF Renewed
<1>2. CASE ~is_sliced_task(t)
  <2>1. PICK a : a = [j EXCEPT !.deadline = from]
    OBVIOUS
  <2>2. a \in Job /\ a.no = j.no /\ a.suspend_time = j.suspend_time /\ a.exec_cost = j.exec_cost
    BY <2>1 DEF Job
  <2>3. j.no >= 1 /\ j.exec_cost = Cost[t] /\ j.no \in 0 .. JOB_CAP
    BY <1>2, JobFields DEF Accounts
  <2>4. k = prepare_for_next_period(t, a)
    BY <1>2, <2>1 DEF ReleaseAt, release_at
  <2>5. k.no = Succ(a.no)
    BY <2>2, <2>4, PeriodFacts
  <2>6. k.no >= j.no
    BY <2>2, <2>3, <2>5 DEF Succ, JOB_CAP
  <2> QED BY <1>2, <2>2, <2>3, <2>4, <2>6, NewPeriod DEF Renewed
<1> QED BY <1>1, <1>2

\* job_or_slice_completion(), called if the budget has run out or complete_job()
\* has been called.
LEMMA CompletionFacts ==
  ASSUME plugin \in Plugins, NEW t \in Task, NEW j \in Job, Accounts(t, j), Within(t, j),
         NEW signaled, signaled \/ out_of_budget(t, j),
         NEW k, k = job_or_slice_completion(t, j, signaled)
  PROVE  Renewed(t, j, k)
<1>0. j.no \in 1 .. JOB_CAP
  BY JobFields DEF Accounts, JOB_CAP
<1>1. CASE is_sliced_task(t)
  <2>1. k = advance_next_slice(t, j, signaled) /\ j.slice <= Count(t)
    BY <1>1 DEF job_or_slice_completion, Accounts
  <2>2. /\ NextSlice(t, j, k)
        /\ signaled => k.slice = 1 /\ k.exec_time = 0 /\ k.no = Succ(j.no)
                         /\ k.exec_cost = Slices[t][1].budget
    BY <1>1, <2>1, AdvanceFacts
  <2>3. Accounts(t, k) /\ Fresh(t, k)
    <3>1. CASE signaled
      BY <1>1, <2>2, <3>1, NextSliceKeeps
    <3>2. CASE ~signaled
      BY <1>1, <2>2, <3>2, NextSliceKeeps
    <3> QED BY <3>1, <3>2
  <2>4. k \in Job /\ k.suspend_time = j.suspend_time /\ (k.no = j.no \/ k.no = Succ(j.no))
    BY <2>2 DEF NextSlice
  <2>5. k.no >= j.no
    BY <1>0, <2>4 DEF Succ, JOB_CAP
  <2> QED BY <2>3, <2>4, <2>5 DEF Renewed
<1>2. CASE ~is_sliced_task(t)
  <2>1. k = prepare_for_next_period(t, j) /\ j.no >= 1 /\ j.exec_cost = Cost[t]
    BY <1>2 DEF job_or_slice_completion, Accounts
  <2>2. k.no = Succ(j.no)
    BY <2>1, PeriodFacts
  <2>3. k.no >= j.no
    BY <1>0, <2>2 DEF Succ, JOB_CAP
  <2> QED BY <1>2, <2>1, <2>3, NewPeriod DEF Renewed
<1> QED BY <1>1, <1>2

\* fast_forward_slices() leaves a slice alone that has not been slept through.
LEMMA NoFastForward ==
  ASSUME NEW t \in Task, NEW j, NEW left,
         ~(left > 0 /\ left >= slice_budget_remaining(t, j))
  PROVE  FastForward(t, j, left) = [job |-> j, left |-> left, bug |-> FALSE]
<1> DEFINE s0 == [job |-> j, left |-> left, bug |-> FALSE]
           more(s) == s.left > 0 /\ s.left >= slice_budget_remaining(t, s.job)
           step(s) ==
             LET r == slice_budget_remaining(t, s.job)
                 k == [s.job EXCEPT !.exec_time = @ + r]
             IN IF s.job.slice = Count(t) THEN [s EXCEPT !.bug = TRUE]
                ELSE [job |-> advance_next_slice(t, k, FALSE),
                      left |-> s.left - r, bug |-> s.bug]
           Is(g) == g = [n \in 0 .. Count(t) |->
                           IF n = 0 THEN s0
                           ELSE IF more(g[n - 1]) /\ ~g[n - 1].bug THEN step(g[n - 1]) ELSE g[n - 1]]
           F == CHOOSE g : Is(g)
<1>1. FastForward(t, j, left) = F[Count(t)]
  BY DEF FastForward
<1>2. ~more(s0)
  OBVIOUS
<1> HIDE DEF s0, more, step
<1>3. Count(t) \in Nat
  BY SliceTyped
<1>4. Is([n \in 0 .. Count(t) |-> s0])
  <2> DEFINE g == [n \in 0 .. Count(t) |-> s0]
  <2>1. \A n \in 0 .. Count(t) :
           g[n] = IF n = 0 THEN s0
                  ELSE IF more(g[n - 1]) /\ ~g[n - 1].bug THEN step(g[n - 1]) ELSE g[n - 1]
    BY <1>2, <1>3
  <2> QED BY <2>1
<1>5. PICK f : f = F
  OBVIOUS
<1>6. Is(f)
  BY <1>4, <1>5
<1>7. \A n \in 0 .. Count(t) :
         f[n] = IF n = 0 THEN s0
                ELSE IF more(f[n - 1]) /\ ~f[n - 1].bug THEN step(f[n - 1]) ELSE f[n - 1]
  BY <1>6
<1>8. f[Count(t)] = s0
  <2> DEFINE Bad == {n \in 0 .. Count(t) : f[n] # s0}
  <2> SUFFICES ASSUME Bad # {} PROVE FALSE
    BY <1>3
  <2>1. PICK n \in Bad : \A m \in Bad : n <= m
    <3>1. Bad \in SUBSET Nat
      BY <1>3
    <3> QED BY <3>1, Least
  <2>2. n \in 0 .. Count(t) /\ f[n] # s0 /\ n \in Nat
    BY <1>3
  <2>3. n # 0
    BY <1>7, <2>2
  <2>4. n - 1 \in 0 .. Count(t) /\ n - 1 \notin Bad
    BY <1>3, <2>1, <2>2, <2>3
  <2>5. f[n - 1] = s0
    BY <2>4
  <2> QED BY <1>2, <1>7, <2>2, <2>3, <2>5
<1> QED BY <1>1, <1>5, <1>8 DEF s0

\* The job of a task that is woken with budget left: no assertion fails, and
\* the job stays as it is if no time has passed since the task blocked.
LEMMA WokenFacts ==
  ASSUME plugin \in Plugins, now \in Nat, NEW t \in Task, job[t] \in Job,
         Accounts(t, job[t]), Fresh(t, job[t]), job[t].suspend_time <= now,
         is_sliced_task(t) => job[t].no >= 2 \/ job[t].suspend_time = now
  PROVE  /\ woken(t).bug = FALSE
         /\ Renewed(t, job[t], woken(t).job)
         /\ job[t].suspend_time = now =>
              woken(t).job.cpu = job[t].cpu /\ woken(t).job.release = job[t].release
<1>1. PICK j, sleep : j = job[t] /\ sleep = now - j.suspend_time
  OBVIOUS
<1>2. /\ j \in Job /\ j.exec_time \in Nat /\ j.exec_cost \in Nat /\ j.suspend_time \in Nat
      /\ j.deadline \in Nat /\ j.job_deadline \in Nat /\ j.no \in Nat
  BY <1>1, JobFields DEF JOB_CAP
<1>3. sleep \in Nat /\ (j.suspend_time = now => sleep = 0)
  BY <1>1, <1>2
<1>4. Cost[t] \in Nat \ {0} /\ Accounts(t, j) /\ Fresh(t, j)
  BY <1>1, ConstantsAssumption
<1>5. CASE j.exec_time + sleep >= j.exec_cost
  <2>1. PICK from \in Nat :
           woken(t) = [job |-> IF NewRelease(j) THEN ReleaseAt(t, j, from) ELSE j, bug |-> FALSE]
    <3>1. PICK at : at = IF is_sliced_task(t) THEN j.job_deadline ELSE j.deadline
      OBVIOUS
    <3>2. at \in Nat
      BY <1>2, <3>1
    <3>3. PICK from : from = IF at < now THEN now ELSE at
      OBVIOUS
    <3>4. from \in Nat
      BY <3>2, <3>3
    <3>5. woken(t) = [job |-> IF NewRelease(j) THEN ReleaseAt(t, j, from) ELSE j, bug |-> FALSE]
      BY <1>1, <1>5, <3>1, <3>3 DEF woken
    <3> QED BY <3>4, <3>5
  <2>2. CASE NewRelease(j)
    <3>1. woken(t).bug = FALSE /\ woken(t).job = ReleaseAt(t, j, from)
      BY <2>1, <2>2
    <3>2. Renewed(t, j, woken(t).job)
      BY <1>2, <1>4, <3>1, ReleaseAtFacts
    <3>3. j.suspend_time # now
      <4> SUFFICES ASSUME j.suspend_time = now PROVE FALSE
        OBVIOUS
      <4>1. j.exec_time = 0 /\ sleep = 0
        BY <1>3, <2>2 DEF NewRelease
      <4>2. j.exec_cost = 0
        BY <1>2, <1>5, <4>1
      <4>3. CASE is_sliced_task(t)
        <5>1. t \in Precise
          BY <1>4, <4>3 DEF Accounts
        <5> QED BY <1>2, <1>4, <4>1, <4>2, <5>1, FreshHasCost
      <4>4. CASE ~is_sliced_task(t)
        BY <1>4, <4>2, <4>4 DEF Accounts
      <4> QED BY <4>3, <4>4
    <3> QED BY <1>1, <3>1, <3>2, <3>3
  <2>3. CASE ~NewRelease(j)
    <3>1. woken(t).bug = FALSE /\ woken(t).job = j
      BY <2>1, <2>3
    <3> QED BY <1>1, <1>2, <1>4, <3>1 DEF Renewed
  <2> QED BY <2>2, <2>3
<1>6. CASE ~(j.exec_time + sleep >= j.exec_cost) /\ is_sliced_task(t)
  <2>0. j.exec_time + sleep < j.exec_cost
    BY <1>2, <1>3, <1>6
  <2>1. t \in Precise /\ ~out_of_budget(t, j) /\ (j.no >= 2 \/ sleep = 0)
    BY <1>1, <1>3, <1>4, <1>6 DEF Accounts, Fresh
  <2>2. PICK w : w = fast_forward_slices(t, j, sleep)
    OBVIOUS
  <2>3. woken(t) = [w EXCEPT !.bug = w.bug \/ out_of_budget(t, w.job)]
    BY <1>1, <1>6, <2>2 DEF woken
  <2>4. ~(sleep > 0 /\ sleep >= slice_budget_remaining(t, j))
    <3>1. CASE sleep = 0
      BY <3>1
    <3>2. CASE j.no >= 2
      <4>1. slice_budget_remaining(t, j) = j.exec_cost - j.exec_time
        BY <1>2, <1>4, <1>6, <3>2, BudgetIsCost
      <4> QED BY <1>2, <1>3, <2>0, <4>1
    <3> QED BY <2>1, <3>1, <3>2
  <2>5. FastForward(t, j, sleep) = [job |-> j, left |-> sleep, bug |-> FALSE]
    BY <2>4, NoFastForward
  <2>6. PICK k : k = [j EXCEPT !.exec_time = j.exec_time + sleep]
    OBVIOUS
  <2>7. w = [job |-> k, bug |-> (FALSE \/ j.exec_cost <= j.exec_time + sleep)]
    BY <2>1, <2>2, <2>5, <2>6 DEF fast_forward_slices
  <2>8. w.job = k /\ w.bug = FALSE
    <3>1. (FALSE \/ j.exec_cost <= j.exec_time + sleep) = FALSE
      BY <1>2, <1>3, <2>0
    <3>2. w = [job |-> k, bug |-> FALSE]
      BY <2>7, <3>1, Zenon
    <3> QED BY <3>2
  <2>9. /\ k \in Job /\ k.exec_time = j.exec_time + sleep /\ k.no = j.no /\ k.cpu = j.cpu
        /\ k.release = j.release /\ k.slice = j.slice /\ k.slice_start = j.slice_start
        /\ k.exec_cost = j.exec_cost /\ k.suspend_time = j.suspend_time
    BY <1>2, <1>3, <2>6 DEF Job
  <2>10. Accounts(t, k)
    BY <1>4, <2>9 DEF Accounts, slice_budget
  <2>11. ~out_of_budget(t, k)
    <3>1. CASE sleep = 0
      <4>1. k.exec_time = j.exec_time
        BY <1>2, <2>9, <3>1
      <4> QED BY <2>1, <2>9, <4>1, <1>6 DEF out_of_budget, slice_budget_exhausted, slice_exec_time, slice_budget
    <3>2. CASE j.no >= 2
      <4>1. out_of_budget(t, k) <=> k.exec_time >= k.exec_cost
        BY <1>6, <2>9, <2>10, <3>2, BudgetIsCost
      <4> QED BY <1>2, <1>3, <2>0, <2>9, <4>1
    <3> QED BY <2>1, <3>1, <3>2
  <2>12. woken(t).job = k /\ woken(t).bug = FALSE
    BY <2>3, <2>7, <2>8, <2>11
  <2> QED BY <1>1, <1>2, <2>9, <2>10, <2>11, <2>12 DEF Renewed, Fresh
<1>7. CASE ~(j.exec_time + sleep >= j.exec_cost) /\ ~is_sliced_task(t)
  <2>1. PICK k : k = [j EXCEPT !.exec_time = j.exec_time + sleep]
    OBVIOUS
  <2>2. woken(t) = [job |-> k, bug |-> FALSE]
    BY <1>1, <1>7, <2>1 DEF woken
  <2>3. /\ k \in Job /\ k.exec_time = j.exec_time + sleep /\ k.no = j.no /\ k.cpu = j.cpu
        /\ k.release = j.release /\ k.exec_cost = j.exec_cost /\ k.suspend_time = j.suspend_time
    BY <1>2, <1>3, <2>1 DEF Job
  <2>4. Accounts(t, k) /\ Fresh(t, k)
    BY <1>2, <1>3, <1>4, <1>7, <2>3 DEF Accounts, Fresh, out_of_budget, budget_exhausted
  <2> QED BY <1>1, <1>2, <2>2, <2>3, <2>4 DEF Renewed
<1> QED BY <1>5, <1>6, <1>7

-----------------------------------------------------------------------------
(* Priorities                                                              *)

\* __take_ready() takes a task of the queue that precedes all others.
LEMMA FirstReady ==
  ASSUME NEW js \in [Task -> Job], NEW Q \in SUBSET Task, Q # {}, Q \subseteq rt,
         NEW x, x = first_ready(js, Q)
  PROVE  x \in Q /\ \A u \in Q : u # x => edf_higher_prio(js, x, u) /\ ~edf_higher_prio(js, u, x)
<1>1. Task \subseteq Nat /\ \A t \in Task : js[t].deadline \in Nat
  BY ConstantsAssumption, JobFields
<1> DEFINE D == {js[t].deadline : t \in Q}
<1>2. PICK d \in D : \A e \in D : d <= e
  <2>1. D \in SUBSET Nat /\ D # {}
    BY <1>1
  <2> HIDE DEF D
  <2> QED BY <2>1, Least
<1> DEFINE P == {t \in Q : js[t].deadline = d}
<1>3. PICK p \in P : \A q \in P : p <= q
  <2>1. P \in SUBSET Nat /\ P # {}
    BY <1>1, <1>2
  <2> HIDE DEF P
  <2> QED BY <2>1, Least
<1>4. p \in Q /\ \A u \in Q \ {p} : edf_higher_prio(js, p, u)
  <2>1. p \in Q /\ js[p].deadline = d
    OBVIOUS
  <2>2. ASSUME NEW u \in Q, u # p PROVE edf_higher_prio(js, p, u)
    <3>1. d <= js[u].deadline /\ d \in Nat /\ js[u].deadline \in Nat /\ u \in Nat /\ p \in Nat
      BY <1>1, <1>2
    <3>2. js[u].deadline = d => p <= u
      BY <1>3
    <3> QED BY <2>1, <2>2, <3>1, <3>2 DEF edf_higher_prio
  <2> QED BY <2>1, <2>2
<1>5. x \in Q /\ \A u \in Q \ {x} : edf_higher_prio(js, x, u)
  BY <1>4 DEF first_ready
<1>6. ASSUME NEW u \in Q, u # x PROVE ~edf_higher_prio(js, u, x)
  <2>1. edf_higher_prio(js, x, u) /\ x \in Q
    BY <1>5, <1>6
  <2>2. x \in Nat /\ u \in Nat /\ js[x].deadline \in Nat /\ js[u].deadline \in Nat /\ x \in rt /\ u \in rt
    BY <1>1, <1>5
  <2> QED BY <2>1, <2>2 DEF edf_higher_prio
<1> QED BY <1>5, <1>6

\* Who precedes the predecessor of a task precedes that task.
LEMMA HigherTransitive ==
  ASSUME NEW js \in [Task -> Job], NEW a \in Task, NEW b \in Task, b \in rt, NEW x \in Task \cup {NULL},
         edf_higher_prio(js, a, b), edf_higher_prio(js, b, x), rt \subseteq Task, x \in rt \/ x = NULL
  PROVE  edf_higher_prio(js, a, x)
<1>1. Task \subseteq Nat /\ NULL \notin Task /\ \A t \in Task : js[t].deadline \in Nat
  BY ConstantsAssumption, JobFields
<1>2. CASE x \in Task
  BY <1>1, <1>2 DEF edf_higher_prio
<1>3. CASE x = NULL
  BY <1>1, <1>3 DEF edf_higher_prio
<1> QED BY <1>2, <1>3

-----------------------------------------------------------------------------
(* Interrupts and time                                                     *)

\* What can be on whose behalf rescheduled.
LEMMA CurrentTyped ==
  ASSUME TypeOK, NEW c \in CPU
  PROVE  /\ Current(c) \in Task \cup CPU
         /\ curr[c] = NULL => Current(c) = c
         /\ curr[c] # NULL => Current(c) = curr[c] /\ curr[c] \in Task
BY DEF TypeOK, Current

\* Tasks execute on one processor each.
LEMMA CurrentDistinct ==
  ASSUME TypeOK, Executing, NEW c \in CPU, NEW d \in CPU, c # d
  PROVE  Current(c) # Current(d)
<1>1. Current(c) = c \/ (Current(c) = curr[c] /\ curr[c] \in Task)
  BY CurrentTyped
<1>2. Current(d) = d \/ (Current(d) = curr[d] /\ curr[d] \in Task)
  BY CurrentTyped
<1>3. CPU \cap Task = {}
  BY ConstantsAssumption
<1> QED BY <1>1, <1>2, <1>3 DEF Executing

\* The parts of the invariant that are about where tasks are.
Whereabouts ==
  Executing /\ Following /\ InDomain /\ HandOver /\ Kept /\ JustBlocked /\ NoSpinDeadlock

\* They are kept if tasks stay where they are and in the same slice.
LEMMA WhereaboutsKept ==
  ASSUME TypeOK, Whereabouts,
         UNCHANGED <<rt, running, ready, relq, scheduled, hand, curr, task_cpu, stack_in_use,
                     next, was_running, phase, now>>,
         \A t \in Task : /\ job'[t].cpu = job[t].cpu /\ job'[t].release = job[t].release
                         /\ job'[t].suspend_time = job[t].suspend_time
  PROVE  Whereabouts'
<1>1. Executing'
  BY DEF Whereabouts, Executing
<1>2. Following'
  BY DEF Whereabouts, Following, Deciding
<1>3. InDomain'
  BY DEF Whereabouts, InDomain
<1>4. HandOver'
  BY DEF Whereabouts, HandOver
<1>5. Kept'
  BY DEF Whereabouts, Kept, Nowhere
<1>6. JustBlocked'
  BY DEF Whereabouts, JustBlocked
<1>7. NoSpinDeadlock'
  BY DEF Whereabouts, NoSpinDeadlock, SpinsOn
<1> QED BY <1>1, <1>2, <1>3, <1>4, <1>5, <1>6, <1>7 DEF Whereabouts

\* The enforcement timer expires.
LEMMA TimeoutStep ==
  ASSUME IInv, NEW c \in CPU, on_enforcement_timeout(c)
  PROVE  IInv'
<1>0. TypeOK /\ ~panic /\ Whereabouts /\ Clocks /\ Released /\ Budgets /\ Enforced /\ Requested
  BY DEF IInv, Whereabouts
<1>1. /\ UNCHANGED <<plugin, taskVars, flags, job, queueVars, scheduled, hand,
                     switchVars, phase, now, rqclock, start, ipi, panic>>
      /\ timer' = [timer EXCEPT ![c] = NULL] /\ tif' = tif \cup {Current(c)}
      /\ phase[c] = "run" /\ timer[c] # NULL /\ timer[c] <= now
  BY DEF on_enforcement_timeout, Open
<1>2. TypeOK'
  BY <1>0, <1>1, CurrentTyped DEF TypeOK
<1>3. Whereabouts'
  BY <1>0, <1>1, WhereaboutsKept
<1>4. Clocks'
  BY <1>0, <1>1 DEF Clocks
<1>5. Released'
  BY <1>0, <1>1 DEF Released
<1>6. Budgets'
  BY <1>0, <1>1 DEF Budgets, Accounts, Fresh, out_of_budget, slice_budget_exhausted, budget_exhausted,
       slice_exec_time, slice_budget, Deciding
<1>7. Enforced'
  <2> SUFFICES ASSUME NEW d \in CPU, NEW t \in Task, curr[d] = t
               PROVE  /\ phase[d] = "sched" => Within(t, job[t])'
                      /\ phase[d] = "run" /\ t \in Precise /\ job[t].no >= 2 =>
                           \/ /\ timer'[d] # NULL /\ now <= timer'[d]
                              /\ timer'[d] + job[t].exec_time = start[d] + job[t].exec_cost
                           \/ /\ job[t].exec_time + now <= start[d] + job[t].exec_cost
                              /\ t \in tif'
    BY <1>1 DEF Enforced
  <2>1. Within(t, job[t]) <=> Within(t, job[t])'
    BY <1>1 DEF Within
  <2>2. CASE d = c
    <3>1. t \in tif' /\ NULL \notin Task
      BY <1>0, <1>1, <2>2, ConstantsAssumption DEF Current
    <3>2. /\ job[t].exec_time \in Nat /\ job[t].exec_cost \in Nat /\ now \in Nat /\ start[d] \in Nat
          /\ timer[c] \in Nat
      BY <1>0, <1>1, JobFields DEF TypeOK
    <3> QED BY <1>0, <1>1, <2>1, <2>2, <3>1, <3>2 DEF Enforced
  <2>3. CASE d # c
    <3>1. timer'[d] = timer[d]
      BY <1>0, <1>1, <2>3 DEF TypeOK
    <3> QED BY <1>0, <1>1, <2>1, <2>3, <3>1 DEF Enforced
  <2> QED BY <2>2, <2>3
<1>8. Requested'
  BY <1>0, <1>1 DEF Requested, Current, edf_higher_prio
<1> QED BY <1>0, <1>1, <1>2, <1>3, <1>4, <1>5, <1>6, <1>7, <1>8 DEF IInv, Whereabouts

\* The rescheduling interrupt is taken.
LEMMA InterruptStep ==
  ASSUME IInv, NEW c \in CPU, reschedule_interrupt(c)
  PROVE  IInv'
<1>0. TypeOK /\ ~panic /\ Whereabouts /\ Clocks /\ Released /\ Budgets /\ Enforced /\ Requested
  BY DEF IInv, Whereabouts
<1>1. /\ UNCHANGED <<plugin, taskVars, flags, job, queueVars, scheduled, hand,
                     switchVars, phase, clockVars, panic>>
      /\ ipi' = ipi \ {c} /\ tif' = tif \cup {Current(c)} /\ phase[c] = "run"
  BY DEF reschedule_interrupt, Open
<1>2. TypeOK'
  BY <1>0, <1>1, CurrentTyped DEF TypeOK
<1>3. Whereabouts'
  BY <1>0, <1>1, WhereaboutsKept
<1>4. Clocks'
  BY <1>0, <1>1 DEF Clocks
<1>5. Released'
  BY <1>0, <1>1 DEF Released
<1>6. Budgets'
  BY <1>0, <1>1 DEF Budgets, Accounts, Fresh, out_of_budget, slice_budget_exhausted, budget_exhausted,
       slice_exec_time, slice_budget, Deciding
<1>7. Enforced'
  BY <1>0, <1>1 DEF Enforced, Within
<1>8. Requested'
  <2> SUFFICES ASSUME NEW d \in CPU, phase[d] # "sched"
               PROVE  \/ d \in ipi'
                      \/ phase[d] = "run" /\ Current(d) \in tif'
                      \/ \A u \in ready[d] : edf_higher_prio(job, u, scheduled[d]) => u \in tif'
    BY <1>1 DEF Requested, Current, edf_higher_prio
  <2> QED BY <1>0, <1>1 DEF Requested
<1> QED BY <1>0, <1>1, <1>2, <1>3, <1>4, <1>5, <1>6, <1>7, <1>8 DEF IInv, Whereabouts

\* Time passes only if nobody has to react to it at once.
LEMMA ClockStep ==
  ASSUME IInv, SupportedUse, clock
  PROVE  IInv'
<1>0. TypeOK /\ ~panic /\ Whereabouts /\ Clocks /\ Released /\ Budgets /\ Enforced /\ Requested
  BY DEF IInv, Whereabouts
<1>1. /\ UNCHANGED <<plugin, taskVars, flags, job, queueVars, scheduled, hand,
                     switchVars, phase, rqclock, start, timer, sigVars, panic>>
      /\ now' = now + 1 /\ \A c \in CPU : ~Urgent(c)
  BY DEF clock, SupportedUse
<1>2. TypeOK'
  BY <1>0, <1>1 DEF TypeOK
<1>3. now \in Nat /\ \A c \in CPU : phase[c] = "run" /\ (timer[c] # NULL => timer[c] > now) /\ Current(c) \notin tif
  BY <1>0, <1>1 DEF TypeOK, Urgent, Open
<1>4. \A t \in Task : job[t].release \in Nat /\ job[t].suspend_time \in Nat
  BY <1>0, JobFields DEF TypeOK
<1>5. Whereabouts'
  <2>1. Executing'
    BY <1>0, <1>1 DEF Whereabouts, Executing
  <2>2. Following'
    BY <1>0, <1>1 DEF Whereabouts, Following, Deciding
  <2>3. InDomain'
    BY <1>0, <1>1, <1>3, <1>4 DEF Whereabouts, InDomain
  <2>4. HandOver'
    BY <1>0, <1>1 DEF Whereabouts, HandOver
  <2>5. Kept'
    BY <1>0, <1>1 DEF Whereabouts, Kept, Nowhere
  <2>6. JustBlocked'
    BY <1>0, <1>1, <1>3 DEF Whereabouts, JustBlocked
  <2>7. NoSpinDeadlock'
    BY <1>0, <1>1 DEF Whereabouts, NoSpinDeadlock, SpinsOn
  <2> QED BY <2>1, <2>2, <2>3, <2>4, <2>5, <2>6, <2>7 DEF Whereabouts
<1>6. Clocks'
  <2>1. \A c \in CPU : start[c] \in Nat
    BY <1>0 DEF TypeOK
  <2> QED BY <1>0, <1>1, <1>3, <1>4, <2>1 DEF Clocks
<1>7. Released'
  BY <1>0, <1>1 DEF Released
<1>8. Budgets'
  BY <1>0, <1>1 DEF Budgets, Accounts, Fresh, out_of_budget, slice_budget_exhausted, budget_exhausted,
       slice_exec_time, slice_budget, Deciding
<1>9. Enforced'
  <2> SUFFICES ASSUME NEW d \in CPU, NEW t \in Task, curr[d] = t, t \in Precise, job[t].no >= 2
               PROVE  /\ timer[d] # NULL /\ now + 1 <= timer[d]
                      /\ timer[d] + job[t].exec_time = start[d] + job[t].exec_cost
    BY <1>1, <1>3 DEF Enforced
  <2>1. t \notin tif
    BY <1>3, ConstantsAssumption DEF Current
  <2>2. timer[d] # NULL => timer[d] \in Nat
    BY <1>0 DEF TypeOK
  <2> QED BY <1>0, <1>3, <2>1, <2>2 DEF Enforced
<1>10. Requested'
  BY <1>0, <1>1 DEF Requested, Current, edf_higher_prio
<1> QED BY <1>0, <1>1, <1>2, <1>5, <1>6, <1>7, <1>8, <1>9, <1>10 DEF IInv, Whereabouts

-----------------------------------------------------------------------------
(* Execution time and schedule()                                           *)

\* Jobs j and k differ in what time does to them only.
SameSlice(j, k) ==
  /\ k \in Job /\ k.release = j.release /\ k.deadline = j.deadline /\ k.exec_cost = j.exec_cost
  /\ k.no = j.no /\ k.cpu = j.cpu /\ k.slice = j.slice /\ k.slice_start = j.slice_start

\* The accounts are about the slice.
LEMMA AccountsSame ==
  ASSUME NEW t, NEW j, NEW k, SameSlice(j, k), Accounts(t, j)
  PROVE  Accounts(t, k)
BY DEF SameSlice, Accounts, slice_budget

\* update_time_litmus()
LEMMA ChargedFacts ==
  ASSUME TypeOK, Clocks, NEW c \in CPU, NEW js, js = charged(c)
  PROVE  /\ js \in [Task -> Job]
         /\ \A t \in Task : curr[c] # t => js[t] = job[t]
         /\ \A t \in Task : SameSlice(job[t], js[t]) /\ js[t].suspend_time = job[t].suspend_time
         /\ \A t \in Task : curr[c] = t => js[t].exec_time = job[t].exec_time + (now - start[c])
<1>1. /\ job \in [Task -> Job] /\ now \in Nat /\ start[c] \in Nat /\ start[c] <= now
      /\ curr[c] \in Task \cup {NULL} /\ NULL \notin Task
  BY ConstantsAssumption DEF TypeOK, Clocks
<1>2. CASE curr[c] = NULL
  <2>1. js = job
    BY <1>2 DEF charged
  <2> QED BY <1>1, <1>2, <2>1 DEF SameSlice
<1>3. CASE curr[c] # NULL
  <2>1. PICK t, j : t = curr[c] /\ j = job[t]
    OBVIOUS
  <2>2. t \in Task /\ j \in Job /\ j.exec_time \in Nat
    BY <1>1, <1>3, <2>1, JobFields
  <2>3. PICK k : k = [j EXCEPT !.exec_time = j.exec_time + (now - start[c])]
    OBVIOUS
  <2>4. j.exec_time + (now - start[c]) \in Nat
    BY <1>1, <2>2
  <2>5. /\ k \in Job /\ SameSlice(j, k) /\ k.suspend_time = j.suspend_time
        /\ k.exec_time = j.exec_time + (now - start[c])
    BY <2>2, <2>3, <2>4 DEF SameSlice, Job
  <2>6. js = [job EXCEPT ![t] = k]
    BY <1>3, <2>1, <2>3 DEF charged
  <2>7. js \in [Task -> Job] /\ js[t] = k /\ \A u \in Task : u # t => js[u] = job[u]
    BY <1>1, <2>2, <2>5, <2>6
  <2>8. \A u \in Task : SameSlice(job[u], job[u])
    BY <1>1 DEF SameSlice
  <2> QED BY <2>1, <2>5, <2>7, <2>8
<1> QED BY <1>2, <1>3

\* The tick of the plugin.
LEMMA TickStep ==
  ASSUME IInv, NEW c \in CPU, tick(c)
  PROVE  IInv'
<1>0. TypeOK /\ ~panic /\ Whereabouts /\ Clocks /\ Released /\ Budgets /\ Enforced /\ Requested
  BY DEF IInv, Whereabouts
<1>1. PICK x : x = curr[c]
  OBVIOUS
<1>2. /\ UNCHANGED <<plugin, taskVars, flags, queueVars, scheduled, hand,
                     switchVars, phase, now, rqclock, timer, ipi>>
      /\ job' = charged(c) /\ start' = [start EXCEPT ![c] = now] /\ tif' = tif \cup {x}
      /\ panic' = (panic \/ x # scheduled[c])
      /\ x \in Precise /\ phase[c] = "run"
  BY <1>1 DEF tick, Open, BugOn
<1>3. x \in Task /\ x # NULL
  BY <1>2, ConstantsAssumption
<1>4. ~panic'
  <2>1. x = scheduled[c]
    BY <1>0, <1>1, <1>2 DEF Whereabouts, Following, Deciding
  <2> QED BY <1>0, <1>2, <2>1
<1>5. /\ job' \in [Task -> Job]
      /\ \A t \in Task : x # t => job'[t] = job[t]
      /\ \A t \in Task : SameSlice(job[t], job'[t]) /\ job'[t].suspend_time = job[t].suspend_time
      /\ job'[x].exec_time = job[x].exec_time + (now - start[c])
  BY <1>0, <1>1, <1>2, <1>3, ChargedFacts
<1>6. TypeOK'
  <2>1. panic' \in BOOLEAN
    BY <1>2
  <2>2. start' \in [CPU -> Nat]
    BY <1>0, <1>2 DEF TypeOK
  <2> QED BY <1>0, <1>2, <1>3, <1>5, <2>1, <2>2 DEF TypeOK
<1>7. Whereabouts'
  BY <1>0, <1>2, <1>5, WhereaboutsKept DEF SameSlice
<1>8. Clocks'
  <2>1. now \in Nat /\ \A d \in CPU : start'[d] = IF d = c THEN now ELSE start[d]
    BY <1>0, <1>2 DEF TypeOK
  <2> QED BY <1>0, <1>2, <1>5, <2>1 DEF Clocks
<1>9. Released'
  BY <1>0, <1>2, <1>5 DEF Released, SameSlice
<1>10. Budgets'
  <2> SUFFICES ASSUME NEW t \in rt
               PROVE  /\ Accounts(t, job'[t])
                      /\ \/ \E d \in CPU : scheduled[d] = t /\ Deciding(d) /\ t \in running
                         \/ Fresh(t, job'[t])
    BY <1>2 DEF Budgets, Deciding, Accounts, Fresh, out_of_budget, slice_budget_exhausted, budget_exhausted,
       slice_exec_time, slice_budget
  <2>1. t \in Task
    BY <1>0 DEF TypeOK
  <2>2. Accounts(t, job'[t])
    BY <1>0, <1>5, <2>1, AccountsSame DEF Budgets
  <2>3. CASE t = x
    <3>1. scheduled[c] = t /\ Deciding(c) /\ t \in running
      BY <1>0, <1>1, <1>2, <1>3, <2>3 DEF Whereabouts, Following, Deciding, InDomain
    <3> QED BY <2>2, <3>1
  <2>4. CASE t # x
    BY <1>0, <1>5, <2>1, <2>2, <2>4 DEF Budgets
  <2> QED BY <2>3, <2>4
<1>11. Enforced'
  <2> SUFFICES ASSUME NEW d \in CPU, NEW t \in Task, curr[d] = t
               PROVE  /\ phase[d] = "sched" => Within(t, job[t])'
                      /\ phase[d] = "run" /\ t \in Precise /\ job'[t].no >= 2 =>
                           \/ /\ timer[d] # NULL /\ now <= timer[d]
                              /\ timer[d] + job'[t].exec_time = start'[d] + job'[t].exec_cost
                           \/ /\ job'[t].exec_time + now <= start'[d] + job'[t].exec_cost
                              /\ t \in tif'
    BY <1>2 DEF Enforced
  <2>1. CASE d = c
    <3>1. /\ t = x /\ start'[d] = now /\ job[t].exec_time \in Nat /\ job[t].exec_cost \in Nat
          /\ now \in Nat /\ start[d] \in Nat /\ (timer[d] # NULL => timer[d] \in Nat)
      BY <1>0, <1>1, <1>2, <2>1, JobFields DEF TypeOK
    <3>2. job'[t].exec_cost = job[t].exec_cost /\ job'[t].no = job[t].no
      BY <1>5 DEF SameSlice
    <3> QED BY <1>0, <1>2, <1>5, <2>1, <3>1, <3>2 DEF Enforced
  <2>2. CASE d # c
    <3>1. t # x /\ start'[d] = start[d]
      BY <1>0, <1>1, <1>2, <2>2 DEF Whereabouts, Executing, TypeOK
    <3>2. job'[t] = job[t]
      BY <1>5, <3>1
    <3> QED BY <1>0, <1>2, <3>1, <3>2 DEF Enforced, Within
  <2> QED BY <2>1, <2>2
<1>12. Requested'
  <2>1. \A t \in Task : job'[t].deadline = job[t].deadline
    BY <1>5 DEF SameSlice
  <2>2. \A d \in CPU : \A u \in ready[d] : edf_higher_prio(job', u, scheduled[d]) <=> edf_higher_prio(job, u, scheduled[d])
    <3> TAKE d \in CPU
    <3> TAKE u \in ready[d]
    <3>1. u \in Task /\ rt \subseteq Task
      BY <1>0 DEF TypeOK
    <3> QED BY <2>1, <3>1 DEF edf_higher_prio
  <2>3. \A d \in CPU : \A u \in ready[d] : edf_higher_prio(job, u, scheduled[d])' <=> edf_higher_prio(job', u, scheduled[d])
    BY <1>2 DEF edf_higher_prio
  <2> QED BY <1>0, <1>2, <2>2, <2>3 DEF Requested, Current
<1> QED BY <1>0, <1>2, <1>4, <1>6, <1>7, <1>8, <1>9, <1>10, <1>11, <1>12 DEF IInv, Whereabouts

\* What schedule() does to the task that calls it before the plugin decides.
Blocks(t, s) ==
  /\ running' = running \ {t} /\ Fresh(t, job'[t]) /\ job'[t].suspend_time = now
  /\ t \in Suspending \/ t \in Synched
  /\ \/ sync[t] = "new" /\ s = "wait"
     \/ sync[t] = "done" /\ s = "done"

\* A processor enters schedule(), and its task is charged; the task may have
\* completed its job or blocked before.
LEMMA EnterStep ==
  ASSUME IInv, FirstJobShort, NEW c \in CPU, Open(c), enter(c),
         ready' = ready, ~panic', panic' \in BOOLEAN,
         flags' \in [Task -> {"RUNNING", "SLEEP"}], sync' \in [Task -> {"new", "wait", "done"}],
         job' \in [Task -> Job],
         \A t \in Task : curr[c] # t => job'[t] = job[t] /\ sync'[t] = sync[t],
         \A t \in Task : curr[c] = t => /\ SameSlice(job[t], job'[t])
                                        /\ job'[t].exec_time = job[t].exec_time + (now - start[c]),
         \/ /\ running' = running /\ sync' = sync
            /\ \A t \in Task : job'[t].suspend_time = job[t].suspend_time
         \/ \E t \in Task : curr[c] = t /\ Blocks(t, sync'[t])
  PROVE  IInv'
<1>0. TypeOK /\ ~panic /\ Whereabouts /\ Clocks /\ Released /\ Budgets /\ Enforced /\ Requested
  BY DEF IInv, Whereabouts
<1>00. Executing /\ Following /\ InDomain /\ HandOver /\ Kept /\ JustBlocked /\ NoSpinDeadlock
  BY <1>0 DEF Whereabouts
<1>1. /\ UNCHANGED <<plugin, rt, ready, relq, scheduled, hand, switchVars, now, start, timer, ipi>>
      /\ phase' = [phase EXCEPT ![c] = "sched"] /\ rqclock' = [rqclock EXCEPT ![c] = now]
      /\ tif' = tif \ {Current(c)} /\ phase[c] = "run" /\ hand[c] = NULL
  BY DEF enter, Open
<1>2. /\ \A d \in CPU : phase'[d] = IF d = c THEN "sched" ELSE phase[d]
      /\ \A d \in CPU : rqclock'[d] = IF d = c THEN now ELSE rqclock[d]
      /\ phase' \in [CPU -> {"run", "sched", "wait", "resim", "attach", "switch"}]
      /\ rqclock' \in [CPU -> Nat] /\ now \in Nat /\ NULL \notin Task
  BY <1>0, <1>1, ConstantsAssumption DEF TypeOK
<1>3. /\ running' \in SUBSET running
      /\ \A t \in Task : t \in running /\ t \notin running' => curr[c] = t
  BY DEF Blocks
<1>4. \A t \in Task : SameSlice(job[t], job'[t]) /\ (curr[c] # t => job'[t] = job[t])
  <2>1. job \in [Task -> Job]
    BY <1>0 DEF TypeOK
  <2> QED BY <2>1 DEF SameSlice
<1>5. TypeOK'
  BY <1>0, <1>1, <1>2, <1>3 DEF TypeOK
<1>6. scheduled[c] = curr[c]
  BY <1>00, <1>1 DEF Following, Deciding
<1>7. Executing'
  BY <1>00, <1>1 DEF Executing
<1>8. Following'
  BY <1>00, <1>1, <1>2 DEF Following, Deciding
<1>9. \A d \in CPU, t \in Task : /\ t \in ready[d] \/ t \in relq[d] \/ hand[d] = t => curr[c] # t
                                 /\ d # c /\ (scheduled[d] = t \/ curr[d] = t) => curr[c] # t
  BY <1>00, <1>1, <1>6 DEF InDomain, HandOver, Executing
<1>10. \A t \in Task : job'[t].cpu = job[t].cpu /\ job'[t].release = job[t].release
  BY <1>4 DEF SameSlice
<1>11. InDomain'
  BY <1>00, <1>1, <1>2, <1>3, <1>9, <1>10 DEF InDomain
<1>12. HandOver'
  BY <1>00, <1>1, <1>2, <1>3, <1>9, <1>10 DEF HandOver
<1>13. Kept'
  <2>1. ASSUME NEW t \in Task, t \in rt', t \in running', Nowhere(t)'
        PROVE  \E d \in CPU : phase'[d] = "resim" /\ curr'[d] = t
    <3>1. Nowhere(t) /\ t \in rt /\ t \in running
      BY <1>1, <1>3, <2>1 DEF Nowhere
    <3>2. PICK d \in CPU : phase[d] = "resim" /\ curr[d] = t
      BY <1>00, <3>1 DEF Kept
    <3> QED BY <1>1, <1>2, <3>2
  <2>2. ASSUME NEW d \in CPU, phase'[d] = "resim"
        PROVE  curr'[d] \in rt' /\ curr'[d] \in running' /\ Nowhere(curr[d])'
    <3>1. d # c /\ phase[d] = "resim"
      BY <1>2, <2>2
    <3>2. curr[d] \in rt /\ curr[d] \in running /\ Nowhere(curr[d]) /\ curr[d] \in Task
      BY <1>0, <1>00, <3>1 DEF Kept, TypeOK
    <3> QED BY <1>1, <1>3, <1>9, <3>1, <3>2 DEF Nowhere
  <2> QED BY <2>1, <2>2 DEF Kept
<1>14. JustBlocked'
  <2> SUFFICES ASSUME NEW d \in CPU, NEW t \in Task, curr[d] = t, phase'[d] # "run"
               PROVE  /\ t \notin running' \/ phase'[d] = "resim" =>
                           job'[t].suspend_time = now /\ job'[t].cpu = d /\ job'[t].release <= now
                      /\ phase'[d] = "wait" /\ ~was_running[d] /\ t \in running' => t \in ready[d]
    BY <1>1 DEF JustBlocked
  <2>1. CASE d = c
    <3>1. job[t].cpu = c /\ job[t].release <= now /\ phase'[d] = "sched" /\ t \in running
      BY <1>00, <1>1, <1>2, <1>6, <2>1 DEF InDomain
    <3>2. t \notin running' => job'[t].suspend_time = now
      BY <2>1, <3>1 DEF Blocks
    <3> QED BY <1>10, <2>1, <3>1, <3>2
  <2>2. CASE d # c
    <3>1. curr[c] # t /\ phase'[d] = phase[d]
      BY <1>2, <1>9, <2>2
    <3>2. job'[t] = job[t] /\ (t \in running' <=> t \in running)
      BY <1>3, <1>4, <3>1
    <3> QED BY <1>00, <3>1, <3>2 DEF JustBlocked
  <2> QED BY <2>1, <2>2
<1>15. NoSpinDeadlock'
  BY <1>00, <1>1, <1>2 DEF NoSpinDeadlock, SpinsOn
<1>16. Clocks'
  <2>1. \A t \in Task : job'[t].suspend_time <= now
    <3> TAKE t \in Task
    <3>1. job[t].suspend_time <= now /\ now <= now
      BY <1>0, <1>2 DEF Clocks
    <3>2. job'[t].suspend_time = job[t].suspend_time \/ job'[t].suspend_time = now
      BY <1>4 DEF Blocks
    <3> QED BY <3>1, <3>2
  <2> QED BY <1>0, <1>1, <1>2, <2>1 DEF Clocks
<1>17. Released'
  <2> SUFFICES ASSUME NEW t \in Task
               PROVE  /\ sync'[t] # "done" => t \in rt /\ t \in Synched
                      /\ sync'[t] = "wait" => t \notin running'
                      /\ t \in rt /\ t \notin running' => t \in Suspending \/ t \in Synched
                      /\ t \in rt /\ t \in Synched /\ sync'[t] = "done" => job'[t].no >= 2
    BY <1>1 DEF Released
  <2>1. job'[t].no = job[t].no
    BY <1>4 DEF SameSlice
  <2>2. CASE curr[c] # t
    BY <1>0, <1>3, <2>1, <2>2 DEF Released
  <2>3. CASE curr[c] = t
    BY <1>0, <1>3, <2>1, <2>3 DEF Released, Blocks
  <2> QED BY <2>2, <2>3
<1>18. Budgets'
  <2> SUFFICES ASSUME NEW t \in rt
               PROVE  /\ Accounts(t, job'[t])
                      /\ \/ \E d \in CPU : scheduled[d] = t /\ Deciding(d)' /\ t \in running'
                         \/ Fresh(t, job'[t])
    BY <1>1 DEF Budgets
  <2>1. t \in Task
    BY <1>0 DEF TypeOK
  <2>2. Accounts(t, job'[t])
    BY <1>0, <1>4, <2>1, AccountsSame DEF Budgets
  <2>3. CASE curr[c] = t
    <3>1. scheduled[c] = t /\ Deciding(c)' /\ t \in running
      BY <1>00, <1>1, <1>2, <1>6, <2>1, <2>3 DEF Deciding, InDomain
    <3>2. t \in running' \/ Fresh(t, job'[t])
      BY <2>1, <2>3, <3>1 DEF Blocks
    <3> QED BY <2>2, <3>1, <3>2
  <2>4. CASE curr[c] # t
    <3>1. job'[t] = job[t] /\ (t \in running' <=> t \in running)
      BY <1>3, <1>4, <2>1, <2>4
    <3>2. \A d \in CPU : Deciding(d) => Deciding(d)'
      BY <1>2 DEF Deciding
    <3> QED BY <1>0, <2>2, <3>1, <3>2 DEF Budgets
  <2> QED BY <2>3, <2>4
<1>19. Enforced'
  <2> SUFFICES ASSUME NEW d \in CPU, NEW t \in Task, curr[d] = t
               PROVE  /\ phase'[d] = "sched" => Within(t, job[t])'
                      /\ phase'[d] = "run" /\ t \in Precise /\ job'[t].no >= 2 =>
                           \/ /\ timer[d] # NULL /\ now <= timer[d]
                              /\ timer[d] + job'[t].exec_time = start[d] + job'[t].exec_cost
                           \/ /\ job'[t].exec_time + now <= start[d] + job'[t].exec_cost
                              /\ t \in tif'
    BY <1>1 DEF Enforced
  <2>1. CASE d = c
    <3>1. phase'[d] = "sched"
      BY <1>2, <2>1
    <3>2. /\ job[t].exec_time \in Nat /\ job[t].exec_cost \in Nat /\ now \in Nat /\ start[d] \in Nat
          /\ (timer[d] # NULL => timer[d] \in Nat) /\ job[t].no \in Nat
      <4>1. job[t] \in Job /\ now \in Nat /\ start[d] \in Nat /\ (timer[d] # NULL => timer[d] \in Nat)
        BY <1>0 DEF TypeOK
      <4> QED BY <4>1, JobFields DEF JOB_CAP
    <3>3. /\ job'[t].exec_cost = job[t].exec_cost /\ job'[t].no = job[t].no
          /\ job'[t].exec_time = job[t].exec_time + (now - start[d])
      BY <1>4, <2>1 DEF SameSlice
    <3>4. CASE is_sliced_task(t) /\ job[t].no >= 2
      <4>1. t \in Precise
        BY <1>0, <1>00, <3>4 DEF Budgets, Accounts, Executing
      <4>2. job[t].exec_time + now <= start[d] + job[t].exec_cost
        BY <1>0, <1>1, <2>1, <3>2, <3>4, <4>1 DEF Enforced
      <4> QED BY <3>1, <3>2, <3>3, <4>2 DEF Within
    <3>5. CASE is_sliced_task(t) /\ ~(job[t].no >= 2) /\ plugin = "EDF-WM"
      <4>1. job[t].no < 2 /\ t # NULL
        BY <1>2, <3>2, <3>5
      <4>2. charged(c)[t].exec_time <= job[t].exec_cost
        BY <1>1, <2>1, <3>5, <4>1 DEF FirstJobShort
      <4>3. charged(c)[t].exec_time = job[t].exec_time + (now - start[c])
        BY <1>0, <2>1, ChargedFacts
      <4> QED BY <2>1, <3>1, <3>2, <3>3, <4>2, <4>3 DEF Within
    <3>6. CASE ~is_sliced_task(t) \/ (~(job[t].no >= 2) /\ plugin # "EDF-WM")
      BY <1>1, <3>1, <3>3, <3>6 DEF Within
    <3> QED BY <3>4, <3>5, <3>6
  <2>2. CASE d # c
    <3>1. curr[c] # t /\ phase'[d] = phase[d]
      BY <1>2, <1>9, <2>2
    <3>2. job'[t] = job[t]
      BY <1>4, <3>1
    <3>3. Current(d) = t /\ Current(c) # t
      BY <1>0, <1>00, <1>2, <2>2, CurrentDistinct DEF Current
    <3> QED BY <1>0, <1>1, <3>1, <3>2, <3>3 DEF Enforced, Within
  <2> QED BY <2>1, <2>2
<1>20. Requested'
  <2> SUFFICES ASSUME NEW d \in CPU, phase'[d] # "sched"
               PROVE  \/ d \in ipi
                      \/ phase'[d] = "run" /\ Current(d) \in tif'
                      \/ \A u \in ready[d] : edf_higher_prio(job', u, scheduled[d]) => u \in tif'
    BY <1>1 DEF Requested, Current, edf_higher_prio
  <2>1. d # c /\ phase'[d] = phase[d]
    BY <1>2
  <2>2. Current(d) # Current(c)
    BY <1>0, <1>00, <2>1, CurrentDistinct
  <2>3. CASE d \in ipi \/ (phase[d] = "run" /\ Current(d) \in tif)
    BY <1>1, <2>1, <2>2, <2>3
  <2>4. CASE \A u \in ready[d] : edf_higher_prio(job, u, scheduled[d]) => u \in tif
    <3> SUFFICES ASSUME NEW u \in ready[d], edf_higher_prio(job', u, scheduled[d]) PROVE u \in tif'
      OBVIOUS
    <3>1. u \in Task /\ rt \subseteq Task /\ CPU \cap Task = {}
      BY <1>0, ConstantsAssumption DEF TypeOK
    <3>2. \A t \in Task : job'[t].deadline = job[t].deadline
      BY <1>4 DEF SameSlice
    <3>3. edf_higher_prio(job, u, scheduled[d])
      BY <3>1, <3>2 DEF edf_higher_prio
    <3>4. curr[c] # u
      BY <1>9, <3>1
    <3>5. Current(c) # u
      BY <1>0, <3>1, <3>4, CurrentTyped
    <3> QED BY <1>1, <2>4, <3>3, <3>5
  <2> QED BY <1>0, <2>1, <2>3, <2>4 DEF Requested
<1> QED BY <1>5, <1>7, <1>8, <1>11, <1>12, <1>13, <1>14, <1>15, <1>16, <1>17, <1>18, <1>19, <1>20 DEF IInv

\* The task on c is preempted or completes its job.
LEMMA ScheduleStep ==
  ASSUME IInv, FirstJobShort, NEW c \in CPU, schedule(c) \/ complete_job(c)
  PROVE  IInv'
<1>0. TypeOK /\ ~panic /\ Clocks
  BY DEF IInv
<1>1. /\ Open(c) /\ enter(c) /\ job' = charged(c)
      /\ UNCHANGED <<running, sync, ready, panic>>
  BY DEF schedule, complete_job
<1>2. flags' \in [Task -> {"RUNNING", "SLEEP"}]
  <2>1. flags \in [Task -> {"RUNNING", "SLEEP"}]
    BY <1>0 DEF TypeOK
  <2>2. flags' = flags \/ flags' = [flags EXCEPT ![curr[c]] = "SLEEP"]
    BY DEF schedule, complete_job
  <2> QED BY <2>1, <2>2
<1>3. /\ job' \in [Task -> Job]
      /\ \A t \in Task : curr[c] # t => job'[t] = job[t]
      /\ \A t \in Task : SameSlice(job[t], job'[t]) /\ job'[t].suspend_time = job[t].suspend_time
      /\ \A t \in Task : curr[c] = t => job'[t].exec_time = job[t].exec_time + (now - start[c])
  BY <1>0, <1>1, ChargedFacts
<1>4. ready' = ready /\ ~panic' /\ panic' \in BOOLEAN /\ sync' = sync /\ running' = running
      /\ sync' \in [Task -> {"new", "wait", "done"}]
  BY <1>0, <1>1 DEF TypeOK
<1> QED BY <1>1, <1>2, <1>3, <1>4, EnterStep

\* The task that executes is not in a queue.
LEMMA NotQueued ==
  ASSUME TypeOK, InDomain, HandOver, NEW t \in Task, NEW c \in CPU, scheduled[c] = t
  PROVE  ~is_queued(t) /\ \A d \in CPU : t \notin ready[d] /\ t \notin relq[d] /\ hand[d] # t
BY DEF InDomain, HandOver, is_queued

\* task_block() of a task that is in no queue.
LEMMA TaskBlockFacts ==
  ASSUME TypeOK, ~panic, NEW t \in Task, ~is_queued(t), task_block(t)
  PROVE  ready' = ready /\ ~panic' /\ panic' \in BOOLEAN
<1>1. ready \in [CPU -> SUBSET Task] /\ job[t].cpu \in CPU
  BY JobFields DEF TypeOK
<1>2. \A d \in CPU : t \notin ready[d]
  BY DEF is_queued
<1>3. ready' = [ready EXCEPT ![job[t].cpu] = ready[job[t].cpu] \ {t}]
  BY DEF task_block
<1>4. \A d \in CPU : ready[d] \ {t} = ready[d]
  BY <1>1, <1>2
<1>5. ready' = ready
  BY <1>1, <1>3, <1>4
<1>6. panic' = (panic \/ (is_queued(t) /\ t \notin ready[job[t].cpu]))
  BY DEF task_block, BugOn
<1> QED BY <1>5, <1>6

\* The task on c blocks, on its own or for the synchronous release.
LEMMA BlockStep ==
  ASSUME IInv, SupportedUse, FirstJobShort, NEW c \in CPU, block(c)
  PROVE  IInv'
<1>0. TypeOK /\ ~panic /\ Clocks /\ Following /\ InDomain /\ HandOver /\ Released
  BY DEF IInv
<1>1. PICK t : t = curr[c]
  OBVIOUS
<1>2. PICK k : k = charged(c)[t]
  OBVIOUS
<1>3. PICK j : j = [k EXCEPT !.suspend_time = now]
  OBVIOUS
<1>4. /\ Open(c) /\ t # NULL /\ (sync[t] = "new" \/ (t \in Suspending /\ sync[t] = "done"))
      /\ t \notin Precise \/ ~out_of_budget(t, j)
      /\ enter(c) /\ task_block(t) /\ job' = [job EXCEPT ![t] = j] /\ running' = running \ {t}
      /\ sync' = [sync EXCEPT ![t] = IF sync[t] = "new" THEN "wait" ELSE sync[t]] /\ flags' = flags
  BY <1>1, <1>2, <1>3 DEF block, SupportedUse
<1>5. t \in Task /\ now \in Nat /\ job \in [Task -> Job]
  BY <1>0, <1>1, <1>4 DEF TypeOK
<1>6. k \in Job /\ SameSlice(job[t], k) /\ k.exec_time = job[t].exec_time + (now - start[c])
  BY <1>0, <1>1, <1>2, <1>5, ChargedFacts
<1>7. j \in Job /\ SameSlice(job[t], j) /\ j.exec_time = job[t].exec_time + (now - start[c]) /\ j.suspend_time = now
  BY <1>3, <1>5, <1>6 DEF SameSlice, Job
<1>8. /\ job' \in [Task -> Job] /\ job'[t] = j /\ \A u \in Task : u # t => job'[u] = job[u]
  BY <1>4, <1>5, <1>7
<1>9. /\ sync' \in [Task -> {"new", "wait", "done"}] /\ \A u \in Task : u # t => sync'[u] = sync[u]
      /\ \/ sync[t] = "new" /\ sync'[t] = "wait"
         \/ sync[t] = "done" /\ sync'[t] = "done"
  BY <1>0, <1>4, <1>5 DEF TypeOK
<1>10. ~is_queued(t)
  <2>1. scheduled[c] = t
    BY <1>0, <1>1, <1>4 DEF Following, Deciding, Open
  <2> QED BY <1>0, <1>5, <2>1, NotQueued
<1>11. ready' = ready /\ ~panic' /\ panic' \in BOOLEAN
  BY <1>0, <1>4, <1>5, <1>10, TaskBlockFacts
<1>12. Blocks(t, sync'[t])
  BY <1>0, <1>4, <1>5, <1>7, <1>8, <1>9 DEF Blocks, Fresh, Released
<1>13. flags' \in [Task -> {"RUNNING", "SLEEP"}]
  BY <1>0, <1>4 DEF TypeOK
<1>14. \A u \in Task : curr[c] # u => job'[u] = job[u] /\ sync'[u] = sync[u]
  BY <1>1, <1>8, <1>9
<1>15. \A u \in Task : curr[c] = u => /\ SameSlice(job[u], job'[u])
                                      /\ job'[u].exec_time = job[u].exec_time + (now - start[c])
  BY <1>1, <1>7, <1>8
<1>16. \E u \in Task : curr[c] = u /\ Blocks(u, sync'[u])
  BY <1>1, <1>5, <1>12
<1> QED BY <1>4, <1>8, <1>9, <1>11, <1>13, <1>14, <1>15, <1>16, EnterStep

-----------------------------------------------------------------------------
(* Adding a task to a domain                                               *)

\* t is added to the ready or the release queue of d, depending on its job, and
\* the processor is told if t should preempt.  Executed on e.
Added(t, d, e) ==
  /\ ready' \in [CPU -> SUBSET Task] /\ relq' \in [CPU -> SUBSET Task]
  /\ flags' \in [Task -> {"RUNNING", "SLEEP"}] /\ tif' \in SUBSET (Task \cup CPU) /\ ipi' \in SUBSET CPU
  /\ \A x \in CPU : ready'[x] = IF x = d /\ job'[t].release <= now THEN ready[x] \cup {t} ELSE ready[x]
  /\ \A x \in CPU : relq'[x] = IF x = d /\ ~(job'[t].release <= now) THEN relq[x] \cup {t} ELSE relq[x]
  /\ tif \subseteq tif' /\ ipi \subseteq ipi'
  /\ job'[t].release <= now /\ edf_higher_prio(job', t, scheduled[d]) =>
       IF d = e THEN Current(e) \in tif' ELSE d \in ipi'

\* requeue() does that.
LEMMA RequeueFacts ==
  ASSUME TypeOK, NEW t \in Task, NEW d \in CPU, NEW e \in CPU, NEW js, NEW force,
         requeue(t, d, js, force, e), job' = js
  PROVE  Added(t, d, e)
<1>0. /\ ready \in [CPU -> SUBSET Task] /\ relq \in [CPU -> SUBSET Task]
      /\ flags \in [Task -> {"RUNNING", "SLEEP"}] /\ tif \in SUBSET (Task \cup CPU) /\ ipi \in SUBSET CPU
      /\ Current(e) \in Task \cup CPU
  BY CurrentTyped DEF TypeOK
<1>1. PICK Q : Q = IF is_released(js[t]) THEN ready[d] \cup {t} ELSE ready[d]
  OBVIOUS
<1>2. /\ ready' = [ready EXCEPT ![d] = Q]
      /\ relq' = IF is_released(js[t]) THEN relq ELSE [relq EXCEPT ![d] = relq[d] \cup {t}]
      /\ flags' = [flags EXCEPT ![t] = "RUNNING"]
      /\ preempt(force \/ (is_released(js[t]) /\ edf_preemption_needed(js, Q, scheduled[d])), d, e)
  BY <1>1 DEF requeue
<1>3. Q \in SUBSET Task
  BY <1>0, <1>1
<1>4. /\ tif' = tif \/ tif' = tif \cup {Current(e)} 
      /\ ipi' = ipi \/ ipi' = ipi \cup {d}
      /\ force \/ (is_released(js[t]) /\ edf_preemption_needed(js, Q, scheduled[d])) =>
           IF d = e THEN Current(e) \in tif' ELSE d \in ipi'
  BY <1>2 DEF preempt
<1>5. /\ ready' \in [CPU -> SUBSET Task] /\ relq' \in [CPU -> SUBSET Task]
      /\ flags' \in [Task -> {"RUNNING", "SLEEP"}]
  BY <1>0, <1>2, <1>3
<1>6. /\ tif' \in SUBSET (Task \cup CPU) /\ ipi' \in SUBSET CPU /\ tif \subseteq tif' /\ ipi \subseteq ipi'
  BY <1>0, <1>4
<1>7. \A x \in CPU : ready'[x] = IF x = d /\ js[t].release <= now THEN ready[x] \cup {t} ELSE ready[x]
  BY <1>0, <1>1, <1>2 DEF is_released
<1>8. \A x \in CPU : relq'[x] = IF x = d /\ ~(js[t].release <= now) THEN relq[x] \cup {t} ELSE relq[x]
  BY <1>0, <1>2 DEF is_released
<1>9. js[t].release <= now /\ edf_higher_prio(js, t, scheduled[d]) =>
        IF d = e THEN Current(e) \in tif' ELSE d \in ipi'
  BY <1>1, <1>4 DEF is_released, edf_preemption_needed
<1> QED BY <1>5, <1>6, <1>7, <1>8, <1>9 DEF Added

\* What every addition has in common: t was in no domain, and nothing else moves.
AddsOnly(t, d, e) ==
  /\ Added(t, d, e) /\ t \in rt' /\ t \in running' /\ job'[t].cpu = d
  /\ \A x \in CPU : t \notin ready[x] /\ t \notin relq[x] /\ scheduled[x] # t
  /\ \A u \in Task : u # t => /\ job'[u] = job[u]
                              /\ (u \in rt' <=> u \in rt) /\ (u \in running' <=> u \in running)
  /\ \A x \in CPU : hand'[x] = IF hand[x] = t THEN NULL ELSE hand[x]
  /\ \A x \in CPU : phase'[x] = IF phase[x] = "resim" /\ curr[x] = t THEN "attach" ELSE phase[x]
  /\ \A x \in CPU : curr[x] = t /\ phase[x] = "wait" /\ ~was_running[x] =>
                      x = d /\ job'[t].release <= now
  /\ d = e => phase[e] = "run" \/ curr[e] = t
  /\ UNCHANGED <<plugin, scheduled, curr, task_cpu, stack_in_use, next, was_running, now, rqclock,
                 start, timer>>

\* Adding a task that was nowhere, or on its way, to the queues of its domain
\* keeps everything that is known of where tasks are.
LEMMA AddWhereabouts ==
  ASSUME TypeOK, TypeOK', Whereabouts, NEW t \in Task, NEW d \in CPU, NEW e \in CPU,
         AddsOnly(t, d, e)
  PROVE  Whereabouts'
<1>0. Executing /\ Following /\ InDomain /\ HandOver /\ Kept /\ JustBlocked /\ NoSpinDeadlock
  BY DEF Whereabouts
<1>1. /\ t \in rt' /\ t \in running' /\ job'[t].cpu = d /\ NULL \notin Task
      /\ \A x \in CPU : t \notin ready[x] /\ t \notin relq[x] /\ scheduled[x] # t
      /\ \A u \in Task : u # t => /\ job'[u] = job[u]
                                  /\ (u \in rt' <=> u \in rt) /\ (u \in running' <=> u \in running)
      /\ UNCHANGED <<plugin, scheduled, curr, task_cpu, stack_in_use, next, was_running, now, rqclock,
                     start, timer>>
  BY ConstantsAssumption DEF AddsOnly
<1>2. \A x \in CPU : hand'[x] = IF hand[x] = t THEN NULL ELSE hand[x]
  BY DEF AddsOnly
<1>3. \A x \in CPU : phase'[x] = IF phase[x] = "resim" /\ curr[x] = t THEN "attach" ELSE phase[x]
  BY DEF AddsOnly
<1>4. \A x \in CPU : curr[x] = t /\ phase[x] = "wait" /\ ~was_running[x] => x = d /\ job'[t].release <= now
  BY DEF AddsOnly
<1>5. /\ \A x \in CPU : ready'[x] = IF x = d /\ job'[t].release <= now THEN ready[x] \cup {t} ELSE ready[x]
      /\ \A x \in CPU : relq'[x] = IF x = d /\ ~(job'[t].release <= now) THEN relq[x] \cup {t} ELSE relq[x]
  BY DEF AddsOnly, Added
<1>6. \A x \in CPU, u \in Task : (u # t => (u \in ready'[x] <=> u \in ready[x]) /\ (u \in relq'[x] <=> u \in relq[x]))
  BY <1>5
<1>7. \A x \in CPU : /\ t \in ready'[x] <=> x = d /\ job'[t].release <= now
                     /\ t \in relq'[x] <=> x = d /\ ~(job'[t].release <= now)
  BY <1>1, <1>5
<1>8. Executing'
  BY <1>0, <1>1 DEF Executing
<1>9. Following'
  BY <1>0, <1>1, <1>3 DEF Following, Deciding
<1>10. InDomain'
  <2> SUFFICES ASSUME NEW x \in CPU, NEW u \in Task
               PROVE  /\ u \in ready'[x] \/ u \in relq'[x] \/ scheduled[x] = u =>
                           job'[u].cpu = x /\ u \in rt'
                      /\ u \in ready'[x] \/ u \in relq'[x] => u \in running'
                      /\ scheduled[x] = u /\ phase'[x] # "sched" => u \in running'
                      /\ u \in ready'[x] => u \notin relq'[x] /\ scheduled[x] # u
                      /\ u \in relq'[x] => scheduled[x] # u
                      /\ u \in ready'[x] \/ scheduled[x] = u => job'[u].release <= now
    BY <1>1 DEF InDomain
  <2>1. CASE u = t
    BY <1>1, <1>7, <2>1
  <2>2. CASE u # t
    BY <1>0, <1>1, <1>3, <1>6, <2>2 DEF InDomain
  <2> QED BY <2>1, <2>2
<1>11. HandOver'
  <2> SUFFICES ASSUME NEW c \in CPU, NEW u \in Task, hand'[c] = u
               PROVE  /\ u \in rt' /\ u \in running'
                      /\ phase'[c] \in {"run", "wait", "switch"}
                      /\ phase'[c] # "run" => job'[u].cpu # c
                      /\ \A x \in CPU : /\ u \notin ready'[x] /\ u \notin relq'[x] /\ scheduled[x] # u
                                        /\ hand'[x] = u => c = x
    BY <1>1 DEF HandOver
  <2>1. u # t /\ hand[c] = u
    BY <1>1, <1>2
  <2> QED BY <1>0, <1>1, <1>2, <1>3, <1>6, <2>1 DEF HandOver
<1>12. Kept'
  <2>1. ASSUME NEW u \in Task, u \in rt', u \in running', Nowhere(u)'
        PROVE  \E c \in CPU : phase'[c] = "resim" /\ curr'[c] = u
    <3>1. u # t
      BY <1>7, <2>1 DEF Nowhere
    <3>2. Nowhere(u)
      BY <1>1, <1>2, <1>6, <2>1, <3>1 DEF Nowhere
    <3>3. PICK c \in CPU : phase[c] = "resim" /\ curr[c] = u
      BY <1>0, <1>1, <2>1, <3>1, <3>2 DEF Kept
    <3> QED BY <1>1, <1>3, <3>1, <3>3
  <2>2. ASSUME NEW c \in CPU, phase'[c] = "resim"
        PROVE  curr'[c] \in rt' /\ curr'[c] \in running' /\ Nowhere(curr[c])'
    <3>1. phase[c] = "resim" /\ curr[c] # t
      BY <1>3, <2>2
    <3>2. curr[c] \in Task /\ curr[c] \in rt /\ curr[c] \in running /\ Nowhere(curr[c])
      BY <1>0, <3>1 DEF Kept, TypeOK
    <3>3. PICK u : u = curr[c]
      OBVIOUS
    <3>4. u # t /\ u \in Task /\ Nowhere(u) /\ curr'[c] = u
      BY <1>1, <3>1, <3>2, <3>3
    <3>5. Nowhere(u)'
      BY <1>1, <1>2, <1>6, <3>4 DEF Nowhere
    <3> QED BY <1>1, <3>1, <3>2, <3>3, <3>4, <3>5
  <2> QED BY <2>1, <2>2 DEF Kept
<1>13. JustBlocked'
  <2> SUFFICES ASSUME NEW x \in CPU, NEW u \in Task, curr[x] = u, phase'[x] # "run"
               PROVE  /\ u \notin running' \/ phase'[x] = "resim" =>
                           job'[u].suspend_time = now /\ job'[u].cpu = x /\ job'[u].release <= now
                      /\ phase'[x] = "wait" /\ ~was_running[x] /\ u \in running' => u \in ready'[x]
    BY <1>1 DEF JustBlocked
  <2>1. CASE u = t
    BY <1>1, <1>3, <1>4, <1>7, <2>1
  <2>2. CASE u # t
    BY <1>0, <1>1, <1>3, <1>6, <2>2 DEF JustBlocked
  <2> QED BY <2>1, <2>2
<1>14. NoSpinDeadlock'
  <2>1. \A x, y \in CPU : SpinsOn(x, y)' <=> SpinsOn(x, y)
    BY <1>1, <1>3 DEF SpinsOn
  <2> QED BY <1>0, <1>3, <2>1 DEF NoSpinDeadlock
<1> QED BY <1>8, <1>9, <1>10, <1>11, <1>12, <1>13, <1>14 DEF Whereabouts

\* If moreover the job that is added has its accounts in order and budget left.
LEMMA AddStep ==
  ASSUME IInv, TypeOK', ~panic', Released', NEW t \in Task, NEW d \in CPU, NEW e \in CPU,
         AddsOnly(t, d, e), Accounts(t, job'[t]), Fresh(t, job'[t]), job'[t].suspend_time <= now
  PROVE  IInv'
<1>0. TypeOK /\ ~panic /\ Whereabouts /\ Clocks /\ Budgets /\ Enforced /\ Requested
  BY DEF IInv, Whereabouts
<1>1. /\ t \in rt' /\ t \in running' /\ job'[t].cpu = d /\ NULL \notin Task
      /\ \A x \in CPU : t \notin ready[x] /\ t \notin relq[x] /\ scheduled[x] # t
      /\ \A u \in Task : u # t => /\ job'[u] = job[u]
                                  /\ (u \in rt' <=> u \in rt) /\ (u \in running' <=> u \in running)
      /\ UNCHANGED <<plugin, scheduled, curr, task_cpu, stack_in_use, next, was_running, now, rqclock,
                     start, timer>>
  BY ConstantsAssumption DEF AddsOnly
<1>2. \A x \in CPU : phase'[x] = IF phase[x] = "resim" /\ curr[x] = t THEN "attach" ELSE phase[x]
  BY DEF AddsOnly
<1>3. \A x \in CPU : /\ phase'[x] = "run" <=> phase[x] = "run"
                     /\ phase'[x] = "sched" <=> phase[x] = "sched"
                     /\ Deciding(x)' <=> Deciding(x)
  BY <1>2 DEF Deciding
<1>4. Whereabouts'
  BY <1>0, AddWhereabouts
<1>5. Clocks'
  BY <1>0, <1>1, <1>3 DEF Clocks
<1>6. Budgets'
  <2> SUFFICES ASSUME NEW u \in rt'
               PROVE  /\ Accounts(u, job'[u])
                      /\ \/ \E c \in CPU : scheduled'[c] = u /\ Deciding(c)' /\ u \in running'
                         \/ Fresh(u, job'[u])
    BY DEF Budgets
  <2>1. u \in Task
    BY DEF TypeOK
  <2> QED BY <1>0, <1>1, <1>3, <2>1 DEF Budgets
<1>7. Enforced'
  <2> SUFFICES ASSUME NEW x \in CPU, NEW u \in Task, curr[x] = u, Deciding(x)
               PROVE  /\ phase'[x] = "sched" => Within(u, job[u])'
                      /\ phase'[x] = "run" /\ u \in Precise /\ job'[u].no >= 2 =>
                           \/ /\ timer[x] # NULL /\ now <= timer[x]
                              /\ timer[x] + job'[u].exec_time = start[x] + job'[u].exec_cost
                           \/ /\ job'[u].exec_time + now <= start[x] + job'[u].exec_cost
                              /\ u \in tif'
    BY <1>1, <1>3 DEF Enforced, Deciding
  <2>1. u # t
    BY <1>0, <1>1 DEF Whereabouts, Following
  <2>2. job'[u] = job[u] /\ tif \subseteq tif'
    BY <1>1, <2>1 DEF AddsOnly, Added
  <2> QED BY <1>0, <1>1, <1>3, <2>1, <2>2 DEF Enforced, Within
<1>8. Requested'
  <2> SUFFICES ASSUME NEW c \in CPU, phase[c] # "sched"
               PROVE  \/ c \in ipi'
                      \/ phase[c] = "run" /\ Current(c) \in tif'
                      \/ \A u \in ready'[c] : edf_higher_prio(job, u, scheduled[c])' => u \in tif'
    BY <1>1, <1>3 DEF Requested, Current
  <2>1. tif \subseteq tif' /\ ipi \subseteq ipi'
    BY DEF AddsOnly, Added
  <2>2. ready'[c] = IF c = d /\ job'[t].release <= now THEN ready[c] \cup {t} ELSE ready[c]
    BY DEF AddsOnly, Added
  <2>3. ASSUME NEW u \in ready'[c] PROVE edf_higher_prio(job, u, scheduled[c])' <=> edf_higher_prio(job', u, scheduled[c])
    BY <1>0, <1>1 DEF edf_higher_prio, TypeOK
  <2>4. ASSUME NEW u \in ready[c] PROVE edf_higher_prio(job', u, scheduled[c]) <=> edf_higher_prio(job, u, scheduled[c])
    <3>1. u \in Task /\ u # t /\ scheduled[c] # t /\ (scheduled[c] \in Task \/ scheduled[c] = NULL) /\ rt \subseteq Task
      BY <1>0, <1>1 DEF TypeOK
    <3> QED BY <1>1, <3>1 DEF edf_higher_prio
  <2>5. CASE c \in ipi \/ (phase[c] = "run" /\ Current(c) \in tif)
    BY <2>1, <2>5
  <2>6. CASE /\ ~(c \in ipi \/ (phase[c] = "run" /\ Current(c) \in tif))
             /\ ~(c = d /\ job'[t].release <= now /\ edf_higher_prio(job', t, scheduled[d]))
    BY <1>0, <2>1, <2>2, <2>3, <2>4, <2>6 DEF Requested
  <2>7. CASE /\ ~(c \in ipi \/ (phase[c] = "run" /\ Current(c) \in tif))
             /\ c = d /\ job'[t].release <= now /\ edf_higher_prio(job', t, scheduled[d])
    <3>1. IF d = e THEN Current(e) \in tif' ELSE d \in ipi'
      BY <2>7 DEF AddsOnly, Added
    <3>2. CASE d = e /\ phase[e] # "run"
      <4>1. curr[e] = t
        BY <3>2 DEF AddsOnly
      <4>2. t \in tif'
        BY <1>1, <3>1, <3>2, <4>1 DEF Current
      <4> QED BY <1>0, <2>1, <2>2, <2>3, <2>4, <2>7, <4>2 DEF Requested
    <3>3. CASE ~(d = e /\ phase[e] # "run")
      BY <2>7, <3>1, <3>3
    <3> QED BY <3>2, <3>3
  <2> QED BY <2>5, <2>6, <2>7
<1> QED BY <1>4, <1>5, <1>6, <1>7, <1>8 DEF IInv, Whereabouts

\* The task on its way is added to the domain of its next slice.
LEMMA RequeueRemoteStep ==
  ASSUME IInv, NEW c \in CPU, requeue_remote(c)
  PROVE  IInv'
<1>0. /\ TypeOK /\ ~panic /\ Executing /\ Following /\ InDomain /\ HandOver /\ Kept /\ JustBlocked
      /\ Clocks /\ Released /\ Budgets
  BY DEF IInv
<1>1. PICK t, d : t = hand[c] /\ d = job[t].cpu
  OBVIOUS
<1>2. /\ t # NULL /\ hand' = [hand EXCEPT ![c] = NULL]
      /\ panic' = (panic \/ is_queued(t))
      /\ UNCHANGED <<plugin, taskVars, job, scheduled, switchVars, phase, clockVars>>
  BY <1>1 DEF requeue_remote, BugOn
<1>3. PICK force : requeue(t, d, job, force, c)
  BY <1>1 DEF requeue_remote
<1>4. t \in Task /\ hand \in [CPU -> Task \cup {NULL}] /\ NULL \notin Task /\ job[t] \in Job /\ d \in CPU
  BY <1>0, <1>1, <1>2, JobFields, ConstantsAssumption DEF TypeOK
<1>5. /\ t \in rt /\ t \in running /\ (phase[c] # "run" => d # c)
      /\ \A x \in CPU : /\ t \notin ready[x] /\ t \notin relq[x] /\ scheduled[x] # t
                        /\ hand[x] = t => c = x
  BY <1>0, <1>1, <1>4 DEF HandOver
<1>6. ~panic' /\ panic' \in BOOLEAN
  BY <1>0, <1>2, <1>5 DEF is_queued
<1>7. Added(t, d, c)
  BY <1>0, <1>2, <1>3, <1>4, RequeueFacts
<1>8. \A x \in CPU : hand'[x] = IF hand[x] = t THEN NULL ELSE hand[x]
  BY <1>1, <1>2, <1>4, <1>5
<1>9. \A x \in CPU : curr[x] = t => phase[x] # "resim"
  BY <1>0, <1>1, <1>4 DEF Kept, Nowhere
<1>10. \A x \in CPU : curr[x] = t /\ phase[x] = "wait" => was_running[x]
  BY <1>0, <1>4, <1>5 DEF JustBlocked
<1>11. AddsOnly(t, d, c)
  BY <1>1, <1>2, <1>5, <1>7, <1>8, <1>9, <1>10 DEF AddsOnly
<1>12. TypeOK'
  <2>1. hand' \in [CPU -> Task \cup {NULL}]
    BY <1>2, <1>4
  <2> QED BY <1>0, <1>2, <1>6, <1>7, <2>1 DEF TypeOK, Added
<1>13. Released'
  BY <1>0, <1>2 DEF Released
<1>14. Accounts(t, job'[t]) /\ Fresh(t, job'[t]) /\ job'[t].suspend_time <= now
  BY <1>0, <1>2, <1>4, <1>5 DEF Budgets, Clocks
<1> QED BY <1>4, <1>6, <1>11, <1>12, <1>13, <1>14, AddStep

\* task_wake_up() of a task with budget left that is in no domain.
LEMMA TaskWakeUpFacts ==
  ASSUME TypeOK, ~panic, NEW t \in Task, NEW e \in CPU, task_wake_up(t, e),
         \A x \in CPU : t \notin ready[x] /\ t \notin relq[x] /\ scheduled[x] # t,
         Accounts(t, job[t]), Fresh(t, job[t]), job[t].suspend_time <= now,
         is_sliced_task(t) => job[t].no >= 2 \/ job[t].suspend_time = now
  PROVE  /\ ~panic' /\ panic' \in BOOLEAN
         /\ job' \in [Task -> Job] /\ \A u \in Task : u # t => job'[u] = job[u]
         /\ Accounts(t, job'[t]) /\ Fresh(t, job'[t]) /\ job'[t].suspend_time = 0
         /\ job'[t].no >= job[t].no
         /\ job[t].suspend_time = now => job'[t].cpu = job[t].cpu /\ job'[t].release = job[t].release
         /\ \/ job'[t].cpu = job[t].cpu /\ Added(t, job[t].cpu, e) /\ hand' = hand
            \/ /\ job'[t].cpu # job[t].cpu /\ hand' = [hand EXCEPT ![e] = t]
               /\ UNCHANGED <<queueVars, flags, sigVars>>
<1>0. plugin \in Plugins /\ now \in Nat /\ job \in [Task -> Job] /\ job[t].cpu \in CPU /\ hand \in [CPU -> Task \cup {NULL}]
  BY JobFields DEF TypeOK
<1>1. PICK d : d = job[t].cpu
  OBVIOUS
<1>2. PICK w : w = woken(t)
  OBVIOUS
<1>3. PICK k : k = [w.job EXCEPT !.suspend_time = 0]
  OBVIOUS
<1>4. /\ w.bug = FALSE /\ Renewed(t, job[t], w.job)
      /\ job[t].suspend_time = now => w.job.cpu = d /\ w.job.release = job[t].release
  BY <1>0, <1>1, <1>2, WokenFacts
<1>5. w.job \in Job /\ w.job.no >= job[t].no /\ Accounts(t, w.job) /\ Fresh(t, w.job)
  BY <1>4 DEF Renewed
<1>6. /\ k \in Job /\ SameSlice(w.job, k) /\ k.suspend_time = 0 /\ k.exec_time = w.job.exec_time
  BY <1>3, <1>5 DEF SameSlice, Job
<1>7. Accounts(t, k)
  BY <1>5, <1>6, AccountsSame
<1>8. Fresh(t, k)
  BY <1>5, <1>6 DEF Fresh, SameSlice, out_of_budget, slice_budget_exhausted, budget_exhausted, slice_exec_time, slice_budget
<1>9. /\ job' = [job EXCEPT ![t] = k]
      /\ panic' = (panic \/ is_queued(t) \/ w.bug)
      /\ IF scheduled[d] # t /\ w.job.cpu = d
         THEN \E force : requeue(t, d, job', force, e)
         ELSE UNCHANGED <<queueVars, flags, sigVars>>
      /\ hand' = [hand EXCEPT ![e] = IF scheduled[d] # t /\ ~(w.job.cpu = d) THEN t ELSE @]
  BY <1>1, <1>2, <1>3 DEF task_wake_up, BugOn
<1>10. job' \in [Task -> Job] /\ job'[t] = k /\ \A u \in Task : u # t => job'[u] = job[u]
  BY <1>0, <1>6, <1>9
<1>11. ~panic' /\ panic' \in BOOLEAN
  <2>1. ~is_queued(t)
    BY DEF is_queued
  <2> QED BY <1>4, <1>9, <2>1
<1>12. scheduled[d] # t /\ k.cpu = w.job.cpu /\ k.release = w.job.release /\ k.no = w.job.no
  BY <1>0, <1>1, <1>6 DEF SameSlice
<1>13. CASE w.job.cpu = d
  <2>1. PICK force : requeue(t, d, job', force, e)
    BY <1>9, <1>12, <1>13
  <2>2. Added(t, d, e)
    BY <1>0, <1>1, <2>1, RequeueFacts
  <2>3. hand' = hand
    BY <1>0, <1>9, <1>13
  <2> QED BY <1>1, <1>4, <1>5, <1>6, <1>7, <1>8, <1>10, <1>11, <1>12, <1>13, <2>2, <2>3
<1>14. CASE w.job.cpu # d
  <2>1. hand' = [hand EXCEPT ![e] = t] /\ UNCHANGED <<queueVars, flags, sigVars>>
    BY <1>9, <1>12, <1>14
  <2> QED BY <1>1, <1>4, <1>5, <1>6, <1>7, <1>8, <1>10, <1>11, <1>12, <1>14, <2>1
<1> QED BY <1>13, <1>14

\* A task is woken.
LEMMA WakeStep ==
  ASSUME IInv, SupportedUse, NEW t \in Task, NEW e \in CPU, wake(t, e)
  PROVE  IInv'
<1>0. /\ TypeOK /\ ~panic /\ Whereabouts /\ Clocks /\ Released /\ Budgets /\ Enforced /\ Requested
  BY DEF IInv, Whereabouts
<1>00. Executing /\ Following /\ InDomain /\ HandOver /\ Kept /\ JustBlocked /\ NoSpinDeadlock
  BY <1>0 DEF Whereabouts
<1>1. /\ t \in rt /\ t \notin running /\ sync[t] = "done" /\ phase[e] = "run" /\ hand[e] = NULL
      /\ ~RqLocked(task_cpu[t]) /\ running' = running \cup {t} /\ task_wake_up(t, e)
      /\ UNCHANGED <<plugin, rt, sync, scheduled, switchVars, phase, clockVars>>
  BY DEF wake, Open
<1>2. \A x \in CPU : t \notin ready[x] /\ t \notin relq[x] /\ scheduled[x] # t /\ hand[x] # t
  <2> TAKE x \in CPU
  <2>1. t \notin ready[x] /\ t \notin relq[x] /\ hand[x] # t
    BY <1>00, <1>1 DEF InDomain, HandOver
  <2>2. ASSUME scheduled[x] = t PROVE FALSE
    <3>1. phase[x] = "sched"
      BY <1>00, <1>1, <2>2 DEF InDomain
    <3>2. curr[x] = t
      BY <1>00, <2>2, <3>1 DEF Following, Deciding
    <3>3. task_cpu[t] = x
      BY <1>00, <3>2 DEF Executing
    <3> QED BY <1>1, <3>1, <3>3 DEF RqLocked
  <2> QED BY <2>1, <2>2
<1>3. /\ job \in [Task -> Job] /\ job[t] \in Job /\ job[t].cpu \in CPU /\ NULL \notin Task /\ now \in Nat
      /\ hand \in [CPU -> Task \cup {NULL}]
  BY <1>0, JobFields, ConstantsAssumption DEF TypeOK
<1>4. Accounts(t, job[t]) /\ Fresh(t, job[t]) /\ job[t].suspend_time <= now
  BY <1>0, <1>1 DEF Budgets, Clocks
<1>5. is_sliced_task(t) => job[t].no >= 2
  BY <1>0, <1>1 DEF Released, SupportedUse
<1>6. /\ ~panic' /\ panic' \in BOOLEAN
      /\ job' \in [Task -> Job] /\ \A u \in Task : u # t => job'[u] = job[u]
      /\ Accounts(t, job'[t]) /\ Fresh(t, job'[t]) /\ job'[t].suspend_time = 0
      /\ job'[t].no >= job[t].no
      /\ job[t].suspend_time = now => job'[t].cpu = job[t].cpu /\ job'[t].release = job[t].release
      /\ \/ job'[t].cpu = job[t].cpu /\ Added(t, job[t].cpu, e) /\ hand' = hand
         \/ /\ job'[t].cpu # job[t].cpu /\ hand' = [hand EXCEPT ![e] = t]
            /\ UNCHANGED <<queueVars, flags, sigVars>>
  BY <1>0, <1>1, <1>2, <1>4, <1>5, TaskWakeUpFacts
<1>7. \A u \in Task : u # t => (u \in running' <=> u \in running)
  BY <1>1
<1>8. t \in running' /\ t \in rt' /\ job'[t].suspend_time <= now
  BY <1>1, <1>3, <1>6
<1>9. Released'
  <2> SUFFICES ASSUME NEW u \in Task
               PROVE  /\ sync[u] # "done" => u \in rt /\ u \in Synched
                      /\ sync[u] = "wait" => u \notin running'
                      /\ u \in rt /\ u \notin running' => u \in Suspending \/ u \in Synched
                      /\ u \in rt /\ u \in Synched /\ sync[u] = "done" => job'[u].no >= 2
    BY <1>1 DEF Released
  <2>1. CASE u # t
    BY <1>0, <1>6, <1>7, <2>1 DEF Released
  <2>2. CASE u = t
    <3>1. job[t].no \in Nat /\ job'[t].no \in Nat
      BY <1>3, <1>6, JobFields DEF JOB_CAP
    <3> QED BY <1>0, <1>1, <1>6, <1>8, <2>2, <3>1 DEF Released
  <2> QED BY <2>1, <2>2
<1>10. CASE job'[t].cpu = job[t].cpu /\ Added(t, job[t].cpu, e) /\ hand' = hand
  <2>1. TypeOK'
    BY <1>0, <1>1, <1>6, <1>10 DEF TypeOK, Added
  <2>2. \A x \in CPU : curr[x] = t /\ phase[x] = "wait" /\ ~was_running[x] =>
                         x = job[t].cpu /\ job'[t].release <= now
    BY <1>00, <1>1, <1>6 DEF JustBlocked
  <2>3. \A x \in CPU : curr[x] = t => phase[x] # "resim"
    BY <1>00, <1>1 DEF Kept
  <2>4. AddsOnly(t, job[t].cpu, e)
    BY <1>1, <1>2, <1>6, <1>7, <1>8, <1>10, <2>2, <2>3 DEF AddsOnly
  <2> QED BY <1>3, <1>6, <1>8, <1>9, <2>1, <2>4, AddStep
<1>11. CASE /\ job'[t].cpu # job[t].cpu /\ hand' = [hand EXCEPT ![e] = t]
            /\ UNCHANGED <<queueVars, flags, sigVars>>
  <2>1. TypeOK'
    <3>1. hand' \in [CPU -> Task \cup {NULL}]
      BY <1>3, <1>11
    <3> QED BY <1>0, <1>1, <1>6, <1>11, <3>1 DEF TypeOK
  <2>2. \A x \in CPU : hand'[x] = IF x = e THEN t ELSE hand[x]
    BY <1>3, <1>11
  <2>3. \A x \in CPU : curr[x] # t
    <3> TAKE x \in CPU
    <3>1. CASE phase[x] = "run"
      BY <1>00, <1>2, <3>1 DEF Following, Deciding
    <3>2. CASE phase[x] # "run"
      BY <1>00, <1>1, <1>6, <1>11, <3>2 DEF JustBlocked
    <3> QED BY <3>1, <3>2
  <2>4. Executing'
    BY <1>00, <1>1 DEF Executing
  <2>5. Following'
    BY <1>00, <1>1 DEF Following, Deciding
  <2>6. InDomain'
    BY <1>00, <1>1, <1>2, <1>6, <1>7, <1>11 DEF InDomain
  <2>7. HandOver'
    <3> SUFFICES ASSUME NEW c \in CPU, NEW u \in Task, hand'[c] = u
                 PROVE  /\ u \in rt /\ u \in running'
                        /\ phase[c] \in {"run", "wait", "switch"}
                        /\ phase[c] # "run" => job'[u].cpu # c
                        /\ \A x \in CPU : /\ u \notin ready[x] /\ u \notin relq[x] /\ scheduled[x] # u
                                          /\ hand'[x] = u => c = x
      BY <1>1, <1>11 DEF HandOver
    <3>1. CASE c = e
      <4>1. u = t
        BY <2>2, <3>1
      <4> QED BY <1>1, <1>2, <1>8, <2>2, <3>1, <4>1
    <3>2. CASE c # e
      <4>1. hand[c] = u /\ u # t
        BY <1>2, <2>2, <3>2
      <4> QED BY <1>00, <1>1, <1>6, <1>7, <2>2, <3>2, <4>1 DEF HandOver
    <3> QED BY <3>1, <3>2
  <2>8. Kept'
    <3>1. ASSUME NEW u \in Task, u \in rt', u \in running', Nowhere(u)'
          PROVE  \E c \in CPU : phase'[c] = "resim" /\ curr'[c] = u
      <4>1. u # t
        BY <2>2, <3>1 DEF Nowhere
      <4>2. Nowhere(u)
        BY <1>1, <1>3, <1>11, <2>2, <3>1, <1>1 DEF Nowhere
      <4> QED BY <1>00, <1>1, <1>7, <3>1, <4>1, <4>2 DEF Kept
    <3>2. ASSUME NEW c \in CPU, phase'[c] = "resim"
          PROVE  curr'[c] \in rt' /\ curr'[c] \in running' /\ Nowhere(curr[c])'
      <4>1. PICK u : u = curr[c]
        OBVIOUS
      <4>2. u \in rt /\ u \in running /\ Nowhere(u) /\ u # t
        BY <1>00, <1>1, <2>3, <3>2, <4>1 DEF Kept
      <4>3. Nowhere(u)'
        BY <1>1, <1>11, <2>2, <4>2 DEF Nowhere
      <4> QED BY <1>1, <4>1, <4>2, <4>3
    <3> QED BY <3>1, <3>2 DEF Kept
  <2>9. JustBlocked'
    BY <1>00, <1>1, <1>6, <1>7, <1>11, <2>3 DEF JustBlocked
  <2>10. NoSpinDeadlock'
    BY <1>00, <1>1 DEF NoSpinDeadlock, SpinsOn
  <2>11. Clocks'
    BY <1>0, <1>1, <1>6, <1>8 DEF Clocks
  <2>12. Budgets'
    <3> SUFFICES ASSUME NEW u \in rt
                 PROVE  /\ Accounts(u, job'[u])
                        /\ \/ \E c \in CPU : scheduled[c] = u /\ Deciding(c) /\ u \in running'
                           \/ Fresh(u, job'[u])
      BY <1>1 DEF Budgets, Deciding
    <3>1. u \in Task
      BY <1>0 DEF TypeOK
    <3> QED BY <1>0, <1>6, <1>7, <3>1 DEF Budgets
  <2>13. Enforced'
    BY <1>0, <1>1, <1>6, <1>11, <2>3 DEF Enforced, Within
  <2>14. Requested'
    <3>1. ASSUME NEW c \in CPU, NEW u \in ready[c]
          PROVE  edf_higher_prio(job, u, scheduled[c])' <=> edf_higher_prio(job, u, scheduled[c])
      <4>1. u \in Task /\ u # t /\ scheduled[c] # t /\ (scheduled[c] \in Task \/ scheduled[c] = NULL) /\ rt \subseteq Task
        BY <1>0, <1>2 DEF TypeOK
      <4> QED BY <1>1, <1>3, <1>6, <4>1 DEF edf_higher_prio
    <3> QED BY <1>0, <1>1, <1>11, <3>1 DEF Requested, Current
  <2> QED BY <1>6, <1>9, <2>1, <2>4, <2>5, <2>6, <2>7, <2>8, <2>9, <2>10, <2>11, <2>12, <2>13, <2>14 DEF IInv
<1> QED BY <1>6, <1>10, <1>11

\* litmus_schedule() simulates the wake-up of prev.
LEMMA ResimWakeUpStep ==
  ASSUME IInv, NEW c \in CPU, resim_wake_up(c)
  PROVE  IInv'
<1>0. /\ TypeOK /\ ~panic /\ Executing /\ Following /\ InDomain /\ HandOver /\ Kept /\ JustBlocked
      /\ Clocks /\ Released /\ Budgets
  BY DEF IInv
<1>1. PICK t : t = curr[c]
  OBVIOUS
<1>2. /\ phase[c] = "resim" /\ task_wake_up(t, c) /\ phase' = [phase EXCEPT ![c] = "attach"]
      /\ UNCHANGED <<plugin, taskVars, scheduled, switchVars, clockVars>>
  BY <1>1 DEF resim_wake_up
<1>3. t \in rt /\ t \in running /\ Nowhere(t) /\ t \in Task
  BY <1>0, <1>1, <1>2 DEF Kept, TypeOK
<1>4. /\ \A x \in CPU : t \notin ready[x] /\ t \notin relq[x] /\ scheduled[x] # t /\ hand[x] # t
  BY <1>3 DEF Nowhere
<1>5. job[t].suspend_time = now /\ job[t].cpu = c /\ job[t].release <= now
  BY <1>0, <1>1, <1>2, <1>3 DEF JustBlocked
<1>6. Accounts(t, job[t]) /\ Fresh(t, job[t]) /\ job[t].suspend_time <= now
  BY <1>0, <1>3, <1>4 DEF Budgets, Clocks
<1>7. /\ ~panic' /\ panic' \in BOOLEAN
      /\ job' \in [Task -> Job] /\ \A u \in Task : u # t => job'[u] = job[u]
      /\ Accounts(t, job'[t]) /\ Fresh(t, job'[t]) /\ job'[t].suspend_time = 0
      /\ job'[t].no >= job[t].no /\ job'[t].cpu = job[t].cpu /\ job'[t].release = job[t].release
      /\ Added(t, c, c) /\ hand' = hand
  BY <1>0, <1>2, <1>3, <1>4, <1>5, <1>6, TaskWakeUpFacts
<1>8. \A x \in CPU : phase'[x] = IF x = c THEN "attach" ELSE phase[x]
  BY <1>0, <1>2 DEF TypeOK
<1>9. \A x \in CPU : curr[x] = t => x = c
  BY <1>0, <1>1, <1>3 DEF Executing
<1>10. TypeOK'
  <2>1. phase' \in [CPU -> {"run", "sched", "wait", "resim", "attach", "switch"}]
    BY <1>0, <1>2 DEF TypeOK
  <2> QED BY <1>0, <1>2, <1>7, <2>1 DEF TypeOK, Added
<1>11. AddsOnly(t, c, c)
  BY <1>1, <1>2, <1>3, <1>4, <1>5, <1>7, <1>8, <1>9 DEF AddsOnly
<1>12. Released'
  <2>1. job[t] \in Job /\ job'[t] \in Job
    BY <1>0, <1>3, <1>7 DEF TypeOK
  <2>2. job[t].no \in Nat /\ job'[t].no \in Nat
    BY <2>1, JobFields DEF JOB_CAP
  <2> QED BY <1>0, <1>2, <1>7, <2>2 DEF Released
<1>13. job'[t].suspend_time <= now
  BY <1>0, <1>7 DEF TypeOK
<1> QED BY <1>3, <1>7, <1>10, <1>11, <1>12, <1>13, AddStep

-----------------------------------------------------------------------------
(* Releases                                                                *)

\* The jobs of a release heap become ready.
LEMMA ReleaseTimerStep ==
  ASSUME IInv, NEW c \in CPU, NEW d \in CPU, NEW r, on_release_timer(c, d, r)
  PROVE  IInv'
<1>0. TypeOK /\ ~panic /\ Whereabouts /\ Clocks /\ Released /\ Budgets /\ Enforced /\ Requested
  BY DEF IInv, Whereabouts
<1>00. Executing /\ Following /\ InDomain /\ HandOver /\ Kept /\ JustBlocked /\ NoSpinDeadlock
  BY <1>0 DEF Whereabouts
<1>1. PICK H, Q : H = {t \in relq[d] : job[t].release = r} /\ Q = ready[d] \cup H
  OBVIOUS
<1>2. /\ phase[c] = "run" /\ r <= now
      /\ relq' = [relq EXCEPT ![d] = relq[d] \ H] /\ ready' = [ready EXCEPT ![d] = Q]
      /\ preempt(edf_preemption_needed(job, Q, scheduled[d]), d, c)
      /\ UNCHANGED <<plugin, taskVars, flags, job, scheduled, hand, switchVars, phase, clockVars, panic>>
  BY <1>1 DEF on_release_timer, Open
<1>3. /\ relq \in [CPU -> SUBSET Task] /\ ready \in [CPU -> SUBSET Task]
      /\ H \subseteq relq[d] /\ Q \in SUBSET Task /\ \A t \in H : job[t].release = r
  BY <1>0, <1>1 DEF TypeOK
<1>4. /\ relq' \in [CPU -> SUBSET Task] /\ ready' \in [CPU -> SUBSET Task]
      /\ \A x \in CPU : ready'[x] = IF x = d THEN ready[x] \cup H ELSE ready[x]
      /\ \A x \in CPU : relq'[x] = IF x = d THEN relq[x] \ H ELSE relq[x]
  BY <1>1, <1>2, <1>3
<1>5. /\ tif \subseteq tif' /\ ipi \subseteq ipi' /\ (tif' = tif \/ tif' = tif \cup {Current(c)})
      /\ (ipi' = ipi \/ ipi' = ipi \cup {d})
      /\ edf_preemption_needed(job, Q, scheduled[d]) => IF d = c THEN Current(c) \in tif' ELSE d \in ipi'
  BY <1>2 DEF preempt
<1>6. TypeOK'
  <2>1. tif' \in SUBSET (Task \cup CPU) /\ ipi' \in SUBSET CPU
    BY <1>0, <1>5, CurrentTyped DEF TypeOK
  <2> QED BY <1>0, <1>2, <1>4, <2>1 DEF TypeOK
<1>7. Executing'
  BY <1>00, <1>2 DEF Executing
<1>8. Following'
  BY <1>00, <1>2 DEF Following, Deciding
<1>9. \A x \in CPU, t \in Task : /\ t \in ready'[x] \/ t \in relq'[x] <=> t \in ready[x] \/ t \in relq[x]
                                 /\ t \in ready[x] => t \in ready'[x]
                                 /\ t \in relq'[x] => t \in relq[x]
                                 /\ t \in ready'[x] => t \in ready[x] \/ (t \in relq[x] /\ job[t].release <= now)
  BY <1>2, <1>3, <1>4
<1>10. \A x \in CPU, t \in Task : t \in ready'[x] => t \notin relq'[x]
  BY <1>00, <1>4 DEF InDomain
<1>11. InDomain'
  <2> SUFFICES ASSUME NEW x \in CPU, NEW t \in Task
               PROVE  /\ t \in ready'[x] \/ t \in relq'[x] \/ scheduled[x] = t =>
                           job[t].cpu = x /\ t \in rt
                      /\ t \in ready'[x] \/ t \in relq'[x] => t \in running
                      /\ scheduled[x] = t /\ phase[x] # "sched" => t \in running
                      /\ t \in ready'[x] => t \notin relq'[x] /\ scheduled[x] # t
                      /\ t \in relq'[x] => scheduled[x] # t
                      /\ t \in ready'[x] \/ scheduled[x] = t => job[t].release <= now
    BY <1>2 DEF InDomain
  <2> QED BY <1>00, <1>9, <1>10 DEF InDomain
<1>12. HandOver'
  BY <1>00, <1>2, <1>9 DEF HandOver
<1>13. \A t \in Task : Nowhere(t)' <=> Nowhere(t)
  BY <1>2, <1>9 DEF Nowhere
<1>14. Kept'
  <2>1. \A x \in CPU : phase[x] = "resim" => curr[x] \in Task
    BY <1>0, <1>00 DEF Kept, TypeOK
  <2> QED BY <1>00, <1>2, <1>13, <2>1 DEF Kept
<1>15. JustBlocked'
  BY <1>00, <1>2, <1>9 DEF JustBlocked
<1>16. NoSpinDeadlock'
  BY <1>00, <1>2 DEF NoSpinDeadlock, SpinsOn
<1>17. Clocks'
  BY <1>0, <1>2 DEF Clocks
<1>18. Released'
  BY <1>0, <1>2 DEF Released
<1>19. Budgets'
  BY <1>0, <1>2 DEF Budgets, Accounts, Fresh, out_of_budget, slice_budget_exhausted, budget_exhausted,
       slice_exec_time, slice_budget, Deciding
<1>20. Enforced'
  BY <1>0, <1>2, <1>5 DEF Enforced, Within
<1>21. Requested'
  <2> SUFFICES ASSUME NEW x \in CPU, phase[x] # "sched"
               PROVE  \/ x \in ipi'
                      \/ phase[x] = "run" /\ Current(x) \in tif'
                      \/ \A u \in ready'[x] : edf_higher_prio(job, u, scheduled[x]) => u \in tif'
    BY <1>2 DEF Requested, Current, edf_higher_prio
  <2>1. CASE x = d
    <3>1. CASE edf_preemption_needed(job, Q, scheduled[d])
      BY <1>2, <1>5, <2>1, <3>1
    <3>2. CASE ~edf_preemption_needed(job, Q, scheduled[d])
      BY <1>1, <1>4, <2>1, <3>2 DEF edf_preemption_needed
    <3> QED BY <3>1, <3>2
  <2>2. CASE x # d
    BY <1>0, <1>4, <1>5, <2>2 DEF Requested
  <2> QED BY <2>1, <2>2
<1> QED BY <1>0, <1>2, <1>6, <1>7, <1>8, <1>11, <1>12, <1>14, <1>15, <1>16, <1>17, <1>18, <1>19, <1>20, <1>21
     DEF IInv

\* Only tasks that wait for it, and are nowhere, are released.
LEMMA ReleaseTsStep ==
  ASSUME IInv, SupportedUse, NEW from \in Nat, release_ts(from)
  PROVE  IInv'
<1>0. TypeOK /\ ~panic /\ Whereabouts /\ Clocks /\ Released /\ Budgets /\ Enforced /\ Requested
  BY DEF IInv, Whereabouts
<1>00. Executing /\ Following /\ InDomain /\ HandOver /\ Kept /\ JustBlocked /\ NoSpinDeadlock
  BY <1>0 DEF Whereabouts
<1>1. PICK W : W = {t \in Task : sync[t] = "wait"}
  OBVIOUS
<1>2. /\ \A c \in CPU : Open(c)
      /\ job' = [t \in Task |-> IF t \in W THEN ReleaseAt(t, job[t], from) ELSE job[t]]
      /\ sync' = [t \in Task |-> IF t \in W THEN "done" ELSE sync[t]]
      /\ flags' = [t \in Task |-> IF t \in W THEN "RUNNING" ELSE flags[t]]
      /\ panic' = (panic \/ \E t \in W : is_sliced_task(t) /\ is_queued(t))
      /\ UNCHANGED <<plugin, rt, running, queueVars, scheduled, hand, switchVars, phase, clockVars, sigVars>>
  BY <1>1 DEF release_ts, SupportedUse, BugOn
<1>3. \A c \in CPU : phase[c] = "run" /\ hand[c] = NULL
  BY <1>2 DEF Open
<1>4. /\ plugin \in Plugins /\ job \in [Task -> Job] /\ NULL \notin Task /\ rt \subseteq Task
      /\ sync \in [Task -> {"new", "wait", "done"}] /\ flags \in [Task -> {"RUNNING", "SLEEP"}]
  BY <1>0, ConstantsAssumption DEF TypeOK
<1>5. \A t \in W : t \in Task /\ t \in rt /\ t \notin running /\ sync[t] = "wait"
  BY <1>0, <1>1 DEF Released
<1>6. \A t \in W, x \in CPU : t \notin ready[x] /\ t \notin relq[x] /\ scheduled[x] # t /\ curr[x] # t
  <2> TAKE t \in W, x \in CPU
  <2>1. t \notin ready[x] /\ t \notin relq[x] /\ scheduled[x] # t
    BY <1>00, <1>3, <1>5 DEF InDomain
  <2>2. curr[x] # t
    BY <1>00, <1>3, <2>1 DEF Following, Deciding
  <2> QED BY <2>1, <2>2
<1>7. /\ \A t \in Task : t \notin W => job'[t] = job[t] /\ sync'[t] = sync[t]
      /\ \A t \in W : sync'[t] = "done" /\ job'[t] = ReleaseAt(t, job[t], from)
  BY <1>2, <1>5
<1>8. ASSUME NEW t \in W
      PROVE  /\ job'[t] \in Job /\ job'[t].no >= 2 /\ job'[t].suspend_time = job[t].suspend_time
             /\ Accounts(t, job'[t]) /\ Fresh(t, job'[t])
  <2>1. t \in Task /\ job[t] \in Job /\ Accounts(t, job[t])
    BY <1>0, <1>4, <1>5 DEF Budgets
  <2>2. PICK k : k = ReleaseAt(t, job[t], from)
    OBVIOUS
  <2>3. Renewed(t, job[t], k) /\ k.no >= 2
    BY <1>4, <2>1, <2>2, ReleaseAtFacts
  <2> QED BY <1>7, <2>2, <2>3 DEF Renewed
<1>9. ~panic' /\ panic' \in BOOLEAN
  <2>1. \A t \in W : ~is_queued(t)
    BY <1>6 DEF is_queued
  <2> QED BY <1>0, <1>2, <2>1
<1>10. TypeOK'
  <2>1. job' \in [Task -> Job]
    <3>1. \A t \in Task : job'[t] \in Job
      BY <1>4, <1>7, <1>8
    <3> QED BY <1>2, <3>1
  <2>2. sync' \in [Task -> {"new", "wait", "done"}] /\ flags' \in [Task -> {"RUNNING", "SLEEP"}]
    BY <1>2, <1>4
  <2> QED BY <1>0, <1>2, <1>9, <2>1, <2>2 DEF TypeOK
<1>11. Executing'
  BY <1>00, <1>2 DEF Executing
<1>12. Following'
  BY <1>00, <1>2 DEF Following, Deciding
<1>13. InDomain'
  BY <1>00, <1>2, <1>6, <1>7 DEF InDomain
<1>14. HandOver'
  BY <1>2, <1>3, <1>4 DEF HandOver
<1>15. Kept'
  BY <1>00, <1>2 DEF Kept, Nowhere
<1>16. JustBlocked'
  BY <1>2, <1>3 DEF JustBlocked
<1>17. NoSpinDeadlock'
  BY <1>00, <1>2 DEF NoSpinDeadlock, SpinsOn
<1>18. Clocks'
  BY <1>0, <1>2, <1>7, <1>8 DEF Clocks
<1>19. Released'
  <2> SUFFICES ASSUME NEW t \in Task
               PROVE  /\ sync'[t] # "done" => t \in rt /\ t \in Synched
                      /\ sync'[t] = "wait" => t \notin running
                      /\ t \in rt /\ t \notin running => t \in Suspending \/ t \in Synched
                      /\ t \in rt /\ t \in Synched /\ sync'[t] = "done" => job'[t].no >= 2
    BY <1>2 DEF Released
  <2>1. CASE t \in W
    BY <1>0, <1>7, <1>8, <2>1 DEF Released
  <2>2. CASE t \notin W
    BY <1>0, <1>7, <2>2 DEF Released
  <2> QED BY <2>1, <2>2
<1>20. Budgets'
  <2> SUFFICES ASSUME NEW t \in rt
               PROVE  /\ Accounts(t, job'[t])
                      /\ \/ \E c \in CPU : scheduled[c] = t /\ Deciding(c) /\ t \in running
                         \/ Fresh(t, job'[t])
    BY <1>2 DEF Budgets, Deciding
  <2>1. CASE t \in W
    BY <1>8, <2>1
  <2>2. CASE t \notin W
    BY <1>0, <1>4, <1>7, <2>2 DEF Budgets
  <2> QED BY <2>1, <2>2
<1>21. Enforced'
  BY <1>0, <1>2, <1>6, <1>7 DEF Enforced, Within
<1>22. Requested'
  <2>1. ASSUME NEW c \in CPU, NEW u \in ready[c]
        PROVE  edf_higher_prio(job', u, scheduled[c]) <=> edf_higher_prio(job, u, scheduled[c])
    <3>1. u \in Task /\ u \notin W /\ scheduled[c] \notin W
      BY <1>0, <1>6 DEF TypeOK
    <3> QED BY <1>4, <1>7, <3>1 DEF edf_higher_prio
  <2>2. ASSUME NEW c \in CPU, NEW u \in ready[c]
        PROVE  edf_higher_prio(job, u, scheduled[c])' <=> edf_higher_prio(job', u, scheduled[c])
    BY <1>2 DEF edf_higher_prio
  <2> QED BY <1>0, <1>2, <2>1, <2>2 DEF Requested, Current
<1> QED BY <1>9, <1>10, <1>11, <1>12, <1>13, <1>14, <1>15, <1>16, <1>17, <1>18, <1>19, <1>20, <1>21, <1>22
     DEF IInv

-----------------------------------------------------------------------------
(* Migration and the context switch                                        *)

\* A picked task has been picked by one processor.
LEMMA PickedOnce ==
  ASSUME TypeOK, InDomain, NEW t \in Task, NEW c \in CPU, scheduled[c] = t
  PROVE  /\ t \in rt /\ job[t].cpu = c /\ \A d \in CPU : scheduled[d] = t => d = c
         /\ phase[c] # "sched" => t \in running
BY DEF InDomain

\* prev was woken in the meantime: it is taken out of its queue again.
LEMMA ResimBlockStep ==
  ASSUME IInv, NEW c \in CPU, resim_block(c)
  PROVE  IInv'
<1>0. TypeOK /\ ~panic /\ Clocks /\ Released /\ Budgets /\ Enforced /\ Requested
  BY DEF IInv
<1>00. Executing /\ Following /\ InDomain /\ HandOver /\ Kept /\ JustBlocked /\ NoSpinDeadlock
  BY DEF IInv
<1>1. PICK t : t = curr[c]
  OBVIOUS
<1>2. /\ phase[c] = "wait" /\ hand[c] = NULL /\ stack_in_use[next[c]] = NO_CPU
      /\ t \in rt /\ t \in running /\ ~was_running[c]
      /\ task_block(t) /\ phase' = [phase EXCEPT ![c] = "resim"]
      /\ job' = [job EXCEPT ![t] = [job[t] EXCEPT !.suspend_time = now]]
      /\ UNCHANGED <<plugin, taskVars, flags, relq, scheduled, hand, switchVars, clockVars, sigVars>>
  BY <1>1 DEF resim_block, StackFree, PrevUnblocked
<1>3. /\ t \in Task /\ now \in Nat /\ job \in [Task -> Job] /\ ready \in [CPU -> SUBSET Task] /\ NULL \notin Task
      /\ rt \subseteq Task
  BY <1>0, <1>2, ConstantsAssumption DEF TypeOK
<1>4. t \in ready[c] /\ job[t].cpu = c /\ job[t].release <= now
  BY <1>00, <1>1, <1>2, <1>3 DEF JustBlocked, InDomain
<1>5. \A x \in CPU : t \notin relq[x] /\ scheduled[x] # t /\ hand[x] # t /\ (x # c => t \notin ready[x] /\ curr[x] # t)
  <2> TAKE x \in CPU
  <2>1. t \notin relq[x] /\ scheduled[x] # t /\ (x # c => t \notin ready[x])
    BY <1>00, <1>3, <1>4 DEF InDomain
  <2>2. hand[x] # t
    BY <1>00, <1>3, <1>4 DEF HandOver
  <2>3. x # c => curr[x] # t
    BY <1>00, <1>1, <1>3 DEF Executing
  <2> QED BY <2>1, <2>2, <2>3
<1>6. PICK k : k = [job[t] EXCEPT !.suspend_time = now]
  OBVIOUS
<1>7. k \in Job /\ SameSlice(job[t], k) /\ k.suspend_time = now /\ k.exec_time = job[t].exec_time
  BY <1>3, <1>6 DEF SameSlice, Job
<1>8. job' \in [Task -> Job] /\ job'[t] = k /\ \A u \in Task : u # t => job'[u] = job[u]
  BY <1>2, <1>3, <1>6, <1>7
<1>9. \A u \in Task : SameSlice(job[u], job'[u]) /\ job'[u].exec_time = job[u].exec_time
  BY <1>3, <1>7, <1>8 DEF SameSlice
<1>10. /\ ready' \in [CPU -> SUBSET Task]
       /\ \A x \in CPU : ready'[x] = ready[x] \ {t}
  <2>1. ready' = [ready EXCEPT ![c] = ready[c] \ {t}]
    BY <1>2, <1>4 DEF task_block
  <2> QED BY <1>3, <1>5, <2>1
<1>11. ~panic' /\ panic' \in BOOLEAN
  <2>1. panic' = (panic \/ (is_queued(t) /\ t \notin ready[c]))
    BY <1>2, <1>4 DEF task_block, BugOn
  <2> QED BY <1>0, <1>4, <2>1
<1>12. /\ phase' \in [CPU -> {"run", "sched", "wait", "resim", "attach", "switch"}]
       /\ \A x \in CPU : phase'[x] = IF x = c THEN "resim" ELSE phase[x]
  BY <1>0, <1>2 DEF TypeOK
<1>13. TypeOK'
  BY <1>0, <1>2, <1>8, <1>10, <1>11, <1>12 DEF TypeOK
<1>14. Executing'
  BY <1>00, <1>2 DEF Executing
<1>15. Following'
  BY <1>00, <1>2, <1>12 DEF Following, Deciding
<1>16. \A u \in Task : job'[u].cpu = job[u].cpu /\ job'[u].release = job[u].release /\ job'[u].deadline = job[u].deadline
  BY <1>9 DEF SameSlice
<1>17. InDomain'
  BY <1>00, <1>2, <1>10, <1>12, <1>16 DEF InDomain
<1>18. HandOver'
  BY <1>00, <1>2, <1>3, <1>10, <1>12, <1>16 DEF HandOver
<1>19. Kept'
  <2>1. ASSUME NEW u \in Task, u \in rt', u \in running', Nowhere(u)'
        PROVE  \E x \in CPU : phase'[x] = "resim" /\ curr'[x] = u
    <3>1. CASE u = t
      BY <1>1, <1>2, <1>12, <3>1
    <3>2. CASE u # t
      <4>1. Nowhere(u)
        BY <1>2, <1>10, <2>1, <3>2 DEF Nowhere
      <4>2. PICK x \in CPU : phase[x] = "resim" /\ curr[x] = u
        BY <1>00, <1>2, <2>1, <4>1 DEF Kept
      <4> QED BY <1>2, <1>12, <4>2
    <3> QED BY <3>1, <3>2
  <2>2. ASSUME NEW x \in CPU, phase'[x] = "resim"
        PROVE  curr'[x] \in rt' /\ curr'[x] \in running' /\ Nowhere(curr[x])'
    <3>1. CASE x = c
      <4>1. Nowhere(t)'
        BY <1>2, <1>5, <1>10 DEF Nowhere
      <4> QED BY <1>1, <1>2, <3>1, <4>1
    <3>2. CASE x # c
      <4>1. PICK u : u = curr[x]
        OBVIOUS
      <4>2. u \in rt /\ u \in running /\ Nowhere(u)
        BY <1>00, <1>12, <2>2, <3>2, <4>1 DEF Kept
      <4>3. Nowhere(u)'
        BY <1>2, <1>10, <4>2 DEF Nowhere
      <4> QED BY <1>2, <4>1, <4>2, <4>3
    <3> QED BY <3>1, <3>2
  <2> QED BY <2>1, <2>2 DEF Kept
<1>20. JustBlocked'
  <2> SUFFICES ASSUME NEW x \in CPU, NEW u \in Task, curr[x] = u, phase'[x] # "run"
               PROVE  /\ u \notin running \/ phase'[x] = "resim" =>
                           job'[u].suspend_time = now /\ job'[u].cpu = x /\ job'[u].release <= now
                      /\ phase'[x] = "wait" /\ ~was_running[x] /\ u \in running => u \in ready'[x]
    BY <1>2 DEF JustBlocked
  <2>1. CASE x = c
    BY <1>1, <1>4, <1>7, <1>8, <1>12, <1>16, <2>1
  <2>2. CASE x # c
    <3>1. u # t /\ phase'[x] = phase[x]
      BY <1>5, <1>12, <2>2
    <3> QED BY <1>00, <1>8, <1>10, <3>1 DEF JustBlocked
  <2> QED BY <2>1, <2>2
<1>21. NoSpinDeadlock'
  BY <1>00, <1>2, <1>12 DEF NoSpinDeadlock, SpinsOn
<1>22. Clocks'
  BY <1>0, <1>2, <1>3, <1>7, <1>8, <1>12 DEF Clocks
<1>23. Released'
  <2>1. \A u \in Task : job'[u].no = job[u].no
    BY <1>9 DEF SameSlice
  <2> QED BY <1>0, <1>2, <2>1 DEF Released
<1>24. Budgets'
  <2> SUFFICES ASSUME NEW u \in rt
               PROVE  /\ Accounts(u, job'[u])
                      /\ \/ \E x \in CPU : scheduled[x] = u /\ Deciding(x)' /\ u \in running
                         \/ Fresh(u, job'[u])
    BY <1>2 DEF Budgets
  <2>1. SameSlice(job[u], job'[u]) /\ job'[u].exec_time = job[u].exec_time
    BY <1>3, <1>9
  <2>2. Accounts(u, job'[u])
    BY <1>0, <2>1, AccountsSame DEF Budgets
  <2>3. Fresh(u, job[u]) => Fresh(u, job'[u])
    BY <2>1 DEF Fresh, SameSlice, out_of_budget, slice_budget_exhausted, budget_exhausted, slice_exec_time, slice_budget
  <2>4. \A x \in CPU : Deciding(x) => Deciding(x)'
    BY <1>2, <1>12 DEF Deciding
  <2> QED BY <1>0, <2>2, <2>3, <2>4 DEF Budgets
<1>25. Enforced'
  <2> SUFFICES ASSUME NEW x \in CPU, NEW u \in Task, curr[x] = u, phase'[x] \in {"run", "sched"}
               PROVE  /\ phase[x] = "sched" => Within(u, job[u])'
                      /\ phase[x] = "run" /\ u \in Precise /\ job'[u].no >= 2 =>
                           \/ /\ timer[x] # NULL /\ now <= timer[x]
                              /\ timer[x] + job'[u].exec_time = start[x] + job'[u].exec_cost
                           \/ /\ job'[u].exec_time + now <= start[x] + job'[u].exec_cost
                              /\ u \in tif
    BY <1>2, <1>12 DEF Enforced
  <2>1. x # c
    BY <1>12
  <2>2. job'[u] = job[u]
    BY <1>5, <1>8, <2>1
  <2> QED BY <1>0, <1>2, <2>2 DEF Enforced, Within
<1>26. Requested'
  <2> SUFFICES ASSUME NEW x \in CPU, phase'[x] # "sched"
               PROVE  \/ x \in ipi
                      \/ phase'[x] = "run" /\ Current(x) \in tif
                      \/ \A u \in ready'[x] : edf_higher_prio(job', u, scheduled[x]) => u \in tif
    BY <1>2 DEF Requested, Current, edf_higher_prio
  <2>1. ASSUME NEW u \in ready'[x] PROVE u \in ready[x] /\ (edf_higher_prio(job', u, scheduled[x]) <=> edf_higher_prio(job, u, scheduled[x]))
    <3>1. u \in Task /\ u \in ready[x]
      BY <1>3, <1>10
    <3> QED BY <1>3, <1>16, <3>1 DEF edf_higher_prio
  <2> QED BY <1>0, <1>2, <1>12, <2>1 DEF Requested
<1> QED BY <1>11, <1>13, <1>14, <1>15, <1>17, <1>18, <1>19, <1>20, <1>21, <1>22, <1>23, <1>24, <1>25, <1>26
     DEF IInv

\* litmus_schedule() attaches the task it has pulled.
LEMMA AttachStep ==
  ASSUME IInv, NEW c \in CPU, attach(c)
  PROVE  IInv'
<1>0. TypeOK /\ ~panic /\ Clocks /\ Released /\ Budgets /\ Enforced /\ Requested
  BY DEF IInv
<1>00. Executing /\ Following /\ InDomain /\ HandOver /\ Kept /\ JustBlocked /\ NoSpinDeadlock
  BY DEF IInv
<1>1. PICK n : n = next[c]
  OBVIOUS
<1>2. /\ phase[c] \in {"wait", "attach"} /\ hand[c] = NULL
      /\ task_cpu' = [task_cpu EXCEPT ![n] = c] /\ phase' = [phase EXCEPT ![c] = "switch"]
      /\ next' = [next EXCEPT ![c] = IF n \in rt \cap running THEN n ELSE NULL]
      /\ UNCHANGED <<plugin, taskVars, flags, job, queueVars, scheduled, hand, curr,
                     stack_in_use, was_running, clockVars, sigVars, panic>>
  BY <1>1 DEF attach, StackFree
<1>3. stack_in_use[n] = NO_CPU
  BY <1>00, <1>1 DEF attach, StackFree, Following
<1>4. n \in Task /\ scheduled[c] = n /\ NULL \notin Task /\ NO_CPU \notin CPU
  BY <1>0, <1>00, <1>1, <1>2, ConstantsAssumption DEF Following, Deciding, TypeOK
<1>5. n \in rt /\ n \in running /\ job[n].cpu = c /\ \A x \in CPU : scheduled[x] = n => x = c
  BY <1>0, <1>00, <1>2, <1>4, PickedOnce
<1>6. next' = next
  BY <1>0, <1>1, <1>2, <1>5 DEF TypeOK
<1>7. /\ phase' \in [CPU -> {"run", "sched", "wait", "resim", "attach", "switch"}]
      /\ \A x \in CPU : phase'[x] = IF x = c THEN "switch" ELSE phase[x]
      /\ task_cpu' \in [Task -> CPU] /\ \A u \in Task : task_cpu'[u] = IF u = n THEN c ELSE task_cpu[u]
  BY <1>0, <1>2 DEF TypeOK
<1>8. TypeOK'
  BY <1>0, <1>2, <1>6, <1>7 DEF TypeOK
<1>9. Executing'
  <2>1. \A x \in CPU : curr[x] # n
    BY <1>00, <1>3, <1>4 DEF Executing
  <2> QED BY <1>00, <1>2, <1>7, <2>1 DEF Executing
<1>10. Following'
  <2> SUFFICES ASSUME NEW x \in CPU
               PROVE  /\ Deciding(x)' => scheduled[x] = curr[x] /\ next[x] = NULL
                      /\ ~Deciding(x)' => scheduled[x] = next[x]
                      /\ phase'[x] \in {"wait", "resim", "attach"} => next[x] # NULL
                      /\ phase'[x] = "wait" => task_cpu'[next[x]] # x
                      /\ phase'[x] \in {"resim", "attach"} => stack_in_use[next[x]] = NO_CPU
                      /\ phase'[x] = "switch" /\ next[x] # NULL => task_cpu'[next[x]] = x
    BY <1>2, <1>6 DEF Following
  <2>1. CASE x = c
    BY <1>1, <1>4, <1>7, <2>1 DEF Deciding
  <2>2. CASE x # c
    <3>1. phase'[x] = phase[x] /\ (next[x] # NULL => next[x] \in Task)
      BY <1>0, <1>7, <2>2 DEF TypeOK
    <3>2. ~Deciding(x) => next[x] # n
      BY <1>00, <1>5, <2>2 DEF Following
    <3> QED BY <1>00, <1>7, <2>2, <3>1, <3>2 DEF Following, Deciding
  <2> QED BY <2>1, <2>2
<1>11. InDomain'
  BY <1>00, <1>2, <1>7 DEF InDomain
<1>12. HandOver'
  BY <1>00, <1>2, <1>4, <1>7 DEF HandOver
<1>13. Kept'
  BY <1>00, <1>2, <1>7 DEF Kept, Nowhere
<1>14. JustBlocked'
  BY <1>00, <1>2, <1>7 DEF JustBlocked
<1>15. NoSpinDeadlock'
  BY <1>00, <1>2, <1>6, <1>7 DEF NoSpinDeadlock, SpinsOn
<1>16. Clocks'
  BY <1>0, <1>2, <1>7 DEF Clocks
<1>17. Released'
  BY <1>0, <1>2 DEF Released
<1>18. \A x \in CPU : /\ Deciding(x)' <=> Deciding(x)
                      /\ phase'[x] = "run" <=> phase[x] = "run"
                      /\ phase'[x] = "sched" <=> phase[x] = "sched"
  BY <1>2, <1>7 DEF Deciding
<1>19. Budgets'
  BY <1>0, <1>2, <1>18 DEF Budgets, Accounts, Fresh, out_of_budget, slice_budget_exhausted, budget_exhausted,
       slice_exec_time, slice_budget
<1>20. Enforced'
  BY <1>0, <1>2, <1>18 DEF Enforced, Within
<1>21. Requested'
  BY <1>0, <1>2, <1>18 DEF Requested, Current, edf_higher_prio
<1> QED BY <1>0, <1>2, <1>8, <1>9, <1>10, <1>11, <1>12, <1>13, <1>14, <1>15, <1>16, <1>17, <1>19, <1>20, <1>21
     DEF IInv

\* The picked task has budget left, so its timer can be armed.
LEMMA FinishSwitchStep ==
  ASSUME IInv, NEW c \in CPU, finish_switch(c)
  PROVE  IInv'
<1>0. TypeOK /\ ~panic /\ Clocks /\ Released /\ Budgets /\ Enforced /\ Requested
  BY DEF IInv
<1>00. Executing /\ Following /\ InDomain /\ HandOver /\ Kept /\ JustBlocked /\ NoSpinDeadlock
  BY DEF IInv
<1>1. PICK n : n = next[c]
  OBVIOUS
<1>2. /\ phase[c] = "switch" /\ hand[c] = NULL
      /\ panic' = (panic \/ (n \in Precise /\ budget_exhausted(job[n])))
      /\ timer' = [timer EXCEPT ![c] = update_enforcement_timer(n)]
      /\ start' = [start EXCEPT ![c] = IF n = NULL THEN 0 ELSE rqclock[c]]
      /\ rqclock' = [rqclock EXCEPT ![c] = 0] /\ stack_in_use' = switch_stacks(c)
      /\ curr' = [curr EXCEPT ![c] = n] /\ phase' = [phase EXCEPT ![c] = "run"]
      /\ next' = [next EXCEPT ![c] = NULL] /\ was_running' = [was_running EXCEPT ![c] = FALSE]
      /\ UNCHANGED <<plugin, taskVars, flags, job, queueVars, scheduled, hand, task_cpu, now, sigVars>>
  BY <1>1 DEF finish_switch, BugOn
<1>3. /\ now \in Nat /\ rqclock[c] = now /\ n \in Task \cup {NULL} /\ scheduled[c] = n /\ NULL \notin Task
      /\ NO_CPU \notin CPU /\ (n # NULL => task_cpu[n] = c) /\ Precise \subseteq Task /\ NULL \notin Nat
  BY <1>0, <1>00, <1>1, <1>2, ConstantsAssumption DEF TypeOK, Clocks, Following, Deciding
<1>4. n # NULL => /\ n \in rt /\ n \in running /\ job[n].cpu = c
                  /\ \A x \in CPU : scheduled[x] = n => x = c
  BY <1>0, <1>00, <1>2, <1>3, PickedOnce
<1>5. ASSUME n \in Precise
      PROVE  job[n].exec_time < job[n].exec_cost /\ job[n].exec_time \in Nat /\ job[n].exec_cost \in Nat
  <2>1. n \in Task /\ n # NULL /\ job[n] \in Job
    BY <1>0, <1>3, <1>5 DEF TypeOK
  <2>2. Accounts(n, job[n]) /\ Fresh(n, job[n])
    BY <1>0, <1>2, <1>4, <2>1 DEF Budgets, Deciding
  <2>3. job[n].exec_time < job[n].exec_cost
    BY <1>5, <2>1, <2>2, FreshHasCost
  <2> QED BY <2>1, <2>3, JobFields
<1>6. ~panic' /\ panic' \in BOOLEAN
  <2>1. ~(n \in Precise /\ budget_exhausted(job[n]))
    BY <1>5 DEF budget_exhausted
  <2> QED BY <1>0, <1>2, <2>1
<1>7. PICK e : e = update_enforcement_timer(n)
  OBVIOUS
<1>8. /\ e \in Nat \cup {NULL}
      /\ n \in Precise => e # NULL /\ now <= e /\ e + job[n].exec_time = now + job[n].exec_cost
  <2>1. CASE n \in Precise
    <3>1. e = now + (job[n].exec_cost - job[n].exec_time)
      BY <1>7, <2>1 DEF update_enforcement_timer
    <3>2. job[n].exec_time < job[n].exec_cost /\ job[n].exec_time \in Nat /\ job[n].exec_cost \in Nat
      BY <1>5, <2>1
    <3>3. e \in Nat /\ now <= e /\ e + job[n].exec_time = now + job[n].exec_cost
      BY <1>3, <3>1, <3>2
    <3> QED BY <1>3, <3>3
  <2>2. CASE n \notin Precise
    BY <1>7, <2>2 DEF update_enforcement_timer
  <2> QED BY <2>1, <2>2
<1>9. /\ timer' \in [CPU -> Nat \cup {NULL}] /\ \A x \in CPU : timer'[x] = IF x = c THEN e ELSE timer[x]
  BY <1>0, <1>2, <1>7, <1>8 DEF TypeOK
<1>10. /\ start' \in [CPU -> Nat] /\ \A x \in CPU : x # c => start'[x] = start[x]
       /\ start'[c] <= now /\ (n # NULL => start'[c] = now)
  <2>1. start \in [CPU -> Nat]
    BY <1>0 DEF TypeOK
  <2> QED BY <1>2, <1>3, <2>1
<1>11. /\ rqclock' \in [CPU -> Nat] /\ \A x \in CPU : x # c => rqclock'[x] = rqclock[x]
  BY <1>0, <1>2 DEF TypeOK
<1>12. /\ curr' \in [CPU -> Task \cup {NULL}] /\ \A x \in CPU : curr'[x] = IF x = c THEN n ELSE curr[x]
       /\ next' \in [CPU -> Task \cup {NULL}] /\ \A x \in CPU : next'[x] = IF x = c THEN NULL ELSE next[x]
  BY <1>0, <1>2, <1>3 DEF TypeOK
<1>13. /\ phase' \in [CPU -> {"run", "sched", "wait", "resim", "attach", "switch"}]
       /\ \A x \in CPU : phase'[x] = IF x = c THEN "run" ELSE phase[x]
       /\ was_running' \in [CPU -> BOOLEAN] /\ \A x \in CPU : x # c => was_running'[x] = was_running[x]
  BY <1>0, <1>2 DEF TypeOK
<1>14. /\ \A u \in Task : stack_in_use'[u] = IF u = n THEN c ELSE IF u = curr[c] THEN NO_CPU ELSE stack_in_use[u]
       /\ stack_in_use' \in [Task -> CPU \cup {NO_CPU}]
  <2>1. stack_in_use' = [u \in Task |-> IF u = n THEN c ELSE IF u = curr[c] THEN NO_CPU ELSE stack_in_use[u]]
    BY <1>1, <1>2 DEF switch_stacks
  <2>2. stack_in_use \in [Task -> CPU \cup {NO_CPU}]
    BY <1>0 DEF TypeOK
  <2> QED BY <2>1, <2>2
<1>15. TypeOK'
  BY <1>0, <1>2, <1>6, <1>9, <1>10, <1>11, <1>12, <1>13, <1>14 DEF TypeOK
<1>16. \A x \in CPU : x # c /\ n # NULL => curr[x] # n /\ scheduled[x] # n
  BY <1>00, <1>3, <1>4 DEF Executing
<1>17. \A x \in CPU : x # c /\ ~Deciding(x) /\ next[x] # NULL => next[x] # n /\ next[x] \in Task
  BY <1>0, <1>00, <1>16 DEF Following, TypeOK
<1>18. Executing'
  <2> SUFFICES ASSUME NEW x \in CPU, NEW u \in Task
               PROVE  /\ curr'[x] = u <=> stack_in_use'[u] = x
                      /\ curr'[x] = u => task_cpu[u] = x /\ u \in rt
    BY <1>2 DEF Executing
  <2>1. CASE u = n
    <3>1. curr'[x] = u <=> x = c
      BY <1>3, <1>12, <1>16, <2>1
    <3> QED BY <1>3, <1>4, <1>14, <2>1, <3>1
  <2>2. CASE u # n /\ u = curr[c]
    <3>1. curr'[x] # u
      BY <1>00, <1>12, <2>2 DEF Executing
    <3> QED BY <1>3, <1>14, <2>2, <3>1
  <2>3. CASE u # n /\ u # curr[c]
    <3>1. stack_in_use'[u] = stack_in_use[u] /\ (curr'[x] = u <=> curr[x] = u)
      BY <1>12, <1>14, <2>3
    <3> QED BY <1>00, <3>1 DEF Executing
  <2> QED BY <2>1, <2>2, <2>3
<1>19. Following'
  <2> SUFFICES ASSUME NEW x \in CPU
               PROVE  /\ Deciding(x)' => scheduled[x] = curr'[x] /\ next'[x] = NULL
                      /\ ~Deciding(x)' => scheduled[x] = next'[x]
                      /\ phase'[x] \in {"wait", "resim", "attach"} => next'[x] # NULL
                      /\ phase'[x] = "wait" => task_cpu[next'[x]] # x
                      /\ phase'[x] \in {"resim", "attach"} => stack_in_use'[next'[x]] = NO_CPU
                      /\ phase'[x] = "switch" /\ next'[x] # NULL => task_cpu[next'[x]] = x
    BY <1>2 DEF Following
  <2>1. CASE x = c
    BY <1>3, <1>12, <1>13, <2>1 DEF Deciding
  <2>2. CASE x # c
    <3>1. phase'[x] = phase[x] /\ next'[x] = next[x] /\ curr'[x] = curr[x] /\ (Deciding(x)' <=> Deciding(x))
      BY <1>12, <1>13, <2>2 DEF Deciding
    <3>2. phase[x] \in {"resim", "attach"} => stack_in_use'[next[x]] = NO_CPU
      <4> SUFFICES ASSUME phase[x] \in {"resim", "attach"} PROVE stack_in_use'[next[x]] = NO_CPU
        OBVIOUS
      <4>1. next[x] # n /\ next[x] \in Task /\ stack_in_use[next[x]] = NO_CPU
        BY <1>00, <1>17, <2>2 DEF Following, Deciding
      <4> QED BY <1>14, <4>1
    <3> QED BY <1>00, <3>1, <3>2 DEF Following
  <2> QED BY <2>1, <2>2
<1>20. InDomain'
  BY <1>00, <1>2, <1>13 DEF InDomain
<1>21. HandOver'
  BY <1>00, <1>2, <1>3, <1>13 DEF HandOver
<1>22. Kept'
  <2>1. \A x \in CPU : /\ phase'[x] = "resim" <=> phase[x] = "resim"
                       /\ phase[x] = "resim" => curr'[x] = curr[x]
    BY <1>2, <1>12, <1>13
  <2>2. \A u : Nowhere(u)' <=> Nowhere(u)
    BY <1>2 DEF Nowhere
  <2>3. \A x \in CPU : phase'[x] = "resim" => curr'[x] \in rt' /\ curr'[x] \in running' /\ Nowhere(curr[x])'
    BY <1>00, <1>2, <2>1, <2>2 DEF Kept
  <2> QED BY <1>00, <1>2, <2>1, <2>2, <2>3 DEF Kept
<1>23. JustBlocked'
  BY <1>00, <1>2, <1>12, <1>13 DEF JustBlocked
<1>24. NoSpinDeadlock'
  <2>1. ASSUME NEW x \in CPU, NEW y \in CPU, SpinsOn(x, y)' PROVE SpinsOn(x, y) /\ x # c /\ y # c
    <3>1. x # c /\ phase[x] = "wait" /\ next'[x] = next[x] /\ stack_in_use'[next[x]] = y
      BY <1>12, <1>13, <2>1 DEF SpinsOn
    <3>2. next[x] # n /\ next[x] \in Task
      BY <1>00, <1>17, <3>1 DEF Following, Deciding
    <3>3. next[x] # curr[c] /\ stack_in_use[next[x]] = y
      BY <1>3, <1>14, <3>1, <3>2
    <3> QED BY <1>00, <3>1, <3>2, <3>3 DEF SpinsOn, Executing
  <2> QED BY <1>00, <1>13, <2>1 DEF NoSpinDeadlock
<1>25. Clocks'
  BY <1>0, <1>2, <1>10, <1>11, <1>13 DEF Clocks
<1>26. Released'
  BY <1>0, <1>2 DEF Released
<1>27. Budgets'
  <2>1. \A x \in CPU : Deciding(x) => Deciding(x)'
    BY <1>2, <1>13 DEF Deciding
  <2> QED BY <1>0, <1>2, <2>1 DEF Budgets, Accounts, Fresh, out_of_budget, slice_budget_exhausted,
       budget_exhausted, slice_exec_time, slice_budget
<1>28. Enforced'
  <2> SUFFICES ASSUME NEW x \in CPU, NEW u \in Task, curr'[x] = u
               PROVE  /\ phase'[x] = "sched" => Within(u, job[u])
                      /\ phase'[x] = "run" /\ u \in Precise /\ job[u].no >= 2 =>
                           \/ /\ timer'[x] # NULL /\ now <= timer'[x]
                              /\ timer'[x] + job[u].exec_time = start'[x] + job[u].exec_cost
                           \/ /\ job[u].exec_time + now <= start'[x] + job[u].exec_cost
                              /\ u \in tif
    BY <1>2 DEF Enforced, Within
  <2>1. CASE x = c
    BY <1>3, <1>8, <1>9, <1>10, <1>12, <1>13, <2>1
  <2>2. CASE x # c
    BY <1>0, <1>9, <1>10, <1>12, <1>13, <2>2 DEF Enforced
  <2> QED BY <2>1, <2>2
<1>29. Requested'
  <2> SUFFICES ASSUME NEW x \in CPU, phase'[x] # "sched"
               PROVE  \/ x \in ipi
                      \/ phase'[x] = "run" /\ Current(x)' \in tif
                      \/ \A u \in ready[x] : edf_higher_prio(job, u, scheduled[x]) => u \in tif
    BY <1>2 DEF Requested, edf_higher_prio
  <2>1. x # c => Current(x)' = Current(x)
    BY <1>12 DEF Current
  <2> QED BY <1>0, <1>2, <1>13, <2>1 DEF Requested
<1> QED BY <1>6, <1>15, <1>18, <1>19, <1>20, <1>21, <1>22, <1>23, <1>24, <1>25, <1>26, <1>27, <1>28, <1>29
     DEF IInv

-----------------------------------------------------------------------------
(* Tasks that become real-time and cease to be                             *)

\* The first job of an admitted task.
LEMMA FirstJob ==
  ASSUME NEW t \in Task, check_params(t), NEW j \in Job, j.exec_time = 0, j.exec_cost = Cost[t],
         j.no = 1, j.cpu = Home[t], j.slice = 1, j.slice_start = 0
  PROVE  Accounts(t, j) /\ Fresh(t, j)
<1>0. Cost[t] \in Nat \ {0}
  BY ConstantsAssumption
<1>1. CASE is_sliced_task(t)
  <2>1. Count(t) > 1 /\ Home[t] = Slices[t][1].cpu /\ Cost[t] = Sum(t, Count(t)) /\ t \in Precise
    BY <1>1 DEF check_params, Count
  <2>2. Count(t) \in Nat /\ 1 \in 1 .. Count(t) /\ Count(t) \in 1 .. Count(t)
    BY <2>1, SliceTyped
  <2>3. Sum(t, Count(t)) >= Slices[t][1].budget /\ Slices[t][1].budget \in Nat \ {0}
    BY <2>2, SliceTyped, SumFirst
  <2>4. Accounts(t, j)
    BY <1>0, <1>1, <2>1, <2>2, <2>3 DEF Accounts, slice_budget
  <2>5. Fresh(t, j)
    BY <1>1, <2>3 DEF Fresh, out_of_budget, slice_budget_exhausted, slice_exec_time, slice_budget
  <2> QED BY <2>4, <2>5
<1>2. CASE ~is_sliced_task(t)
  BY <1>0, <1>2 DEF Accounts, Fresh, out_of_budget, budget_exhausted
<1> QED BY <1>1, <1>2

\* A task becomes a real-time task.
LEMMA NewStep ==
  ASSUME IInv, NEW t \in Task, NEW e \in CPU, task_new(t, e)
  PROVE  IInv'
<1>0. TypeOK /\ ~panic /\ Clocks /\ Released /\ Budgets /\ Enforced /\ Requested
  BY DEF IInv
<1>00. Executing /\ Following /\ InDomain /\ HandOver /\ Kept /\ JustBlocked /\ NoSpinDeadlock
  BY DEF IInv
<1>1. PICK c, j : /\ c = Home[t]
                  /\ j = [release |-> now, deadline |-> now + Period[t], exec_time |-> 0,
                          exec_cost |-> Cost[t], no |-> 1, cpu |-> c, slice |-> 1,
                          slice_start |-> 0, suspend_time |-> 0,
                          job_release |-> IF is_sliced_task(t) /\ plugin = "EDF-WM" THEN now ELSE 0,
                          job_deadline |-> IF is_sliced_task(t) THEN now + Period[t] ELSE 0]
  OBVIOUS
<1>2. /\ t \notin rt /\ check_params(t) /\ task_cpu[t] = c /\ phase[e] = "run" /\ hand[e] = NULL
      /\ rt' = rt \cup {t} /\ running' = running \cup {t}
      /\ sync' = [sync EXCEPT ![t] = IF t \in Synched THEN "new" ELSE "done"]
      /\ job' = [job EXCEPT ![t] = j]
      /\ UNCHANGED <<plugin, hand, task_cpu, next, was_running, phase, now, rqclock, timer>>
  BY <1>1 DEF task_new, admissible, Open
<1>3. /\ job \in [Task -> Job] /\ now \in Nat /\ c \in CPU /\ Period[t] \in Nat /\ Cost[t] \in Nat
      /\ NULL \notin Task /\ NO_CPU \notin CPU /\ rt \subseteq Task /\ CPU \cap Task = {}
  BY <1>0, <1>1, ConstantsAssumption DEF TypeOK
<1>4. /\ j \in Job /\ j.exec_time = 0 /\ j.exec_cost = Cost[t] /\ j.no = 1 /\ j.cpu = c /\ j.slice = 1
      /\ j.slice_start = 0 /\ j.suspend_time = 0 /\ j.release = now
  BY <1>1, <1>3 DEF Job, JOB_CAP
<1>5. Accounts(t, j) /\ Fresh(t, j)
  BY <1>1, <1>2, <1>4, FirstJob
<1>6. job' \in [Task -> Job] /\ job'[t] = j /\ \A u \in Task : u # t => job'[u] = job[u]
  BY <1>2, <1>3, <1>4
<1>7. /\ sync' \in [Task -> {"new", "wait", "done"}] /\ sync'[t] = IF t \in Synched THEN "new" ELSE "done"
      /\ \A u \in Task : u # t => sync'[u] = sync[u]
  BY <1>0, <1>2 DEF TypeOK
<1>8. \A x \in CPU : /\ t \notin ready[x] /\ t \notin relq[x] /\ scheduled[x] # t /\ hand[x] # t
                     /\ curr[x] # t /\ (~Deciding(x) => next[x] # t)
  BY <1>00, <1>2 DEF InDomain, HandOver, Executing, Following
<1>9. /\ t \in rt' /\ t \in running'
      /\ \A u \in Task : u # t => (u \in rt' <=> u \in rt) /\ (u \in running' <=> u \in running)
  BY <1>2
<1>10. Released'
  <2> SUFFICES ASSUME NEW u \in Task
               PROVE  /\ sync'[u] # "done" => u \in rt' /\ u \in Synched
                      /\ sync'[u] = "wait" => u \notin running'
                      /\ u \in rt' /\ u \notin running' => u \in Suspending \/ u \in Synched
                      /\ u \in rt' /\ u \in Synched /\ sync'[u] = "done" => job'[u].no >= 2
    BY DEF Released
  <2>1. CASE u = t
    BY <1>7, <1>9, <2>1
  <2>2. CASE u # t
    BY <1>0, <1>6, <1>7, <1>9, <2>2 DEF Released
  <2> QED BY <2>1, <2>2
<1>11. ~is_queued(t) /\ \A x \in CPU : stack_in_use[t] # x
  BY <1>00, <1>8 DEF is_queued, Executing
<1>12. stack_in_use[t] = NO_CPU /\ stack_in_use \in [Task -> CPU \cup {NO_CPU}]
  BY <1>0, <1>11 DEF TypeOK
<1>13. CASE t \in Queued /\ \E force : requeue(t, c, job', force, e) /\ BugOn(is_queued(t))
                                       /\ stack_in_use' = [stack_in_use EXCEPT ![t] = NO_CPU]
                                       /\ UNCHANGED <<scheduled, curr, start>>
  <2>1. PICK force : requeue(t, c, job', force, e)
    BY <1>13
  <2>2. Added(t, c, e)
    BY <1>0, <1>3, <2>1, RequeueFacts
  <2>3. stack_in_use' = stack_in_use /\ UNCHANGED <<scheduled, curr, start>>
    BY <1>12, <1>13
  <2>4. ~panic' /\ panic' \in BOOLEAN
    BY <1>0, <1>11, <1>13 DEF BugOn
  <2>5. TypeOK'
    <3>1. rt' \in SUBSET Task /\ running' \in SUBSET Task
      BY <1>0, <1>2 DEF TypeOK
    <3> QED BY <1>0, <1>2, <1>6, <1>7, <2>2, <2>3, <2>4, <3>1 DEF TypeOK, Added
  <2>6. \A x \in CPU : curr[x] # t /\ hand[x] # t
    BY <1>8
  <2>7. AddsOnly(t, c, e)
    BY <1>2, <1>4, <1>6, <1>8, <1>9, <2>2, <2>3, <2>6 DEF AddsOnly
  <2>8. Accounts(t, job'[t]) /\ Fresh(t, job'[t]) /\ job'[t].suspend_time <= now
    BY <1>3, <1>4, <1>5, <1>6
  <2> QED BY <1>3, <1>10, <2>4, <2>5, <2>7, <2>8, AddStep
<1>14. CASE /\ e = c /\ curr[c] = NULL
            /\ scheduled' = [scheduled EXCEPT ![c] = t] /\ curr' = [curr EXCEPT ![c] = t]
            /\ stack_in_use' = [stack_in_use EXCEPT ![t] = c] /\ start' = [start EXCEPT ![c] = now]
            /\ tif' = (IF c \in tif THEN (tif \ {c}) \cup {t} ELSE tif)
            /\ flags' = [flags EXCEPT ![t] = "RUNNING"] /\ BugOn(scheduled[c] # NULL)
            /\ UNCHANGED <<queueVars, ipi>>
  <2>1. scheduled[c] = NULL /\ phase[c] = "run" /\ hand[c] = NULL
    BY <1>00, <1>2, <1>3, <1>14 DEF Following, Deciding
  <2>2. ~panic' /\ panic' \in BOOLEAN
    BY <1>0, <1>14, <2>1 DEF BugOn
  <2>3. /\ scheduled' \in [CPU -> Task \cup {NULL}] /\ \A x \in CPU : scheduled'[x] = IF x = c THEN t ELSE scheduled[x]
        /\ curr' \in [CPU -> Task \cup {NULL}] /\ \A x \in CPU : curr'[x] = IF x = c THEN t ELSE curr[x]
        /\ stack_in_use' \in [Task -> CPU \cup {NO_CPU}]
        /\ \A u \in Task : stack_in_use'[u] = IF u = t THEN c ELSE stack_in_use[u]
    BY <1>0, <1>3, <1>14 DEF TypeOK
  <2>4. /\ start' \in [CPU -> Nat] /\ \A x \in CPU : start'[x] = IF x = c THEN now ELSE start[x]
        /\ flags' \in [Task -> {"RUNNING", "SLEEP"}] /\ tif' \in SUBSET (Task \cup CPU)
    <3>1. start \in [CPU -> Nat] /\ flags \in [Task -> {"RUNNING", "SLEEP"}] /\ tif \in SUBSET (Task \cup CPU)
      BY <1>0 DEF TypeOK
    <3> QED BY <1>3, <1>14, <3>1
  <2>5. TypeOK'
    <3>1. rt' \in SUBSET Task /\ running' \in SUBSET Task
      BY <1>0, <1>2 DEF TypeOK
    <3> QED BY <1>0, <1>2, <1>6, <1>7, <1>14, <2>2, <2>3, <2>4, <3>1 DEF TypeOK
  <2>6. Executing'
    <3> SUFFICES ASSUME NEW x \in CPU, NEW u \in Task
                 PROVE  /\ curr'[x] = u <=> stack_in_use'[u] = x
                        /\ curr'[x] = u => task_cpu[u] = x /\ u \in rt'
      BY <1>2 DEF Executing
    <3>1. CASE u = t
      BY <1>2, <1>8, <1>9, <2>3, <3>1
    <3>2. CASE u # t
      <4>1. curr'[x] = u <=> curr[x] = u
        BY <1>3, <1>14, <2>3, <3>2
      <4> QED BY <1>00, <1>9, <2>3, <3>2, <4>1 DEF Executing
    <3> QED BY <3>1, <3>2
  <2>7. Following'
    <3> SUFFICES ASSUME NEW x \in CPU
                 PROVE  /\ Deciding(x) => scheduled'[x] = curr'[x] /\ next[x] = NULL
                        /\ ~Deciding(x) => scheduled'[x] = next[x]
                        /\ phase[x] \in {"wait", "resim", "attach"} => next[x] # NULL
                        /\ phase[x] = "wait" => task_cpu[next[x]] # x
                        /\ phase[x] \in {"resim", "attach"} => stack_in_use'[next[x]] = NO_CPU
                        /\ phase[x] = "switch" /\ next[x] # NULL => task_cpu[next[x]] = x
      BY <1>2 DEF Following, Deciding
    <3>1. CASE x = c
      BY <1>00, <2>1, <2>3, <3>1 DEF Following, Deciding
    <3>2. CASE x # c
      <4>1. phase[x] \in {"resim", "attach"} => next[x] \in Task /\ next[x] # t
        BY <1>0, <1>00, <1>8 DEF Following, TypeOK, Deciding
      <4> QED BY <1>00, <2>3, <3>2, <4>1 DEF Following
    <3> QED BY <3>1, <3>2
  <2>8. InDomain'
    <3> SUFFICES ASSUME NEW x \in CPU, NEW u \in Task
                 PROVE  /\ u \in ready[x] \/ u \in relq[x] \/ scheduled'[x] = u =>
                             job'[u].cpu = x /\ u \in rt'
                        /\ u \in ready[x] \/ u \in relq[x] => u \in running'
                        /\ scheduled'[x] = u /\ phase[x] # "sched" => u \in running'
                        /\ u \in ready[x] => u \notin relq[x] /\ scheduled'[x] # u
                        /\ u \in relq[x] => scheduled'[x] # u
                        /\ u \in ready[x] \/ scheduled'[x] = u => job'[u].release <= now
      BY <1>2, <1>14 DEF InDomain
    <3>1. CASE u = t
      BY <1>3, <1>4, <1>6, <1>8, <1>9, <2>3, <3>1
    <3>2. CASE u # t
      <4>1. scheduled'[x] = u => scheduled[x] = u
        BY <2>3, <3>2
      <4> QED BY <1>00, <1>6, <1>9, <2>3, <3>2, <4>1 DEF InDomain
    <3> QED BY <3>1, <3>2
  <2>9. HandOver'
    <3> SUFFICES ASSUME NEW y \in CPU, NEW u \in Task, hand[y] = u
                 PROVE  /\ u \in rt' /\ u \in running'
                        /\ phase[y] \in {"run", "wait", "switch"}
                        /\ phase[y] # "run" => job'[u].cpu # y
                        /\ \A x \in CPU : /\ u \notin ready[x] /\ u \notin relq[x] /\ scheduled'[x] # u
                                          /\ hand[x] = u => y = x
      BY <1>2, <1>14 DEF HandOver
    <3>1. u # t
      BY <1>8
    <3> QED BY <1>00, <1>6, <1>9, <2>3, <3>1 DEF HandOver
  <2>10. Kept'
    <3>1. ASSUME NEW u \in Task, u \in rt', u \in running', Nowhere(u)'
          PROVE  \E x \in CPU : phase'[x] = "resim" /\ curr'[x] = u
      <4>1. u # t
        BY <1>3, <2>3, <3>1 DEF Nowhere
      <4>2. \A x \in CPU : scheduled[x] # u
        <5> TAKE x \in CPU
        <5>1. scheduled'[x] # u
          BY <3>1 DEF Nowhere
        <5> QED BY <1>3, <2>1, <2>3, <5>1
      <4>3. Nowhere(u)
        BY <1>2, <1>14, <3>1, <4>2 DEF Nowhere
      <4>4. PICK x \in CPU : phase[x] = "resim" /\ curr[x] = u
        BY <1>00, <1>9, <3>1, <4>1, <4>3 DEF Kept
      <4> QED BY <1>2, <2>1, <2>3, <4>4
    <3>2. ASSUME NEW x \in CPU, phase'[x] = "resim"
          PROVE  curr'[x] \in rt' /\ curr'[x] \in running' /\ Nowhere(curr[x])'
      <4>1. PICK u : u = curr[x]
        OBVIOUS
      <4>2. u \in rt /\ u \in running /\ Nowhere(u) /\ x # c /\ u # t
        BY <1>00, <1>2, <1>8, <2>1, <3>2, <4>1 DEF Kept
      <4>3. Nowhere(u)'
        BY <1>2, <1>14, <2>3, <4>2 DEF Nowhere
      <4>4. curr'[x] = u /\ u \in rt' /\ u \in running'
        BY <1>2, <2>3, <4>1, <4>2
      <4> QED BY <4>3, <4>4
    <3> QED BY <3>1, <3>2 DEF Kept
  <2>11. JustBlocked'
    <3> SUFFICES ASSUME NEW x \in CPU, NEW u \in Task, curr'[x] = u, phase[x] # "run"
                 PROVE  /\ u \notin running' \/ phase[x] = "resim" =>
                             job'[u].suspend_time = now /\ job'[u].cpu = x /\ job'[u].release <= now
                        /\ phase[x] = "wait" /\ ~was_running[x] /\ u \in running' => u \in ready[x]
      BY <1>2, <1>14 DEF JustBlocked
    <3>1. curr[x] = u /\ u # t
      BY <1>8, <2>1, <2>3
    <3> QED BY <1>00, <1>6, <1>9, <3>1 DEF JustBlocked
  <2>12. NoSpinDeadlock'
    <3>1. ASSUME NEW x \in CPU, NEW y \in CPU, SpinsOn(x, y)' PROVE SpinsOn(x, y)
      <4>1. phase[x] = "wait" /\ stack_in_use'[next[x]] = y
        BY <1>2, <3>1 DEF SpinsOn
      <4>2. next[x] \in Task /\ next[x] # t
        BY <1>0, <1>00, <1>8, <4>1 DEF Following, TypeOK, Deciding
      <4> QED BY <2>3, <4>1, <4>2 DEF SpinsOn
    <3> QED BY <1>00, <1>2, <3>1 DEF NoSpinDeadlock
  <2>13. Clocks'
    <3>1. \A u \in Task : job'[u].suspend_time <= now
      BY <1>0, <1>3, <1>4, <1>6 DEF Clocks
    <3> QED BY <1>0, <1>2, <1>3, <2>4, <3>1 DEF Clocks
  <2>14. Budgets'
    <3> SUFFICES ASSUME NEW u \in rt'
                 PROVE  /\ Accounts(u, job'[u])
                        /\ \/ \E x \in CPU : scheduled'[x] = u /\ Deciding(x) /\ u \in running'
                           \/ Fresh(u, job'[u])
      BY <1>2 DEF Budgets, Deciding
    <3>1. CASE u = t
      BY <1>5, <1>6, <3>1
    <3>2. CASE u # t
      <4>1. u \in rt /\ u \in Task
        BY <1>2, <1>3, <3>2
      <4>2. \A x \in CPU : scheduled[x] = u => scheduled'[x] = u
        BY <1>3, <2>1, <2>3, <4>1
      <4> QED BY <1>0, <1>6, <1>9, <3>2, <4>1, <4>2 DEF Budgets
    <3> QED BY <3>1, <3>2
  <2>15. Enforced'
    <3> SUFFICES ASSUME NEW x \in CPU, NEW u \in Task, curr'[x] = u
                 PROVE  /\ phase[x] = "sched" => Within(u, job[u])'
                        /\ phase[x] = "run" /\ u \in Precise /\ job'[u].no >= 2 =>
                             \/ /\ timer[x] # NULL /\ now <= timer[x]
                                /\ timer[x] + job'[u].exec_time = start'[x] + job'[u].exec_cost
                             \/ /\ job'[u].exec_time + now <= start'[x] + job'[u].exec_cost
                                /\ u \in tif'
      BY <1>2 DEF Enforced
    <3>1. CASE x = c
      BY <1>4, <1>6, <2>1, <2>3, <3>1
    <3>2. CASE x # c
      <4>1. curr[x] = u /\ u # t /\ job'[u] = job[u] /\ start'[x] = start[x] /\ (u \in tif => u \in tif')
        BY <1>3, <1>6, <1>8, <1>14, <2>3, <2>4, <3>2
      <4> QED BY <1>0, <1>2, <4>1 DEF Enforced, Within
    <3> QED BY <3>1, <3>2
  <2>16. Requested'
    <3> SUFFICES ASSUME NEW x \in CPU, phase[x] # "sched"
                 PROVE  \/ x \in ipi
                        \/ phase[x] = "run" /\ Current(x)' \in tif'
                        \/ \A u \in ready[x] : edf_higher_prio(job, u, scheduled[x])' => u \in tif'
      BY <1>2, <1>14 DEF Requested
    <3>1. \A u \in ready[x] : u \in Task /\ u # t /\ u \in rt /\ (u \in tif => u \in tif')
      BY <1>0, <1>00, <1>3, <1>8, <1>14 DEF TypeOK, InDomain
    <3>2. CASE x # c
      <4>1. Current(x)' = Current(x) /\ (Current(x) \in tif => Current(x) \in tif')
        <5>1. curr'[x] = curr[x] /\ Current(x) # c
          BY <1>0, <1>3, <2>3, <3>2, CurrentTyped
        <5> QED BY <1>14, <5>1 DEF Current
      <4>2. ASSUME NEW u \in ready[x]
            PROVE  edf_higher_prio(job, u, scheduled[x])' => edf_higher_prio(job, u, scheduled[x])
        <5>1. scheduled'[x] = scheduled[x] /\ scheduled[x] # t /\ scheduled[x] \in Task \cup {NULL}
          BY <1>0, <1>8, <2>3, <3>2 DEF TypeOK
        <5> QED BY <1>3, <1>6, <1>9, <3>1, <5>1 DEF edf_higher_prio
      <4> QED BY <1>0, <3>1, <4>1, <4>2 DEF Requested
    <3>3. CASE x = c
      <4>1. Current(x) = c /\ Current(x)' = t
        BY <1>3, <1>14, <2>3, <3>3 DEF Current
      <4>2. c \in tif => t \in tif'
        BY <1>14
      <4>3. ASSUME NEW u \in ready[x] PROVE edf_higher_prio(job, u, scheduled[x])
        BY <1>3, <2>1, <3>1, <3>3 DEF edf_higher_prio
      <4> QED BY <1>0, <3>1, <3>3, <4>1, <4>2, <4>3 DEF Requested
    <3> QED BY <3>2, <3>3
  <2> QED BY <1>10, <2>2, <2>5, <2>6, <2>7, <2>8, <2>9, <2>10, <2>11, <2>12, <2>13, <2>14, <2>15, <2>16 DEF IInv
<1>15. QED
  <2>1. \/ /\ e = c /\ curr[c] = NULL
           /\ scheduled' = [scheduled EXCEPT ![c] = t] /\ curr' = [curr EXCEPT ![c] = t]
           /\ stack_in_use' = [stack_in_use EXCEPT ![t] = c] /\ start' = [start EXCEPT ![c] = now]
           /\ tif' = (IF c \in tif THEN (tif \ {c}) \cup {t} ELSE tif)
           /\ flags' = [flags EXCEPT ![t] = "RUNNING"] /\ BugOn(scheduled[c] # NULL)
           /\ UNCHANGED <<queueVars, ipi>>
        \/ /\ t \in Queued /\ \E force : requeue(t, c, job', force, e)
           /\ BugOn(is_queued(t)) /\ stack_in_use' = [stack_in_use EXCEPT ![t] = NO_CPU]
           /\ UNCHANGED <<scheduled, curr, start>>
    BY <1>1 DEF task_new
  <2> QED BY <1>13, <1>14, <2>1

\* A task that leaves executes or is nowhere.
LEMMA ExitStep ==
  ASSUME IInv, NEW t \in Task, NEW e \in CPU, task_exit(t, e)
  PROVE  IInv'
<1>0. TypeOK /\ ~panic /\ Clocks /\ Released /\ Budgets /\ Enforced /\ Requested
  BY DEF IInv
<1>00. Executing /\ Following /\ InDomain /\ HandOver /\ Kept /\ JustBlocked /\ NoSpinDeadlock
  BY DEF IInv
<1>1. PICK d, k : d = job[t].cpu /\ k = NoJob(t)
  OBVIOUS
<1>2. /\ t \in rt /\ sync[t] = "done" /\ phase[e] = "run" /\ hand[e] = NULL
      /\ curr[e] = t \/ (t \notin running /\ stack_in_use[t] = NO_CPU)
      /\ rt' = rt \ {t} /\ running' = running \cup {t}
      /\ ready' = [ready EXCEPT ![d] = ready[d] \ {t}]
      /\ scheduled' = [scheduled EXCEPT ![d] = IF scheduled[d] = t THEN NULL ELSE scheduled[d]]
      /\ panic' = (panic \/ (is_queued(t) /\ t \notin ready[d]))
      /\ stack_in_use' = [stack_in_use EXCEPT ![t] = NO_CPU]
      /\ curr' = (IF curr[e] = t THEN [curr EXCEPT ![e] = NULL] ELSE curr)
      /\ start' = (IF curr[e] = t THEN [start EXCEPT ![e] = 0] ELSE start)
      /\ tif' = (tif \ {t}) \cup (IF curr[e] = t /\ (d = e \/ t \in tif) THEN {e}
                                  ELSE IF d = e THEN {Current(e)} ELSE {})
      /\ ipi' = (IF d = e THEN ipi ELSE ipi \cup {d})
      /\ flags' = [flags EXCEPT ![t] = "RUNNING"] /\ job' = [job EXCEPT ![t] = k]
      /\ UNCHANGED <<plugin, sync, relq, hand, task_cpu, next, was_running, phase, now, rqclock, timer>>
  BY <1>1 DEF task_exit, Open, BugOn
<1>3. /\ job \in [Task -> Job] /\ job[t] \in Job /\ now \in Nat /\ d \in CPU
      /\ NULL \notin Task /\ NO_CPU \notin CPU /\ rt \subseteq Task /\ CPU \cap Task = {}
      /\ ready \in [CPU -> SUBSET Task] /\ scheduled \in [CPU -> Task \cup {NULL}]
      /\ curr \in [CPU -> Task \cup {NULL}] /\ start \in [CPU -> Nat]
      /\ stack_in_use \in [Task -> CPU \cup {NO_CPU}] /\ flags \in [Task -> {"RUNNING", "SLEEP"}]
  BY <1>0, <1>1, JobFields, ConstantsAssumption DEF TypeOK
<1>4. k \in Job /\ k.suspend_time = 0
  <2>1. Home[t] \in CPU
    BY ConstantsAssumption
  <2> QED BY <1>1, <2>1 DEF NoJob, Job, JOB_CAP
<1>5. \A x \in CPU : curr[x] = t <=> curr[e] = t /\ x = e
  BY <1>00, <1>2, <1>3 DEF Executing
<1>6. \A x \in CPU : scheduled[x] = t <=> curr[e] = t /\ x = e
  <2> TAKE x \in CPU
  <2>1. curr[e] = t => scheduled[e] = t
    BY <1>00, <1>2 DEF Following, Deciding
  <2>2. ASSUME scheduled[x] = t PROVE curr[x] = t
    <3>1. CASE curr[e] = t
      BY <1>0, <1>00, <1>5, <2>1, <2>2, <3>1, PickedOnce
    <3>2. CASE curr[e] # t
      BY <1>00, <1>2, <2>2, <3>2 DEF InDomain, Following, Deciding
    <3> QED BY <3>1, <3>2
  <2> QED BY <1>5, <2>1, <2>2
<1>7. curr[e] = t => d = e
  BY <1>0, <1>00, <1>1, <1>6, PickedOnce
<1>8. \A x \in CPU : t \notin ready[x] /\ t \notin relq[x] /\ hand[x] # t
  <2>1. CASE curr[e] = t
    BY <1>0, <1>00, <1>6, <2>1, NotQueued
  <2>2. CASE curr[e] # t
    BY <1>00, <1>2, <2>2 DEF InDomain, HandOver
  <2> QED BY <2>1, <2>2
<1>9. ready' = ready /\ ~panic' /\ panic' \in BOOLEAN
  <2>1. ready[d] \ {t} = ready[d]
    BY <1>3, <1>8
  <2>2. ~is_queued(t)
    BY <1>8 DEF is_queued
  <2> QED BY <1>0, <1>2, <1>3, <2>1, <2>2
<1>10. /\ scheduled' \in [CPU -> Task \cup {NULL}]
       /\ \A x \in CPU : scheduled'[x] = IF scheduled[x] = t THEN NULL ELSE scheduled[x]
  BY <1>2, <1>3, <1>6, <1>7
<1>11. /\ curr' \in [CPU -> Task \cup {NULL}] /\ \A x \in CPU : curr'[x] = IF curr[x] = t THEN NULL ELSE curr[x]
  BY <1>2, <1>3, <1>5
<1>12. /\ start' \in [CPU -> Nat] /\ \A x \in CPU : start'[x] = start[x] \/ (curr[x] = t /\ start'[x] = 0)
  BY <1>2, <1>3
<1>13. /\ stack_in_use' \in [Task -> CPU \cup {NO_CPU}]
       /\ \A u \in Task : stack_in_use'[u] = IF u = t THEN NO_CPU ELSE stack_in_use[u]
       /\ flags' \in [Task -> {"RUNNING", "SLEEP"}]
  BY <1>2, <1>3
<1>14. /\ job' \in [Task -> Job] /\ job'[t] = k /\ \A u \in Task : u # t => job'[u] = job[u]
  BY <1>2, <1>3, <1>4
<1>15. /\ t \notin rt' /\ \A u \in Task : u # t => (u \in rt' <=> u \in rt) /\ (u \in running' <=> u \in running)
  BY <1>2
<1>16. /\ ipi \subseteq ipi' /\ ipi' \in SUBSET CPU /\ tif' \in SUBSET (Task \cup CPU)
       /\ \A u : u \in tif /\ u # t => u \in tif'
       /\ curr[e] = t => e \in tif'
  <2>1. ipi \in SUBSET CPU /\ tif \in SUBSET (Task \cup CPU) /\ Current(e) \in Task \cup CPU
    BY <1>0, CurrentTyped DEF TypeOK
  <2> QED BY <1>2, <1>3, <1>7, <2>1
<1>17. TypeOK'
  <2>1. rt' \in SUBSET Task /\ running' \in SUBSET Task
    BY <1>0, <1>2 DEF TypeOK
  <2> QED BY <1>0, <1>2, <1>9, <1>10, <1>11, <1>12, <1>13, <1>14, <1>16, <2>1 DEF TypeOK
<1>18. Executing'
  <2> SUFFICES ASSUME NEW x \in CPU, NEW u \in Task
               PROVE  /\ curr'[x] = u <=> stack_in_use'[u] = x
                      /\ curr'[x] = u => task_cpu[u] = x /\ u \in rt'
    BY <1>2 DEF Executing
  <2>1. CASE u = t
    BY <1>3, <1>11, <1>13, <2>1
  <2>2. CASE u # t
    <3>1. curr'[x] = u <=> curr[x] = u
      BY <1>3, <1>11, <2>2
    <3> QED BY <1>00, <1>13, <1>15, <2>2, <3>1 DEF Executing
  <2> QED BY <2>1, <2>2
<1>19. Following'
  <2> SUFFICES ASSUME NEW x \in CPU
               PROVE  /\ Deciding(x) => scheduled'[x] = curr'[x] /\ next[x] = NULL
                      /\ ~Deciding(x) => scheduled'[x] = next[x]
                      /\ phase[x] \in {"wait", "resim", "attach"} => next[x] # NULL
                      /\ phase[x] = "wait" => task_cpu[next[x]] # x
                      /\ phase[x] \in {"resim", "attach"} => stack_in_use'[next[x]] = NO_CPU
                      /\ phase[x] = "switch" /\ next[x] # NULL => task_cpu[next[x]] = x
    BY <1>2 DEF Following, Deciding
  <2>1. Deciding(x) => scheduled'[x] = curr'[x]
    BY <1>00, <1>5, <1>6, <1>10, <1>11 DEF Following
  <2>2. ~Deciding(x) => scheduled'[x] = scheduled[x]
    BY <1>2, <1>6, <1>10 DEF Deciding
  <2>3. phase[x] \in {"resim", "attach"} => stack_in_use'[next[x]] = NO_CPU
    <3> SUFFICES ASSUME phase[x] \in {"resim", "attach"} PROVE stack_in_use'[next[x]] = NO_CPU
      OBVIOUS
    <3>1. next[x] \in Task /\ stack_in_use[next[x]] = NO_CPU
      BY <1>0, <1>00 DEF Following, TypeOK
    <3> QED BY <1>13, <3>1
  <2> QED BY <1>00, <2>1, <2>2, <2>3 DEF Following
<1>20. InDomain'
  <2> SUFFICES ASSUME NEW x \in CPU, NEW u \in Task
               PROVE  /\ u \in ready[x] \/ u \in relq[x] \/ scheduled'[x] = u =>
                           job'[u].cpu = x /\ u \in rt'
                      /\ u \in ready[x] \/ u \in relq[x] => u \in running'
                      /\ scheduled'[x] = u /\ phase[x] # "sched" => u \in running'
                      /\ u \in ready[x] => u \notin relq[x] /\ scheduled'[x] # u
                      /\ u \in relq[x] => scheduled'[x] # u
                      /\ u \in ready[x] \/ scheduled'[x] = u => job'[u].release <= now
    BY <1>2, <1>9 DEF InDomain
  <2>1. CASE u = t
    BY <1>3, <1>8, <1>10, <2>1
  <2>2. CASE u # t
    <3>1. scheduled'[x] = u <=> scheduled[x] = u
      BY <1>3, <1>10, <2>2
    <3> QED BY <1>00, <1>14, <1>15, <2>2, <3>1 DEF InDomain
  <2> QED BY <2>1, <2>2
<1>21. HandOver'
  <2> SUFFICES ASSUME NEW y \in CPU, NEW u \in Task, hand[y] = u
               PROVE  /\ u \in rt' /\ u \in running'
                      /\ phase[y] \in {"run", "wait", "switch"}
                      /\ phase[y] # "run" => job'[u].cpu # y
                      /\ \A x \in CPU : /\ u \notin ready[x] /\ u \notin relq[x] /\ scheduled'[x] # u
                                        /\ hand[x] = u => y = x
    BY <1>2, <1>9 DEF HandOver
  <2>1. u # t
    BY <1>8
  <2> QED BY <1>00, <1>3, <1>10, <1>14, <1>15, <2>1 DEF HandOver
<1>22. Kept'
  <2>1. ASSUME NEW u \in Task, u \in rt', u \in running', Nowhere(u)'
        PROVE  \E x \in CPU : phase'[x] = "resim" /\ curr'[x] = u
    <3>1. u # t
      BY <1>15, <2>1
    <3>2. \A x \in CPU : scheduled[x] # u
      <4> TAKE x \in CPU
      <4>1. scheduled'[x] # u
        BY <2>1 DEF Nowhere
      <4> QED BY <1>10, <3>1, <4>1
    <3>3. Nowhere(u)
      BY <1>2, <1>9, <2>1, <3>2 DEF Nowhere
    <3>4. PICK x \in CPU : phase[x] = "resim" /\ curr[x] = u
      BY <1>00, <1>15, <2>1, <3>1, <3>3 DEF Kept
    <3> QED BY <1>2, <1>11, <3>1, <3>4
  <2>2. ASSUME NEW x \in CPU, phase'[x] = "resim"
        PROVE  curr'[x] \in rt' /\ curr'[x] \in running' /\ Nowhere(curr[x])'
    <3>1. PICK u : u = curr[x]
      OBVIOUS
    <3>2. u \in rt /\ u \in running /\ Nowhere(u) /\ u # t /\ u \in Task
      BY <1>0, <1>00, <1>2, <1>5, <2>2, <3>1 DEF Kept, TypeOK
    <3>3. Nowhere(u)'
      BY <1>2, <1>3, <1>9, <1>10, <3>2 DEF Nowhere
    <3>4. curr'[x] = u /\ u \in rt' /\ u \in running'
      BY <1>2, <1>11, <3>1, <3>2
    <3> QED BY <3>3, <3>4
  <2> QED BY <2>1, <2>2 DEF Kept
<1>23. JustBlocked'
  <2> SUFFICES ASSUME NEW x \in CPU, NEW u \in Task, curr'[x] = u, phase[x] # "run"
               PROVE  /\ u \notin running' \/ phase[x] = "resim" =>
                           job'[u].suspend_time = now /\ job'[u].cpu = x /\ job'[u].release <= now
                      /\ phase[x] = "wait" /\ ~was_running[x] /\ u \in running' => u \in ready[x]
    BY <1>2, <1>9 DEF JustBlocked
  <2>1. curr[x] = u /\ u # t
    BY <1>3, <1>11
  <2> QED BY <1>00, <1>14, <1>15, <2>1 DEF JustBlocked
<1>24. NoSpinDeadlock'
  <2>1. ASSUME NEW x \in CPU, NEW y \in CPU, SpinsOn(x, y)' PROVE SpinsOn(x, y)
    <3>1. phase[x] = "wait" /\ stack_in_use'[next[x]] = y
      BY <1>2, <2>1 DEF SpinsOn
    <3>2. next[x] \in Task
      BY <1>0, <1>00, <3>1 DEF Following, TypeOK
    <3> QED BY <1>3, <1>13, <3>1, <3>2 DEF SpinsOn
  <2> QED BY <1>00, <1>2, <2>1 DEF NoSpinDeadlock
<1>25. Clocks'
  <2>1. \A u \in Task : job'[u].suspend_time <= now
    BY <1>0, <1>3, <1>4, <1>14 DEF Clocks
  <2>2. \A x \in CPU : start'[x] <= now
    <3> TAKE x \in CPU
    <3>1. start[x] <= now /\ 0 <= now
      BY <1>0, <1>3 DEF Clocks
    <3> QED BY <1>12, <3>1
  <2> QED BY <1>0, <1>2, <2>1, <2>2 DEF Clocks
<1>26. Released'
  <2> SUFFICES ASSUME NEW u \in Task
               PROVE  /\ sync[u] # "done" => u \in rt' /\ u \in Synched
                      /\ sync[u] = "wait" => u \notin running'
                      /\ u \in rt' /\ u \notin running' => u \in Suspending \/ u \in Synched
                      /\ u \in rt' /\ u \in Synched /\ sync[u] = "done" => job'[u].no >= 2
    BY <1>2 DEF Released
  <2>1. CASE u = t
    BY <1>2, <1>15, <2>1
  <2>2. CASE u # t
    BY <1>0, <1>14, <1>15, <2>2 DEF Released
  <2> QED BY <2>1, <2>2
<1>27. Budgets'
  <2> SUFFICES ASSUME NEW u \in rt'
               PROVE  /\ Accounts(u, job'[u])
                      /\ \/ \E x \in CPU : scheduled'[x] = u /\ Deciding(x) /\ u \in running'
                         \/ Fresh(u, job'[u])
    BY <1>2 DEF Budgets, Deciding
  <2>1. u \in rt /\ u \in Task /\ u # t
    BY <1>2, <1>3
  <2>2. \A x \in CPU : scheduled[x] = u => scheduled'[x] = u
    BY <1>10, <2>1
  <2> QED BY <1>0, <1>14, <1>15, <2>1, <2>2 DEF Budgets
<1>28. Enforced'
  <2> SUFFICES ASSUME NEW x \in CPU, NEW u \in Task, curr'[x] = u
               PROVE  /\ phase[x] = "sched" => Within(u, job[u])'
                      /\ phase[x] = "run" /\ u \in Precise /\ job'[u].no >= 2 =>
                           \/ /\ timer[x] # NULL /\ now <= timer[x]
                              /\ timer[x] + job'[u].exec_time = start'[x] + job'[u].exec_cost
                           \/ /\ job'[u].exec_time + now <= start'[x] + job'[u].exec_cost
                              /\ u \in tif'
    BY <1>2 DEF Enforced
  <2>1. curr[x] = u /\ u # t
    BY <1>3, <1>11
  <2>2. job'[u] = job[u] /\ start'[x] = start[x] /\ (u \in tif => u \in tif')
    BY <1>12, <1>14, <1>16, <2>1
  <2> QED BY <1>0, <1>2, <2>1, <2>2 DEF Enforced, Within
<1>29. Requested'
  <2> SUFFICES ASSUME NEW x \in CPU, phase[x] # "sched"
               PROVE  \/ x \in ipi'
                      \/ phase[x] = "run" /\ Current(x)' \in tif'
                      \/ \A u \in ready[x] : edf_higher_prio(job, u, scheduled[x])' => u \in tif'
    BY <1>2, <1>9 DEF Requested
  <2>1. CASE curr[x] = t
    <3>1. x = e /\ e \in tif' /\ curr'[x] = NULL
      BY <1>5, <1>11, <1>16, <2>1
    <3>2. Current(x)' = x
      BY <3>1 DEF Current
    <3> QED BY <1>2, <3>1, <3>2
  <2>2. CASE curr[x] # t
    <3>1. Current(x)' = Current(x) /\ Current(x) # t
      <4>1. curr'[x] = curr[x] /\ Current(x) # t
        BY <1>0, <1>3, <1>11, <2>2, CurrentTyped
      <4> QED BY <4>1 DEF Current
    <3>2. \A u \in ready[x] : u \in Task /\ u # t
      BY <1>3, <1>8
    <3>3. ASSUME NEW u \in ready[x]
          PROVE  edf_higher_prio(job, u, scheduled[x])' => edf_higher_prio(job, u, scheduled[x])
      <4>1. scheduled'[x] = scheduled[x] /\ scheduled[x] # t /\ scheduled[x] \in Task \cup {NULL}
        BY <1>3, <1>5, <1>6, <1>10, <2>2
      <4> QED BY <1>3, <1>14, <1>15, <3>2, <4>1 DEF edf_higher_prio
    <3> QED BY <1>0, <1>16, <3>1, <3>2, <3>3 DEF Requested
  <2> QED BY <2>1, <2>2
<1> QED BY <1>9, <1>17, <1>18, <1>19, <1>20, <1>21, <1>22, <1>23, <1>24, <1>25, <1>26, <1>27, <1>28, <1>29
     DEF IInv

-----------------------------------------------------------------------------
(* The plugin's decision                                                   *)

\* The local definitions of plugin_schedule(c).
Complete(c) ==
  /\ \/ scheduled[c] \in Precise /\ out_of_budget(scheduled[c], job[scheduled[c]])
     \/ scheduled[c] # NULL /\ flags[scheduled[c]] = "SLEEP"
  /\ ~(scheduled[c] # NULL /\ scheduled[c] \notin running)

Resched(c) ==
  \/ edf_preemption_needed(job, ready[c], curr[c])
  \/ scheduled[c] # NULL /\ scheduled[c] \notin running
  \/ scheduled[c] # NULL /\ job[scheduled[c]].cpu # c
  \/ Complete(c)

After(c) ==
  IF Complete(c)
  THEN [job EXCEPT ![scheduled[c]] =
          job_or_slice_completion(scheduled[c], job[scheduled[c]],
                                  scheduled[c] # NULL /\ flags[scheduled[c]] = "SLEEP")]
  ELSE job

Goes(c) ==
  Resched(c) /\ scheduled[c] # NULL /\ ~(scheduled[c] # NULL /\ scheduled[c] \notin running)

Local(c) == Goes(c) /\ After(c)[scheduled[c]].cpu = c

Queue(c) ==
  IF Local(c) /\ is_released(After(c)[scheduled[c]]) THEN ready[c] \cup {scheduled[c]} ELSE ready[c]

Pick(c) ==
  IF ~Resched(c) /\ scheduled[c] # NULL THEN curr[c]
  ELSE IF Queue(c) = {} THEN NULL ELSE first_ready(After(c), Queue(c))

\* plugin_schedule(c) in these terms.
LEMMA Unfold ==
  ASSUME NEW c, plugin_schedule(c)
  PROVE  /\ phase[c] = "sched" /\ job' = After(c)
         /\ ready' = [ready EXCEPT ![c] = IF Resched(c) \/ ~(scheduled[c] # NULL) THEN Queue(c) \ {Pick(c)} ELSE Queue(c)]
         /\ relq' = (IF Local(c) /\ ~is_released(After(c)[scheduled[c]])
                     THEN [relq EXCEPT ![c] = @ \cup {scheduled[c]}] ELSE relq)
         /\ flags' = [u \in Task |-> IF u = Pick(c) \/ (u = scheduled[c] /\ Local(c)) THEN "RUNNING" ELSE flags[u]]
         /\ preempt(Queue(c) # ready[c] /\ edf_preemption_needed(After(c), Queue(c), scheduled[c]), c, c)
         /\ scheduled' = [scheduled EXCEPT ![c] = Pick(c)]
         /\ hand' = [hand EXCEPT ![c] = IF Goes(c) /\ ~Local(c) THEN scheduled[c] ELSE NULL]
         /\ next' = [next EXCEPT ![c] = Pick(c)]
         /\ was_running' = [was_running EXCEPT ![c] = curr[c] \in running]
         /\ phase' = [phase EXCEPT ![c] = IF Pick(c) # NULL /\ task_cpu[Pick(c)] # c THEN "wait" ELSE "switch"]
         /\ panic' = (panic \/ ((\/ scheduled[c] # NULL /\ scheduled[c] # curr[c]
                                 \/ scheduled[c] # NULL /\ scheduled[c] \notin rt
                                 \/ (Complete(c) \/ Local(c)) /\ is_queued(scheduled[c]))))
         /\ UNCHANGED <<plugin, taskVars, curr, task_cpu, stack_in_use, clockVars, ipi>>
BY ZenonT(60) DEF plugin_schedule, Complete, Resched, After, Goes, Local, Queue, Pick, BugOn

\* Where the task p that was scheduled on c goes, and which task n is scheduled
\* instead of it: the first of the queue Q, or p again.
Ways == {"off", "stays", "ready", "relq", "hand"}

Leaves(c, p, Q, way) ==
  /\ way \in Ways /\ (way # "off" <=> p \in Task /\ p \in running)
  /\ Q = IF way = "ready" THEN ready[c] \cup {p} ELSE ready[c]
  /\ way = "ready" => job'[p].cpu = c /\ job'[p].release <= now
  /\ way = "relq" => job'[p].cpu = c
  /\ way = "hand" => job'[p].cpu # c
  /\ way = "stays" => job' = job /\ \A u \in ready[c] : ~edf_higher_prio(job, u, p)

Follows(n, p, Q, way) ==
  \/ way = "stays" /\ n = p
  \/ way # "stays" /\ n = NULL /\ Q = {}
  \/ way # "stays" /\ n \in Q /\ \A u \in Q : u # n => ~edf_higher_prio(job', u, n)

Renews(p) ==
  /\ job' \in [Task -> Job] /\ \A u \in Task : u # p => job'[u] = job[u]
  /\ p \in Task => Renewed(p, job[p], job'[p])
  /\ p \notin running => job' = job

Decided(c, p, n, Q, way) ==
  /\ Leaves(c, p, Q, way) /\ Follows(n, p, Q, way) /\ Renews(p)
  /\ \A x \in CPU : ready'[x] = IF x = c THEN Q \ {n} ELSE ready[x]
  /\ \A x \in CPU : relq'[x] = IF x = c /\ way = "relq" THEN relq[x] \cup {p} ELSE relq[x]
  /\ \A x \in CPU : hand'[x] = IF x = c THEN (IF way = "hand" THEN p ELSE NULL) ELSE hand[x]
  /\ \A x \in CPU : scheduled'[x] = IF x = c THEN n ELSE scheduled[x]
  /\ \A x \in CPU : next'[x] = IF x = c THEN n ELSE next[x]
  /\ \A x \in CPU : x # c => was_running'[x] = was_running[x]
  /\ was_running'[c] <=> p \in running
  /\ \A x \in CPU : phase'[x] = IF x = c THEN (IF n # NULL /\ task_cpu[n] # c THEN "wait" ELSE "switch") ELSE phase[x]
  /\ tif \subseteq tif'
  /\ UNCHANGED <<plugin, taskVars, curr, task_cpu, stack_in_use, clockVars, ipi>>

\* The decision keeps tasks in their places.
LEMMA DecidedWhereabouts ==
  ASSUME TypeOK, TypeOK', Whereabouts, NEW c \in CPU, NEW p, NEW n, NEW Q, NEW way,
         phase[c] = "sched", p = scheduled[c], Decided(c, p, n, Q, way)
  PROVE  Whereabouts'
<1>0. Executing /\ Following /\ InDomain /\ HandOver /\ Kept /\ JustBlocked /\ NoSpinDeadlock
  BY DEF Whereabouts
<1>1. /\ p = curr[c] /\ p \in Task \cup {NULL} /\ NULL \notin Task /\ NO_CPU \notin CPU /\ hand[c] = NULL
      /\ ready[c] \subseteq Task
  <2>1. p = curr[c]
    BY <1>0 DEF Following, Deciding
  <2>2. p \in Task \cup {NULL} /\ ready[c] \subseteq Task /\ hand[c] \in Task \cup {NULL}
    BY DEF TypeOK
  <2>3. \A u \in Task : hand[c] # u
    BY <1>0 DEF HandOver
  <2> QED BY <2>1, <2>2, <2>3, ConstantsAssumption
<1>2. /\ \A x \in CPU : ready'[x] = IF x = c THEN Q \ {n} ELSE ready[x]
      /\ \A x \in CPU : relq'[x] = IF x = c /\ way = "relq" THEN relq[x] \cup {p} ELSE relq[x]
      /\ \A x \in CPU : hand'[x] = IF x = c THEN (IF way = "hand" THEN p ELSE NULL) ELSE hand[x]
      /\ \A x \in CPU : scheduled'[x] = IF x = c THEN n ELSE scheduled[x]
      /\ \A x \in CPU : next'[x] = IF x = c THEN n ELSE next[x]
      /\ \A x \in CPU : x # c => was_running'[x] = was_running[x]
      /\ was_running'[c] <=> p \in running
  BY DEF Decided
<1>3. /\ \A x \in CPU : x # c => phase'[x] = phase[x]
      /\ phase'[c] = IF n # NULL /\ task_cpu[n] # c THEN "wait" ELSE "switch"
      /\ UNCHANGED <<plugin, taskVars, curr, task_cpu, stack_in_use, clockVars, ipi>>
  BY DEF Decided
<1>4. /\ way \in {"off", "stays", "ready", "relq", "hand"} /\ (way # "off" <=> p \in Task /\ p \in running)
      /\ Q = IF way = "ready" THEN ready[c] \cup {p} ELSE ready[c]
      /\ way = "ready" => job'[p].cpu = c /\ job'[p].release <= now
      /\ way = "relq" => job'[p].cpu = c
      /\ way = "hand" => job'[p].cpu # c
      /\ way = "stays" => job' = job
  BY DEF Decided, Leaves, Ways
<1>5. /\ \A u \in Task : u # p => job'[u] = job[u]
      /\ p \in Task => job'[p].suspend_time = job[p].suspend_time
      /\ p \notin running => job' = job
  BY DEF Decided, Renews, Renewed
<1>6. p \in Task => /\ p \in rt /\ job[p].cpu = c /\ job[p].release <= now /\ task_cpu[p] = c
                    /\ \A x \in CPU : /\ p \notin ready[x] /\ p \notin relq[x] /\ hand[x] # p
                                      /\ x # c => scheduled[x] # p /\ curr[x] # p
  <2> SUFFICES ASSUME p \in Task
               PROVE  /\ p \in rt /\ job[p].cpu = c /\ job[p].release <= now /\ task_cpu[p] = c
                      /\ \A x \in CPU : /\ p \notin ready[x] /\ p \notin relq[x] /\ hand[x] # p
                                        /\ x # c => scheduled[x] # p /\ curr[x] # p
    OBVIOUS
  <2>1. p \in rt /\ job[p].cpu = c /\ job[p].release <= now
    BY <1>0 DEF InDomain
  <2>2. task_cpu[p] = c /\ \A x \in CPU : x # c => curr[x] # p
    BY <1>0, <1>1 DEF Executing
  <2>3. \A x \in CPU : p \notin ready[x] /\ p \notin relq[x] /\ hand[x] # p
    BY <1>0, NotQueued
  <2>4. \A x \in CPU : x # c => scheduled[x] # p
    BY <1>0, PickedOnce
  <2> QED BY <2>1, <2>2, <2>3, <2>4
<1>7. \/ n = NULL /\ Q = {} /\ way # "stays"
      \/ n = p /\ p \in Task /\ way \in {"ready", "stays"}
      \/ n \in Task /\ n \in ready[c] /\ n # p /\ way # "stays"
  BY <1>1, <1>4, <1>6 DEF Decided, Follows
<1>8. n # NULL => /\ n \in Task /\ n \in rt /\ n \in running /\ job'[n].cpu = c /\ job'[n].release <= now
                  /\ \A x \in CPU : /\ n \notin ready'[x] /\ n \notin relq'[x] /\ hand'[x] # n
                                    /\ x # c => scheduled[x] # n
  <2>1. CASE n = p /\ p \in Task /\ way \in {"ready", "stays"}
    <3>1. n \in rt /\ n \in running /\ job'[n].cpu = c /\ job'[n].release <= now
      BY <1>4, <1>6, <2>1
    <3>2. ASSUME NEW x \in CPU PROVE n \notin ready'[x] /\ n \notin relq'[x] /\ hand'[x] # n
      <4>1. CASE x = c
        <5>1. ready'[x] = Q \ {n} /\ relq'[x] = relq[x] /\ hand'[x] = NULL
          BY <1>2, <2>1, <4>1
        <5> QED BY <1>1, <1>6, <2>1, <5>1
      <4>2. CASE x # c
        BY <1>2, <1>6, <2>1, <4>2
      <4> QED BY <4>1, <4>2
    <3> QED BY <1>6, <2>1, <3>1, <3>2
  <2>2. CASE n \in Task /\ n \in ready[c] /\ n # p
    <3>1. n \in rt /\ n \in running /\ job[n].cpu = c /\ job[n].release <= now /\ job'[n] = job[n]
      BY <1>0, <1>5, <2>2 DEF InDomain
    <3>2. ASSUME NEW x \in CPU PROVE n \notin relq[x] /\ hand[x] # n /\ (x # c => n \notin ready[x] /\ scheduled[x] # n)
      BY <1>0, <2>2, <3>1 DEF InDomain, HandOver
    <3>3. ASSUME NEW x \in CPU PROVE n \notin ready'[x] /\ n \notin relq'[x] /\ hand'[x] # n
      <4>1. CASE x = c
        <5>1. ready'[x] = Q \ {n} /\ (relq'[x] = relq[x] \/ relq'[x] = relq[x] \cup {p})
              /\ (hand'[x] = p \/ hand'[x] = NULL)
          BY <1>2, <4>1
        <5> QED BY <1>1, <2>2, <3>2, <5>1
      <4>2. CASE x # c
        BY <1>2, <3>2, <4>2
      <4> QED BY <4>1, <4>2
    <3> QED BY <2>2, <3>1, <3>2, <3>3
  <2> QED BY <1>1, <1>7, <2>1, <2>2
<1>9. Executing'
  BY <1>0, <1>3 DEF Executing
<1>10. Following'
  <2> SUFFICES ASSUME NEW x \in CPU
               PROVE  /\ Deciding(x)' => scheduled'[x] = curr[x] /\ next'[x] = NULL
                      /\ ~Deciding(x)' => scheduled'[x] = next'[x]
                      /\ phase'[x] \in {"wait", "resim", "attach"} => next'[x] # NULL
                      /\ phase'[x] = "wait" => task_cpu[next'[x]] # x
                      /\ phase'[x] \in {"resim", "attach"} => stack_in_use[next'[x]] = NO_CPU
                      /\ phase'[x] = "switch" /\ next'[x] # NULL => task_cpu[next'[x]] = x
    BY <1>3 DEF Following
  <2>1. CASE x = c
    BY <1>2, <1>3, <2>1 DEF Deciding
  <2>2. CASE x # c
    BY <1>0, <1>2, <1>3, <2>2 DEF Following, Deciding
  <2> QED BY <2>1, <2>2
<1>11. ASSUME NEW x \in CPU, NEW u \in Task, u # p, u # n
       PROVE  /\ u \in ready'[x] <=> u \in ready[x]
              /\ u \in relq'[x] <=> u \in relq[x]
              /\ hand'[x] = u <=> hand[x] = u
              /\ scheduled'[x] = u <=> scheduled[x] = u
  <2>1. CASE x = c
    <3>1. ready'[x] = Q \ {n} /\ (Q = ready[x] \cup {p} \/ Q = ready[x])
      BY <1>2, <1>4, <2>1
    <3>2. relq'[x] = relq[x] \/ relq'[x] = relq[x] \cup {p}
      BY <1>2, <2>1
    <3>3. (hand'[x] = p \/ hand'[x] = NULL) /\ hand[x] = NULL /\ scheduled'[x] = n /\ scheduled[x] = p
      BY <1>1, <1>2, <2>1
    <3> QED BY <1>1, <1>11, <3>1, <3>2, <3>3
  <2>2. CASE x # c
    BY <1>2, <2>2
  <2> QED BY <2>1, <2>2
<1>12. ASSUME NEW x \in CPU, p \in Task, p # n
       PROVE  /\ p \in ready'[x] <=> x = c /\ way = "ready"
              /\ p \in relq'[x] <=> x = c /\ way = "relq"
              /\ hand'[x] = p <=> x = c /\ way = "hand"
              /\ scheduled'[x] # p
  <2>0. p \notin ready[x] /\ p \notin relq[x] /\ hand[x] # p /\ (x # c => scheduled[x] # p) /\ p # NULL
    BY <1>1, <1>6, <1>12
  <2>1. CASE x = c
    <3>1. p \in ready'[x] <=> way = "ready"
      <4>1. ready'[x] = Q \ {n}
        BY <1>2, <2>1
      <4>2. p \in Q <=> way = "ready"
        BY <1>4, <2>0, <2>1
      <4> QED BY <1>12, <4>1, <4>2
    <3>2. p \in relq'[x] <=> way = "relq"
      BY <1>2, <2>0, <2>1
    <3>3. (hand'[x] = p <=> way = "hand") /\ scheduled'[x] # p
      BY <1>2, <1>12, <2>0, <2>1
    <3> QED BY <2>1, <3>1, <3>2, <3>3
  <2>2. CASE x # c
    BY <1>2, <2>0, <2>2
  <2> QED BY <2>1, <2>2
<1>13. InDomain'
  <2> SUFFICES ASSUME NEW x \in CPU, NEW u \in Task
               PROVE  /\ u \in ready'[x] \/ u \in relq'[x] \/ scheduled'[x] = u =>
                           job'[u].cpu = x /\ u \in rt
                      /\ u \in ready'[x] \/ u \in relq'[x] => u \in running
                      /\ scheduled'[x] = u /\ phase'[x] # "sched" => u \in running
                      /\ u \in ready'[x] => u \notin relq'[x] /\ scheduled'[x] # u
                      /\ u \in relq'[x] => scheduled'[x] # u
                      /\ u \in ready'[x] \/ scheduled'[x] = u => job'[u].release <= now
    BY <1>3 DEF InDomain
  <2>1. CASE u = n
    BY <1>1, <1>2, <1>8, <2>1
  <2>2. CASE u # n /\ u = p
    BY <1>4, <1>6, <1>12, <2>2
  <2>3. CASE u # n /\ u # p
    <3>1. scheduled[x] = u => x # c
      BY <2>3
    <3> QED BY <1>0, <1>3, <1>5, <1>11, <2>3, <3>1 DEF InDomain
  <2> QED BY <2>1, <2>2, <2>3
<1>14. HandOver'
  <2> SUFFICES ASSUME NEW y \in CPU, NEW u \in Task, hand'[y] = u
               PROVE  /\ u \in rt /\ u \in running
                      /\ phase'[y] \in {"run", "wait", "switch"}
                      /\ phase'[y] # "run" => job'[u].cpu # y
                      /\ \A x \in CPU : /\ u \notin ready'[x] /\ u \notin relq'[x] /\ scheduled'[x] # u
                                        /\ hand'[x] = u => y = x
    BY <1>3 DEF HandOver
  <2>1. u # n
    BY <1>1, <1>8
  <2>2. CASE u = p
    <3>1. y = c /\ way = "hand"
      BY <1>12, <2>1, <2>2
    <3> QED BY <1>3, <1>4, <1>6, <1>12, <2>1, <2>2, <3>1
  <2>3. CASE u # p
    <3>1. hand[y] = u /\ y # c
      BY <1>1, <1>11, <2>1, <2>3
    <3> QED BY <1>0, <1>3, <1>5, <1>11, <2>1, <2>3, <3>1 DEF HandOver
  <2> QED BY <2>2, <2>3
<1>15. Kept'
  <2>1. ASSUME NEW u \in Task, u \in rt', u \in running', Nowhere(u)'
        PROVE  \E x \in CPU : phase'[x] = "resim" /\ curr'[x] = u
    <3>1. u # n
      BY <1>2, <2>1 DEF Nowhere
    <3>2. u # p
      <4> SUFFICES ASSUME u = p PROVE FALSE
        OBVIOUS
      <4>1. way \in {"stays", "ready", "relq", "hand"}
        BY <1>3, <1>4, <2>1
      <4>2. way # "stays"
        BY <1>7, <2>1, <3>1, <4>1
      <4>3. p \notin ready'[c] /\ p \notin relq'[c] /\ hand'[c] # p
        BY <2>1 DEF Nowhere
      <4> QED BY <1>12, <2>1, <3>1, <4>1, <4>2, <4>3
    <3>3. Nowhere(u)
      BY <1>11, <2>1, <3>1, <3>2 DEF Nowhere
    <3>4. PICK x \in CPU : phase[x] = "resim" /\ curr[x] = u
      BY <1>0, <1>3, <2>1, <3>3 DEF Kept
    <3> QED BY <1>3, <3>4
  <2>2. ASSUME NEW x \in CPU, phase'[x] = "resim"
        PROVE  curr'[x] \in rt' /\ curr'[x] \in running' /\ Nowhere(curr[x])'
    <3>1. PICK u : u = curr[x]
      OBVIOUS
    <3>2. x # c /\ phase[x] = "resim"
      BY <1>3, <2>2
    <3>3. u \in rt /\ u \in running /\ Nowhere(u) /\ u \in Task
      BY <1>0, <3>1, <3>2 DEF Kept, TypeOK
    <3>4. u # p /\ u # n
      BY <1>1, <1>7, <3>3 DEF Nowhere
    <3>5. Nowhere(u)'
      BY <1>11, <3>3, <3>4 DEF Nowhere
    <3> QED BY <1>3, <3>1, <3>3, <3>5
  <2> QED BY <2>1, <2>2 DEF Kept
<1>16. JustBlocked'
  <2> SUFFICES ASSUME NEW x \in CPU, NEW u \in Task, curr[x] = u, phase'[x] # "run"
               PROVE  /\ u \notin running \/ phase'[x] = "resim" =>
                           job'[u].suspend_time = now /\ job'[u].cpu = x /\ job'[u].release <= now
                      /\ phase'[x] = "wait" /\ ~was_running'[x] /\ u \in running => u \in ready'[x]
    BY <1>3 DEF JustBlocked
  <2>1. CASE x = c
    <3>1. u = p /\ phase'[x] # "resim"
      BY <1>1, <1>3, <2>1
    <3>2. u \notin running => job[u].suspend_time = now /\ job[u].cpu = x /\ job[u].release <= now
      BY <1>0, <2>1 DEF JustBlocked
    <3> QED BY <1>2, <1>5, <2>1, <3>1, <3>2
  <2>2. CASE x # c
    <3>1. u # p /\ phase'[x] = phase[x] /\ ready'[x] = ready[x] /\ was_running'[x] = was_running[x]
      BY <1>2, <1>3, <1>6, <2>2
    <3> QED BY <1>0, <1>5, <3>1 DEF JustBlocked
  <2> QED BY <2>1, <2>2
<1>17. NoSpinDeadlock'
  <2> SUFFICES ASSUME NEW x \in CPU, NEW y \in CPU, SpinsOn(x, y)'
               PROVE  phase'[y] \in {"wait", "resim", "attach", "switch"} /\ ~SpinsOn(y, x)'
    BY DEF NoSpinDeadlock
  <2>1. phase'[x] = "wait" /\ stack_in_use[next'[x]] = y
    BY <1>3 DEF SpinsOn
  <2>2. CASE x = c
    <3>1. n # NULL /\ n \in Task /\ task_cpu[n] # c /\ stack_in_use[n] = y
      BY <1>2, <1>3, <1>8, <2>1, <2>2
    <3>2. curr[y] = n /\ task_cpu[n] = y /\ y # c
      BY <1>0, <3>1 DEF Executing
    <3>3. ~Deciding(y)
      BY <1>0, <1>8, <3>1, <3>2 DEF Following
    <3>4. phase'[y] \in {"wait", "resim", "attach", "switch"}
      BY <1>3, <3>2, <3>3 DEF TypeOK, Deciding
    <3>5. ASSUME SpinsOn(y, x)' PROVE FALSE
      <4>1. phase[y] = "wait" /\ stack_in_use[next[y]] = c
        BY <1>2, <1>3, <2>2, <3>2, <3>5 DEF SpinsOn
      <4>2. next[y] \in Task /\ scheduled[y] = next[y]
        BY <1>0, <3>3, <4>1 DEF Following, TypeOK
      <4>3. curr[c] = next[y]
        BY <1>0, <4>1, <4>2 DEF Executing
      <4> QED BY <1>1, <1>6, <3>2, <4>2, <4>3
    <3> QED BY <3>4, <3>5
  <2>3. CASE x # c
    <3>1. SpinsOn(x, y)
      BY <1>2, <1>3, <2>1, <2>3 DEF SpinsOn
    <3>2. y # c /\ phase[y] \in {"wait", "resim", "attach", "switch"} /\ ~SpinsOn(y, x)
      BY <1>0, <3>1 DEF NoSpinDeadlock
    <3> QED BY <1>2, <1>3, <3>2 DEF SpinsOn
  <2> QED BY <2>2, <2>3
<1> QED BY <1>9, <1>10, <1>13, <1>14, <1>15, <1>16, <1>17 DEF Whereabouts

\* And everything else.
LEMMA DecidedStep ==
  ASSUME IInv, TypeOK', ~panic', NEW c \in CPU, NEW p, NEW n, NEW Q, NEW way,
         phase[c] = "sched", p = scheduled[c], Decided(c, p, n, Q, way)
  PROVE  IInv'
<1>0. TypeOK /\ ~panic /\ Whereabouts /\ Clocks /\ Released /\ Budgets /\ Enforced /\ Requested
  BY DEF IInv, Whereabouts
<1>00. Executing /\ Following /\ InDomain /\ HandOver
  BY DEF IInv
<1>1. p = curr[c] /\ p \in Task \cup {NULL} /\ NULL \notin Task /\ rt \subseteq Task
  BY <1>0, <1>00, ConstantsAssumption DEF Following, Deciding, TypeOK
<1>2. /\ \A x \in CPU : ready'[x] = IF x = c THEN Q \ {n} ELSE ready[x]
      /\ \A x \in CPU : scheduled'[x] = IF x = c THEN n ELSE scheduled[x]
      /\ \A x \in CPU : x # c => phase'[x] = phase[x]
      /\ phase'[c] \in {"wait", "switch"} /\ tif \subseteq tif'
      /\ UNCHANGED <<plugin, taskVars, curr, task_cpu, stack_in_use, clockVars, ipi>>
  BY DEF Decided
<1>3. /\ \A u \in Task : u # p => job'[u] = job[u]
      /\ p \in Task => Renewed(p, job[p], job'[p])
  BY DEF Decided, Renews
<1>4. p \in Task => \A x \in CPU : x # c => scheduled[x] # p /\ curr[x] # p /\ p \notin ready[x]
  <2> SUFFICES ASSUME p \in Task, NEW x \in CPU, x # c
               PROVE  scheduled[x] # p /\ curr[x] # p /\ p \notin ready[x]
    OBVIOUS
  <2>1. scheduled[x] # p
    BY <1>0, <1>00, PickedOnce
  <2>2. p \notin ready[x]
    BY <1>0, <1>00, NotQueued
  <2>3. curr[x] # p
    BY <1>00, <1>1 DEF Executing
  <2> QED BY <2>1, <2>2, <2>3
<1>5. Whereabouts'
  BY <1>0, DecidedWhereabouts
<1>6. Clocks'
  <2>1. \A u \in Task : job'[u].suspend_time = job[u].suspend_time
    BY <1>3 DEF Renewed
  <2> QED BY <1>0, <1>2, <2>1 DEF Clocks
<1>7. Released'
  <2>1. ASSUME NEW u \in Task PROVE job[u].no >= 2 => job'[u].no >= 2
    <3>1. job[u] \in Job /\ job'[u] \in Job
      BY <1>0 DEF TypeOK
    <3>2. job[u].no \in Nat /\ job'[u].no \in Nat
      BY <3>1, JobFields DEF JOB_CAP
    <3> QED BY <1>3, <3>2 DEF Renewed
  <2> QED BY <1>0, <1>2, <2>1 DEF Released
<1>8. Budgets'
  <2> SUFFICES ASSUME NEW u \in rt
               PROVE  /\ Accounts(u, job'[u])
                      /\ \/ \E x \in CPU : scheduled'[x] = u /\ Deciding(x)' /\ u \in running
                         \/ Fresh(u, job'[u])
    BY <1>2 DEF Budgets
  <2>1. CASE u = p
    BY <1>1, <1>3, <2>1 DEF Renewed
  <2>2. CASE u # p
    <3>1. \A x \in CPU : scheduled[x] = u /\ Deciding(x) => scheduled'[x] = u /\ Deciding(x)'
      BY <1>2, <2>2 DEF Deciding
    <3> QED BY <1>0, <1>1, <1>3, <2>2, <3>1 DEF Budgets
  <2> QED BY <2>1, <2>2
<1>9. Enforced'
  <2> SUFFICES ASSUME NEW x \in CPU, NEW u \in Task, curr[x] = u, phase'[x] \in {"run", "sched"}
               PROVE  /\ phase'[x] = "sched" => Within(u, job[u])'
                      /\ phase'[x] = "run" /\ u \in Precise /\ job'[u].no >= 2 =>
                           \/ /\ timer[x] # NULL /\ now <= timer[x]
                              /\ timer[x] + job'[u].exec_time = start[x] + job'[u].exec_cost
                           \/ /\ job'[u].exec_time + now <= start[x] + job'[u].exec_cost
                              /\ u \in tif'
    BY <1>2 DEF Enforced
  <2>1. x # c /\ phase'[x] = phase[x]
    BY <1>2
  <2>2. job'[u] = job[u]
    BY <1>3, <1>4, <2>1
  <2> QED BY <1>0, <1>2, <2>1, <2>2 DEF Enforced, Within
<1>10. Requested'
  <2> SUFFICES ASSUME NEW x \in CPU, phase'[x] # "sched"
               PROVE  \/ x \in ipi
                      \/ phase'[x] = "run" /\ Current(x) \in tif'
                      \/ \A u \in ready'[x] : edf_higher_prio(job', u, scheduled'[x]) => u \in tif'
    BY <1>2 DEF Requested, Current, edf_higher_prio
  <2>1. CASE x = c
    <3> SUFFICES ASSUME NEW u \in Q, u # n PROVE ~edf_higher_prio(job', u, n)
      BY <1>2, <2>1
    <3> QED BY DEF Decided, Leaves, Follows
  <2>2. CASE x # c
    <3>1. ASSUME NEW u \in ready[x]
          PROVE  edf_higher_prio(job', u, scheduled[x]) <=> edf_higher_prio(job, u, scheduled[x])
      <4>1. u \in Task /\ u # p /\ scheduled[x] \in Task \cup {NULL} /\ (scheduled[x] \in Task => scheduled[x] # p)
        BY <1>0, <1>4, <2>2 DEF TypeOK
      <4> QED BY <1>1, <1>3, <4>1 DEF edf_higher_prio
    <3> QED BY <1>0, <1>2, <2>2, <3>1 DEF Requested
  <2> QED BY <2>1, <2>2
<1> QED BY <1>5, <1>6, <1>7, <1>8, <1>9, <1>10 DEF IInv, Whereabouts

\* The plugin decides in that way, without a BUG().
LEMMA PluginScheduleStep ==
  ASSUME IInv, NEW c \in CPU, plugin_schedule(c)
  PROVE  IInv'
<1>0. TypeOK /\ ~panic /\ Budgets /\ Enforced
  BY DEF IInv
<1>00. Executing /\ Following /\ InDomain /\ HandOver
  BY DEF IInv
<1>1. PICK p, js, Q, n : p = scheduled[c] /\ js = After(c) /\ Q = Queue(c) /\ n = Pick(c)
  OBVIOUS
<1>2. /\ phase[c] = "sched" /\ job' = js
      /\ ready' = [ready EXCEPT ![c] = IF Resched(c) \/ ~(p # NULL) THEN Q \ {n} ELSE Q]
      /\ relq' = (IF Local(c) /\ ~is_released(js[p]) THEN [relq EXCEPT ![c] = relq[c] \cup {p}] ELSE relq)
      /\ flags' = [u \in Task |-> IF u = n \/ (u = p /\ Local(c)) THEN "RUNNING" ELSE flags[u]]
      /\ \E need : preempt(need, c, c)
      /\ scheduled' = [scheduled EXCEPT ![c] = n]
      /\ hand' = [hand EXCEPT ![c] = IF Goes(c) /\ ~Local(c) THEN p ELSE NULL]
      /\ next' = [next EXCEPT ![c] = n]
      /\ was_running' = [was_running EXCEPT ![c] = curr[c] \in running]
      /\ phase' = [phase EXCEPT ![c] = IF n # NULL /\ task_cpu[n] # c THEN "wait" ELSE "switch"]
      /\ panic' = (panic \/ ((\/ p # NULL /\ p # curr[c]
                              \/ p # NULL /\ p \notin rt
                              \/ (Complete(c) \/ Local(c)) /\ is_queued(p))))
      /\ UNCHANGED <<plugin, taskVars, curr, task_cpu, stack_in_use, clockVars, ipi>>
  BY <1>1, Unfold
<1>3. /\ p = curr[c] /\ p \in Task \cup {NULL} /\ NULL \notin Task /\ Precise \subseteq Task
      /\ ready \in [CPU -> SUBSET Task] /\ relq \in [CPU -> SUBSET Task] /\ job \in [Task -> Job]
      /\ plugin \in Plugins /\ rt \subseteq Task
  <2>1. p = curr[c]
    BY <1>00, <1>1, <1>2 DEF Following, Deciding
  <2> QED BY <1>0, <1>1, <2>1, ConstantsAssumption DEF TypeOK
<1>4. p \in Task => p \in rt /\ job[p].cpu = c /\ ~is_queued(p) /\ job[p] \in Job
                    /\ \A x \in CPU : p \notin ready[x] /\ p \notin relq[x]
  BY <1>0, <1>00, <1>1, <1>3, PickedOnce, NotQueued
<1>5. ~panic' /\ panic' \in BOOLEAN
  <2>1. p = NULL => ~Complete(c) /\ ~Local(c)
    BY <1>1, <1>3 DEF Complete, Local, Goes
  <2>2. ~(\/ p # NULL /\ p # curr[c]
          \/ p # NULL /\ p \notin rt
          \/ (Complete(c) \/ Local(c)) /\ is_queued(p))
    BY <1>3, <1>4, <2>1
  <2> QED BY <1>0, <1>2, <2>2
\* What becomes of the job.
<1>6. Renews(p) /\ js \in [Task -> Job]
  <2>1. CASE Complete(c)
    <3>1. /\ p \in Task /\ p \in running
          /\ (p \in Precise /\ out_of_budget(p, job[p])) \/ (p # NULL /\ flags[p] = "SLEEP")
      BY <1>1, <1>3, <2>1 DEF Complete
    <3>2. PICK signaled : signaled = (p # NULL /\ flags[p] = "SLEEP")
      OBVIOUS
    <3>3. PICK k : k = job_or_slice_completion(p, job[p], signaled)
      OBVIOUS
    <3>4. js = [job EXCEPT ![p] = k]
      BY <1>1, <2>1, <3>2, <3>3 DEF After
    <3>5. Accounts(p, job[p]) /\ Within(p, job[p])
      BY <1>0, <1>2, <1>3, <1>4, <3>1 DEF Budgets, Enforced
    <3>6. signaled \/ out_of_budget(p, job[p])
      BY <3>1, <3>2
    <3>7. Renewed(p, job[p], k)
      BY <1>3, <1>4, <3>1, <3>3, <3>5, <3>6, CompletionFacts
    <3>8. k \in Job
      BY <3>7 DEF Renewed
    <3>9. js \in [Task -> Job] /\ js[p] = k /\ \A u \in Task : u # p => js[u] = job[u]
      BY <1>3, <3>1, <3>4, <3>8
    <3> QED BY <1>2, <3>1, <3>7, <3>9 DEF Renews
  <2>2. CASE ~Complete(c)
    <3>1. js = job
      BY <1>1, <2>2 DEF After
    <3>2. ASSUME p \in Task PROVE Renewed(p, job[p], job[p])
      <4>1. Accounts(p, job[p]) /\ job[p] \in Job
        BY <1>0, <1>4, <3>2 DEF Budgets
      <4>2. job[p].no \in Nat
        BY <4>1, JobFields DEF JOB_CAP
      <4>3. CASE p \in running
        <5>1. Fresh(p, job[p])
          BY <1>1, <2>2, <4>3 DEF Complete, Fresh
        <5> QED BY <4>1, <4>2, <5>1 DEF Renewed
      <4>4. CASE p \notin running
        <5>1. Fresh(p, job[p])
          BY <1>0, <1>4, <3>2, <4>4 DEF Budgets
        <5> QED BY <4>1, <4>2, <5>1 DEF Renewed
      <4> QED BY <4>3, <4>4
    <3> QED BY <1>2, <1>3, <3>1, <3>2 DEF Renews
  <2> QED BY <2>1, <2>2
\* Where the task goes.
<1>7. PICK way : way = IF ~(p \in Task /\ p \in running) THEN "off"
                       ELSE IF ~Resched(c) THEN "stays"
                       ELSE IF js[p].cpu # c THEN "hand"
                       ELSE IF is_released(js[p]) THEN "ready" ELSE "relq"
  OBVIOUS
<1>8. /\ way \in Ways /\ (way # "off" <=> p \in Task /\ p \in running)
      /\ way # "off" /\ way # "stays" <=> Goes(c)
      /\ way = "ready" \/ way = "relq" <=> Local(c)
      /\ way = "ready" <=> Local(c) /\ is_released(js[p])
      /\ way = "relq" <=> Local(c) /\ ~is_released(js[p])
      /\ way = "hand" <=> Goes(c) /\ ~Local(c)
      /\ way = "stays" => ~Resched(c) /\ p # NULL
      /\ way # "stays" => Resched(c) \/ p = NULL
  <2>1. Goes(c) <=> Resched(c) /\ p \in Task /\ p \in running
    BY <1>1, <1>3 DEF Goes
  <2>2. Local(c) <=> Goes(c) /\ js[p].cpu = c
    BY <1>1 DEF Local
  <2>3. p \in Task /\ p \notin running => Resched(c)
    BY <1>1, <1>3 DEF Resched
  <2>4. CASE ~(p \in Task /\ p \in running)
    BY <1>3, <1>7, <2>1, <2>2, <2>3, <2>4 DEF Ways
  <2>5. CASE p \in Task /\ p \in running /\ ~Resched(c)
    BY <1>3, <1>7, <2>1, <2>2, <2>5 DEF Ways
  <2>6. CASE p \in Task /\ p \in running /\ Resched(c) /\ js[p].cpu # c
    BY <1>3, <1>7, <2>1, <2>2, <2>6 DEF Ways
  <2>7. CASE p \in Task /\ p \in running /\ Resched(c) /\ js[p].cpu = c
    BY <1>3, <1>7, <2>1, <2>2, <2>7 DEF Ways
  <2> QED BY <2>4, <2>5, <2>6, <2>7
<1>9. Q = (IF way = "ready" THEN ready[c] \cup {p} ELSE ready[c]) /\ Q \in SUBSET Task /\ Q \subseteq rt
  <2>1. Q = IF way = "ready" THEN ready[c] \cup {p} ELSE ready[c]
    BY <1>1, <1>8 DEF Queue
  <2>2. ready[c] \subseteq Task /\ ready[c] \subseteq rt
    BY <1>00, <1>3 DEF InDomain
  <2> QED BY <1>4, <1>8, <2>1, <2>2
<1>10. Leaves(c, p, Q, way)
  <2>1. way = "ready" => job'[p].cpu = c /\ job'[p].release <= now
    BY <1>1, <1>2, <1>8 DEF Local, is_released
  <2>2. way = "relq" => job'[p].cpu = c
    BY <1>1, <1>2, <1>8 DEF Local
  <2>3. way = "hand" => job'[p].cpu # c
    BY <1>1, <1>2, <1>8 DEF Local
  <2>4. way = "stays" => job' = job /\ \A u \in ready[c] : ~edf_higher_prio(job, u, p)
    BY <1>1, <1>2, <1>3, <1>8 DEF Resched, After, edf_preemption_needed
  <2> QED BY <1>8, <1>9, <2>1, <2>2, <2>3, <2>4 DEF Leaves
<1>11. Follows(n, p, Q, way) /\ n \in Task \cup {NULL}
  <2>1. CASE way = "stays"
    BY <1>1, <1>3, <1>8, <2>1 DEF Follows, Pick
  <2>2. CASE way # "stays" /\ Q = {}
    BY <1>1, <1>8, <2>2 DEF Follows, Pick
  <2>3. CASE way # "stays" /\ Q # {}
    <3>1. n = first_ready(js, Q)
      BY <1>1, <1>8, <2>3 DEF Pick
    <3>2. n \in Q /\ \A u \in Q : u # n => ~edf_higher_prio(js, u, n)
      BY <1>6, <1>9, <2>3, <3>1, FirstReady
    <3> QED BY <1>2, <1>9, <2>3, <3>2 DEF Follows
  <2> QED BY <2>1, <2>2, <2>3
<1>12. /\ ready' \in [CPU -> SUBSET Task]
       /\ \A x \in CPU : ready'[x] = IF x = c THEN Q \ {n} ELSE ready[x]
  <2>1. CASE way = "stays"
    <3>1. ready' = [ready EXCEPT ![c] = Q] /\ n = p /\ p \in Task /\ Q = ready[c]
      BY <1>2, <1>8, <1>9, <1>11, <2>1 DEF Follows
    <3>2. Q \ {n} = Q
      BY <1>4, <3>1
    <3> QED BY <1>3, <1>9, <3>1, <3>2
  <2>2. CASE way # "stays"
    <3>1. ready' = [ready EXCEPT ![c] = Q \ {n}]
      BY <1>2, <1>8, <2>2
    <3> QED BY <1>3, <1>9, <3>1
  <2> QED BY <2>1, <2>2
<1>13. /\ relq' \in [CPU -> SUBSET Task]
       /\ \A x \in CPU : relq'[x] = IF x = c /\ way = "relq" THEN relq[x] \cup {p} ELSE relq[x]
  <2>1. CASE way = "relq"
    <3>1. relq' = [relq EXCEPT ![c] = relq[c] \cup {p}] /\ p \in Task
      BY <1>2, <1>8, <2>1
    <3> QED BY <1>3, <2>1, <3>1
  <2>2. CASE way # "relq"
    <3>1. relq' = relq
      BY <1>2, <1>8, <2>2
    <3> QED BY <1>3, <2>2, <3>1
  <2> QED BY <2>1, <2>2
<1>14. /\ hand' \in [CPU -> Task \cup {NULL}]
       /\ \A x \in CPU : hand'[x] = IF x = c THEN (IF way = "hand" THEN p ELSE NULL) ELSE hand[x]
  <2>1. hand' = [hand EXCEPT ![c] = IF way = "hand" THEN p ELSE NULL]
    BY <1>2, <1>8
  <2>2. hand \in [CPU -> Task \cup {NULL}]
    BY <1>0 DEF TypeOK
  <2> QED BY <1>3, <2>1, <2>2
<1>15. /\ scheduled' \in [CPU -> Task \cup {NULL}] /\ \A x \in CPU : scheduled'[x] = IF x = c THEN n ELSE scheduled[x]
       /\ next' \in [CPU -> Task \cup {NULL}] /\ \A x \in CPU : next'[x] = IF x = c THEN n ELSE next[x]
  BY <1>0, <1>2, <1>11 DEF TypeOK
<1>16. /\ was_running' \in [CPU -> BOOLEAN] /\ \A x \in CPU : x # c => was_running'[x] = was_running[x]
       /\ was_running'[c] <=> p \in running
  <2>1. was_running \in [CPU -> BOOLEAN] /\ (curr[c] \in running) \in BOOLEAN
    BY <1>0 DEF TypeOK
  <2>2. was_running' \in [CPU -> BOOLEAN] /\ \A x \in CPU : x # c => was_running'[x] = was_running[x]
    BY <1>2, <2>1
  <2>3. was_running'[c] = (curr[c] \in running)
    BY <1>2, <2>1
  <2> QED BY <1>3, <2>2, <2>3
<1>17. /\ phase' \in [CPU -> {"run", "sched", "wait", "resim", "attach", "switch"}]
       /\ \A x \in CPU : phase'[x] = IF x = c THEN (IF n # NULL /\ task_cpu[n] # c THEN "wait" ELSE "switch") ELSE phase[x]
  <2>1. phase \in [CPU -> {"run", "sched", "wait", "resim", "attach", "switch"}]
    BY <1>0 DEF TypeOK
  <2>2. PICK f : f = IF n # NULL /\ task_cpu[n] # c THEN "wait" ELSE "switch"
    OBVIOUS
  <2>3. phase' = [phase EXCEPT ![c] = f] /\ f \in {"wait", "switch"}
    BY <1>2, <2>2
  <2> QED BY <2>1, <2>2, <2>3
<1>18. tif \subseteq tif' /\ tif' \in SUBSET (Task \cup CPU)
  <2>1. PICK need : preempt(need, c, c)
    BY <1>2
  <2>2. tif' = tif \/ tif' = tif \cup {Current(c)}
    BY <2>1 DEF preempt
  <2> QED BY <1>0, <2>2, CurrentTyped DEF TypeOK
<1>19. flags' \in [Task -> {"RUNNING", "SLEEP"}]
  <2>1. flags \in [Task -> {"RUNNING", "SLEEP"}]
    BY <1>0 DEF TypeOK
  <2> QED BY <1>2, <2>1
<1>20. TypeOK'
  BY <1>0, <1>2, <1>5, <1>6, <1>12, <1>13, <1>14, <1>15, <1>16, <1>17, <1>18, <1>19 DEF TypeOK
<1>21. Decided(c, p, n, Q, way)
  BY <1>2, <1>6, <1>10, <1>11, <1>12, <1>13, <1>14, <1>15, <1>16, <1>17, <1>18 DEF Decided
<1> QED BY <1>1, <1>2, <1>5, <1>20, <1>21, DecidedStep

-----------------------------------------------------------------------------
(* The invariant and the theorems                                          *)

\* The invariant holds initially.
LEMMA InitInv == Init => IInv
<1> SUFFICES ASSUME Init PROVE IInv
  OBVIOUS
<1>0. /\ NULL \notin Task /\ NO_CPU \notin CPU /\ Home \in [Task -> CPU] /\ NULL \notin Nat
      /\ \A t \in Task : NoJob(t) \in Job /\ NoJob(t).suspend_time = 0
  <2>1. Home \in [Task -> CPU] /\ NULL \notin Task /\ NO_CPU \notin CPU /\ NULL \notin Nat
    BY ConstantsAssumption
  <2> QED BY <2>1 DEF NoJob, Job, JOB_CAP
<1>1. TypeOK
  BY <1>0 DEF Init, TypeOK
<1>2. Executing
  BY <1>0 DEF Init, Executing
<1>3. Following
  BY DEF Init, Following, Deciding
<1>4. InDomain
  BY <1>0 DEF Init, InDomain
<1>5. HandOver
  BY <1>0 DEF Init, HandOver
<1>6. Kept
  BY DEF Init, Kept
<1>7. JustBlocked
  BY <1>0 DEF Init, JustBlocked
<1>8. Clocks
  BY <1>0 DEF Init, Clocks
<1>9. Released
  BY DEF Init, Released
<1>10. Budgets
  BY DEF Init, Budgets
<1>11. Enforced
  BY <1>0 DEF Init, Enforced
<1>12. Requested
  BY DEF Init, Requested
<1>13. NoSpinDeadlock
  BY DEF Init, NoSpinDeadlock, SpinsOn
<1>14. ~panic
  BY DEF Init
<1> QED BY <1>1, <1>2, <1>3, <1>4, <1>5, <1>6, <1>7, <1>8, <1>9, <1>10, <1>11, <1>12, <1>13, <1>14 DEF IInv

\* The invariant is kept when nothing changes.
LEMMA StutterInv ==
  ASSUME IInv, UNCHANGED vars
  PROVE  IInv'
<1>0. TypeOK /\ ~panic /\ Whereabouts /\ Clocks /\ Released /\ Budgets /\ Enforced /\ Requested
  BY DEF IInv, Whereabouts
<1>1. UNCHANGED <<plugin, taskVars, flags, job, queueVars, scheduled, hand, switchVars, phase, clockVars, sigVars, panic>>
  BY DEF vars
<1>2. TypeOK'
  BY <1>0, <1>1 DEF TypeOK
<1>3. Whereabouts'
  BY <1>0, <1>1, WhereaboutsKept
<1>4. Clocks' /\ Released' /\ ~panic'
  BY <1>0, <1>1 DEF Clocks, Released
<1>5. Budgets'
  BY <1>0, <1>1 DEF Budgets, Accounts, Fresh, out_of_budget, slice_budget_exhausted, budget_exhausted,
       slice_exec_time, slice_budget, Deciding
<1>6. Enforced'
  BY <1>0, <1>1 DEF Enforced, Within
<1>7. Requested'
  BY <1>0, <1>1 DEF Requested, Current, edf_higher_prio
<1> QED BY <1>2, <1>3, <1>4, <1>5, <1>6, <1>7 DEF IInv, Whereabouts

\* The invariant is kept by every step.
LEMMA NextInv ==
  ASSUME SupportedUse, FirstJobShort, IInv, [Next]_vars
  PROVE  IInv'
<1>1. CASE UNCHANGED vars
  BY <1>1, StutterInv
<1>2. CASE Handler
  <2>1. ASSUME NEW t \in Task, NEW e \in CPU, task_new(t, e) \/ task_exit(t, e) \/ wake(t, e)
        PROVE  IInv'
    BY <2>1, NewStep, ExitStep, WakeStep
  <2>2. ASSUME NEW from \in now .. now + MAX_DELAY, release_ts(from)
        PROVE  IInv'
    <3>1. now \in Nat
      BY DEF IInv, TypeOK
    <3>2. from \in Nat
      BY <3>1 DEF MAX_DELAY
    <3> QED BY <2>2, <3>2, ReleaseTsStep
  <2>3. ASSUME NEW c \in CPU, NEW d \in CPU, NEW r \in 0 .. now, on_release_timer(c, d, r)
        PROVE  IInv'
    BY <2>3, ReleaseTimerStep
  <2>4. ASSUME NEW c \in CPU, requeue_remote(c) \/ tick(c) \/ on_enforcement_timeout(c) \/ reschedule_interrupt(c)
        PROVE  IInv'
    BY <2>4, RequeueRemoteStep, TickStep, TimeoutStep, InterruptStep
  <2> QED BY <1>2, <2>1, <2>2, <2>3, <2>4 DEF Handler
<1>3. CASE Schedule
  <2>1. ASSUME NEW c \in CPU, schedule(c) \/ complete_job(c) \/ block(c) \/ plugin_schedule(c)
        PROVE  IInv'
    BY <2>1, ScheduleStep, BlockStep, PluginScheduleStep
  <2>2. ASSUME NEW c \in CPU, resim_block(c) \/ resim_wake_up(c) \/ attach(c) \/ finish_switch(c)
        PROVE  IInv'
    BY <2>2, ResimBlockStep, ResimWakeUpStep, AttachStep, FinishSwitchStep
  <2> QED BY <1>3, <2>1, <2>2 DEF Schedule
<1>4. CASE clock
  BY <1>4, ClockStep
<1> QED BY <1>1, <1>2, <1>3, <1>4 DEF Next

\* The inductive invariant holds in the supported use, if no first job overruns
\* under EDF-WM.
THEOREM Invariance ==
  ASSUME SupportedUse
  PROVE  Spec /\ []FirstJobShort => []IInv
<1>1. IInv /\ FirstJobShort /\ [Next]_vars => IInv'
  BY NextInv
<1> QED BY <1>1, InitInv, PTL DEF Spec

\* A task is in at most one place: migrations, wake-ups and preemptions neither
\* duplicate nor lose a task, although no lock is common to them, and put it in
\* the domain of its slice.
THEOREM AlwaysOnePlace ==
  ASSUME SupportedUse
  PROVE  Spec /\ []FirstJobShort => []OnePlace
<1>1. IInv => OnePlace
  <2> SUFFICES ASSUME IInv PROVE OnePlace
    OBVIOUS
  <2>0. TypeOK /\ InDomain /\ HandOver /\ Kept
    BY DEF IInv
  <2>1. ASSUME NEW t \in Task, NEW p \in Places(t)
        PROVE  \E d \in CPU : \/ p = <<"ready", d>> /\ t \in ready[d]
                              \/ p = <<"relq", d>> /\ t \in relq[d]
                              \/ p = <<"scheduled", d>> /\ scheduled[d] = t
                              \/ p = <<"hand", d>> /\ hand[d] = t
    BY DEF Places
  <2>2. ASSUME NEW t \in Task, NEW p \in Places(t), NEW q \in Places(t) PROVE p = q
    <3>1. PICK d \in CPU : \/ p = <<"ready", d>> /\ t \in ready[d]
                           \/ p = <<"relq", d>> /\ t \in relq[d]
                           \/ p = <<"scheduled", d>> /\ scheduled[d] = t
                           \/ p = <<"hand", d>> /\ hand[d] = t
      BY <2>1
    <3>2. PICK e \in CPU : \/ q = <<"ready", e>> /\ t \in ready[e]
                           \/ q = <<"relq", e>> /\ t \in relq[e]
                           \/ q = <<"scheduled", e>> /\ scheduled[e] = t
                           \/ q = <<"hand", e>> /\ hand[e] = t
      BY <2>1
    <3>3. CASE hand[d] # t /\ hand[e] # t
      <4>1. d = e
        BY <2>0, <3>1, <3>2, <3>3 DEF InDomain
      <4> QED BY <2>0, <3>1, <3>2, <3>3, <4>1 DEF InDomain
    <3>4. CASE hand[d] = t \/ hand[e] = t
      BY <2>0, <3>1, <3>2, <3>4 DEF HandOver
    <3> QED BY <3>3, <3>4
  <2>3. ASSUME NEW t \in Task, t \in rt, t \in running, Places(t) = {} PROVE \E c \in CPU : curr[c] = t
    <3>1. Nowhere(t)
      BY <2>3 DEF Places, Nowhere
    <3> QED BY <2>0, <2>3, <3>1 DEF Kept
  <2>4. \A t \in running, d \in CPU : t \in ready[d] \cup relq[d] \/ scheduled[d] = t => job[t].cpu = d
    BY <2>0 DEF InDomain, TypeOK
  <2> QED BY <2>0, <2>2, <2>3, <2>4 DEF OnePlace
<1> QED BY <1>1, Invariance, PTL

\* No BUG_ON() fires, in particular not the one of update_enforcement_timer(),
\* and no task is added to or removed from the wrong heap.
THEOREM NeverPanics ==
  ASSUME SupportedUse
  PROVE  Spec /\ []FirstJobShort => []NoPanic
<1>1. IInv => NoPanic
  BY DEF IInv, NoPanic
<1> QED BY <1>1, Invariance, PTL

\* C=D and HIME need no assumption about the first job.
THEOREM NeverPanicsExceptWM ==
  ASSUME SupportedUse, "EDF-WM" \notin Plugins
  PROVE  Spec => []NoPanic
<1>1. IInv => FirstJobShort /\ NoPanic
  BY DEF IInv, TypeOK, FirstJobShort, NoPanic
<1>2. IInv /\ [Next]_vars => IInv'
  BY <1>1, NextInv
<1> QED BY <1>1, <1>2, InitInv, PTL DEF Spec

\* Processors that exchange tasks do not wait for each other's stacks.
THEOREM NeverSpinDeadlock ==
  ASSUME SupportedUse
  PROVE  Spec /\ []FirstJobShort => []NoSpinDeadlock
<1>1. IInv => NoSpinDeadlock
  BY DEF IInv
<1> QED BY <1>1, Invariance, PTL

\* From the second job on, a sliced task has exactly the budgets of its slices,
\* however often it is preempted, suspended or migrated.
THEOREM SlicesAccounted ==
  ASSUME SupportedUse
  PROVE  Spec /\ []FirstJobShort => []SliceAccounting
<1>1. IInv => SliceAccounting
  BY DEF IInv, Budgets, Accounts, SliceAccounting
<1> QED BY <1>1, Invariance, PTL

\* No job but the first executes beyond its budget.
THEOREM BudgetsEnforced ==
  ASSUME SupportedUse
  PROVE  Spec /\ []FirstJobShort => []BudgetEnforced
<1>1. IInv => BudgetEnforced
  <2> SUFFICES ASSUME IInv, NEW c \in CPU, phase[c] = "run", curr[c] \in Precise, job[curr[c]].no >= 2
               PROVE  charged(c)[curr[c]].exec_time <= job[curr[c]].exec_cost
    BY DEF BudgetEnforced
  <2>0. TypeOK /\ Clocks /\ Enforced
    BY DEF IInv
  <2>1. PICK t, js : t = curr[c] /\ js = charged(c)
    OBVIOUS
  <2>2. t \in Task /\ job[t] \in Job
    BY <2>0, <2>1, ConstantsAssumption DEF TypeOK
  <2>3. js[t].exec_time = job[t].exec_time + (now - start[c])
    BY <2>0, <2>1, <2>2, ChargedFacts
  <2>4. /\ job[t].exec_time \in Nat /\ job[t].exec_cost \in Nat
    BY <2>2, JobFields
  <2>5. now \in Nat /\ start[c] \in Nat /\ (timer[c] # NULL => timer[c] \in Nat)
    BY <2>0 DEF TypeOK
  <2>6. \/ /\ timer[c] # NULL /\ now <= timer[c]
           /\ timer[c] + job[t].exec_time = start[c] + job[t].exec_cost
        \/ job[t].exec_time + now <= start[c] + job[t].exec_cost
    BY <2>0, <2>1, <2>2 DEF Enforced
  <2>7. js[t].exec_time <= job[t].exec_cost
    BY <2>3, <2>4, <2>5, <2>6
  <2> QED BY <2>1, <2>7
<1> QED BY <1>1, Invariance, PTL

\* No preemption request is lost between the domains.
THEOREM AlwaysPreemptionRequested ==
  ASSUME SupportedUse
  PROVE  Spec /\ []FirstJobShort => []PreemptionRequested
<1>1. IInv => PreemptionRequested
  <2> SUFFICES ASSUME IInv, NEW c \in CPU, edf_preemption_needed(job, ready[c], scheduled[c]), ~WillSchedule(c)
               PROVE  first_ready(job, ready[c]) \in tif
    BY DEF PreemptionRequested
  <2>0. TypeOK /\ InDomain /\ Requested
    BY DEF IInv
  <2>1. PICK x, s : x = first_ready(job, ready[c]) /\ s = scheduled[c]
    OBVIOUS
  <2>2. \A u \in ready[c] : edf_higher_prio(job, u, s) => u \in tif
    BY <2>0, <2>1 DEF Requested, WillSchedule
  <2>3. PICK u \in ready[c] : edf_higher_prio(job, u, s)
    BY <2>1 DEF edf_preemption_needed
  <2>4. ready[c] \in SUBSET Task /\ job \in [Task -> Job] /\ s \in Task \cup {NULL} /\ rt \subseteq Task
    BY <2>0, <2>1 DEF TypeOK
  <2>5. ready[c] \subseteq rt /\ (s \in rt \/ s = NULL)
    BY <2>0, <2>1, <2>4 DEF InDomain
  <2>6. x \in ready[c] /\ \A v \in ready[c] : v # x => edf_higher_prio(job, x, v)
    BY <2>1, <2>3, <2>4, <2>5, FirstReady
  <2>7. CASE u = x
    BY <2>1, <2>2, <2>3, <2>7
  <2>8. CASE u # x
    <3>1. edf_higher_prio(job, x, u) /\ x \in Task /\ u \in Task /\ u \in rt
      BY <2>4, <2>5, <2>6, <2>8
    <3>2. edf_higher_prio(job, x, s)
      BY <2>3, <2>4, <2>5, <3>1, HigherTransitive
    <3> QED BY <2>1, <2>2, <2>6, <3>2
  <2> QED BY <2>7, <2>8
<1> QED BY <1>1, Invariance, PTL

=============================================================================
