--------------------------- MODULE RtDomain_proofs ---------------------------
(***************************************************************************)
(* Proofs about release queues and release timers, for any number of       *)
(* tasks, processors and domains, any assignment of timers to processors   *)
(* and any release queue.                                                  *)
(***************************************************************************)
EXTENDS RtDomain, FiniteSetTheorems, TLAPS

-----------------------------------------------------------------------------
(* The lists of a release queue                                            *)

\* Every time belongs to a list.
LEMMA SlotOfTime ==
  ASSUME NEW r \in Nat
  PROVE  time2slot(r) \in Slot
<1>1. RELEASE_QUEUE_SLOTS \in Nat \ {0} /\ QUANTUM \in Nat \ {0}
  BY ConstantsAssumption
<1>2. ASSUME NEW n \in Nat \ {0} PROVE r \div n \in Nat
  OBVIOUS
<1>3. ASSUME NEW a \in Nat, NEW n \in Nat \ {0} PROVE a % n \in 0 .. (n - 1)
  OBVIOUS
<1> QED BY <1>1, <1>2, <1>3 DEF time2slot, Slot

\* A set of indices that contains all predecessors of its elements is an
\* initial segment.
LEMMA InitialSegment ==
  ASSUME NEW n \in Nat, NEW B \in SUBSET (1 .. n),
         \A i \in B, j \in 1 .. n : j < i => j \in B
  PROVE  \E m \in 0 .. n : B = 1 .. m
<1> DEFINE m == Cardinality(B)
<1>1. IsFiniteSet(1 .. n) /\ Cardinality(1 .. n) = n
  BY FS_Interval
<1>2. IsFiniteSet(B) /\ m \in Nat /\ m <= n
  BY <1>1, FS_Subset, FS_CardinalityType
<1>3. ASSUME NEW j \in B PROVE j \in 1 .. m
  <2>1. j \in 1 .. n /\ 1 .. j \subseteq B
    OBVIOUS
  <2>2. Cardinality(1 .. j) = j
    BY <2>1, FS_Interval
  <2>3. Cardinality(1 .. j) <= m
    BY <1>2, <2>1, FS_Subset
  <2> QED BY <1>2, <2>1, <2>2, <2>3
<1>4. IsFiniteSet(1 .. m) /\ Cardinality(1 .. m) = m
  BY <1>2, FS_Interval
<1>5. B = 1 .. m
  BY <1>3, <1>4, FS_Subset
<1> QED BY <1>2, <1>5

\* The search in a sorted list ends at a position.
LEMMA Position ==
  ASSUME TypeOK, NEW l \in Seq(Task), NEW r \in Nat,
         \A i, j \in 1 .. Len(l) : i < j => release_time[l[i]] < release_time[l[j]]
  PROVE  /\ position(l, r) \in 1 .. (Len(l) + 1)
         /\ position(l, r) <= Len(l) => r <= release_time[l[position(l, r)]]
         /\ \A i \in 1 .. (position(l, r) - 1) : release_time[l[i]] < r
<1> DEFINE n == Len(l)
           B == {i \in 1 .. n : release_time[l[i]] < r}
<1>1. n \in Nat /\ \A i \in 1 .. n : release_time[l[i]] \in Nat
  BY DEF TypeOK
<1>2. PICK m \in 0 .. n : B = 1 .. m
  <2>1. \A i \in B, j \in 1 .. n : j < i => j \in B
    BY <1>1
  <2> QED BY <1>1, <2>1, InitialSegment
<1> DEFINE Good(k) == /\ k <= n => r <= release_time[l[k]]
                      /\ \A i \in 1 .. (k - 1) : release_time[l[i]] < r
<1>3. m + 1 \in 1 .. (n + 1) /\ Good(m + 1)
  <2>1. m + 1 \in 1 .. (n + 1) /\ (m + 1) - 1 = m /\ m + 1 \notin B
    BY <1>1, <1>2
  <2>2. m + 1 <= n => m + 1 \in 1 .. n
    BY <1>1
  <2> QED BY <1>1, <1>2, <2>1, <2>2
<1>4. position(l, r) = CHOOSE k \in 1 .. (n + 1) : Good(k)
  BY DEF position
<1> HIDE DEF Good
<1>5. position(l, r) \in 1 .. (n + 1) /\ Good(position(l, r))
  BY <1>3, <1>4
<1> QED BY <1>5 DEF Good

\* The heap that the search finds.
LEMMA Found ==
  ASSUME TypeOK, QueueSorted, NEW d \in Domain, NEW r \in Nat,
         matches(queue[d][time2slot(r)], r)
  PROVE  LET l == queue[d][time2slot(r)]
             g == l[position(l, r)]
         IN /\ g \in Task /\ g \in Listed /\ dom[g] = d /\ release_time[g] = r
            /\ g \in heap[g] /\ \A t \in heap[g] : release[t] = r
<1> DEFINE s == time2slot(r)
           l == queue[d][s]
           k == position(l, r)
<1>1. s \in Slot /\ l \in Seq(Task)
  BY SlotOfTime DEF TypeOK
<1>2. k \in 1 .. (Len(l) + 1)
  BY <1>1, Position DEF QueueSorted
<1>3. k <= Len(l) /\ release_time[l[k]] = r
  BY DEF matches
<1>4. k \in 1 .. Len(l) /\ l[k] \in Task
  BY <1>1, <1>2, <1>3
<1>5. /\ dom[l[k]] = d /\ l[k] \in heap[l[k]]
      /\ \A t \in heap[l[k]] : release[t] = release_time[l[k]]
  BY <1>1, <1>4 DEF QueueSorted
<1>6. l[k] \in Listed
  BY <1>3, <1>4, <1>5 DEF Listed
<1> QED BY <1>3, <1>4, <1>5, <1>6

\* A list with one more element.
LEMMA ListAdd ==
  ASSUME NEW l \in Seq(Task), NEW k \in 1 .. (Len(l) + 1), NEW h \in Task
  PROVE  LET m == list_add(l, k, h)
         IN /\ m \in Seq(Task) /\ Len(m) = Len(l) + 1
            /\ \A i \in 1 .. (Len(l) + 1) :
                 m[i] = IF i < k THEN l[i] ELSE IF i = k THEN h ELSE l[i - 1]
<1> DEFINE n == Len(l)
           m == list_add(l, k, h)
<1>1. n \in Nat /\ n + 1 \in Nat
  OBVIOUS
<1>2. m = [i \in 1 .. (n + 1) |-> IF i < k THEN l[i] ELSE IF i = k THEN h ELSE l[i - 1]]
  BY DEF list_add
<1>3. \A i \in 1 .. (n + 1) : (i < k => i \in 1 .. n) /\ (~(i < k) /\ i # k => i - 1 \in 1 .. n)
  BY <1>1
<1>4. m \in [1 .. (n + 1) -> Task]
  BY <1>2, <1>3
<1> HIDE DEF m
<1>5. m \in Seq(Task) /\ Len(m) = n + 1
  BY <1>1, <1>4
<1> QED BY <1>2, <1>5 DEF m

\* A list with one element less.
LEMMA ListDel ==
  ASSUME NEW l \in Seq(Task), NEW h \in Task, \E i \in 1 .. Len(l) : l[i] = h
  PROVE  LET m == list_del(l, h)
         IN /\ m \in Seq(Task) /\ Len(m) = Len(l) - 1
            /\ \E k \in 1 .. Len(l) :
                 /\ l[k] = h
                 /\ \A i \in 1 .. (Len(l) - 1) : m[i] = IF i < k THEN l[i] ELSE l[i + 1]
<1> DEFINE n == Len(l)
           k == CHOOSE i \in 1 .. n : l[i] = h
           m == list_del(l, h)
<1>1. n \in Nat /\ k \in 1 .. n /\ l[k] = h
  OBVIOUS
<1>2. m = [i \in 1 .. (n - 1) |-> IF i < k THEN l[i] ELSE l[i + 1]]
  BY DEF list_del
<1>3. n - 1 \in Nat /\ \A i \in 1 .. (n - 1) : i \in 1 .. n /\ i + 1 \in 1 .. n
  BY <1>1
<1> HIDE DEF k
<1>4. m \in [1 .. (n - 1) -> Task]
  BY <1>2, <1>3
<1> HIDE DEF m
<1>5. m \in Seq(Task) /\ Len(m) = n - 1
  BY <1>3, <1>4
<1> QED BY <1>1, <1>2, <1>5 DEF m

\* Whatever hangs in a list is listed.
LEMMA Members ==
  ASSUME TypeOK, QueueSorted, NEW d \in Domain, NEW s \in Slot, NEW i \in 1 .. Len(queue[d][s])
  PROVE  queue[d][s][i] \in Listed
<1>1. queue[d][s] \in Seq(Task) /\ queue[d][s][i] \in Task
  BY DEF TypeOK
<1>2. dom[queue[d][s][i]] = d /\ time2slot(release_time[queue[d][s][i]]) = s
  BY DEF QueueSorted
<1> QED BY <1>1, <1>2 DEF Listed

\* Steps that leave the lists alone.
LEMMA QueueKept ==
  ASSUME TypeOK, QueueSorted, UNCHANGED <<queue, dom, release_time>>,
         \A h \in Listed : h \in heap'[h] /\ \A t \in heap'[h] : release'[t] = release_time[h]
  PROVE  QueueSorted' /\ Listed' = Listed
<1>1. Listed' = Listed
  BY DEF Listed, time2slot
<1>2. ASSUME NEW d \in Domain, NEW s \in Slot, NEW i \in 1 .. Len(queue[d][s])
      PROVE  /\ queue[d][s][i] \in heap'[queue[d][s][i]]
             /\ \A t \in heap'[queue[d][s][i]] : release'[t] = release_time[queue[d][s][i]]
  BY Members
<1>3. QueueSorted'
  BY <1>2 DEF QueueSorted, time2slot
<1> QED BY <1>1, <1>3

\* A heap is added to the list of its time, where the search has ended.
LEMMA QueueAdd ==
  ASSUME TypeOK, QueueSorted, NEW t \in Task, t \notin Listed, NEW d \in Domain,
         ~matches(queue[d][time2slot(release[t])], release[t]),
         queue' = [queue EXCEPT ![d][time2slot(release[t])] =
                     list_add(queue[d][time2slot(release[t])],
                              position(queue[d][time2slot(release[t])], release[t]), t)],
         release_time' = [release_time EXCEPT ![t] = release[t]],
         dom' = [dom EXCEPT ![t] = d],
         heap' = [heap EXCEPT ![t] = {t}], release' = release
  PROVE  /\ queue' \in [Domain -> [Slot -> Seq(Task)]]
         /\ QueueSorted' /\ Listed' = Listed \cup {t}
<1> DEFINE r == release[t]
           s == time2slot(r)
           l == queue[d][s]
           k == position(l, r)
           m == list_add(l, k, t)
<1>1. r \in Nat /\ s \in Slot /\ l \in Seq(Task) /\ queue \in [Domain -> [Slot -> Seq(Task)]]
  BY SlotOfTime DEF TypeOK
<1>2. /\ k \in 1 .. (Len(l) + 1)
      /\ k <= Len(l) => r <= release_time[l[k]]
      /\ \A i \in 1 .. (k - 1) : release_time[l[i]] < r
  BY <1>1, Position DEF QueueSorted
<1>3. /\ m \in Seq(Task) /\ Len(m) = Len(l) + 1
      /\ \A i \in 1 .. (Len(l) + 1) : m[i] = IF i < k THEN l[i] ELSE IF i = k THEN t ELSE l[i - 1]
  <2> HIDE DEF k, l
  <2> QED BY <1>1, <1>2, ListAdd DEF m
<1>4. ASSUME NEW e \in Domain, NEW u \in Slot
      PROVE  queue'[e][u] = IF e = d /\ u = s THEN m ELSE queue[e][u]
  BY <1>1
<1>5. queue' \in [Domain -> [Slot -> Seq(Task)]]
  BY <1>1, <1>3
<1>6. ~(k <= Len(l) /\ release_time[l[k]] = r)
  BY DEF matches
<1> HIDE DEF k, m, r
<1>7. ASSUME NEW e \in Domain, NEW u \in Slot, NEW i \in 1 .. Len(queue[e][u])
      PROVE  /\ queue[e][u][i] \in Listed /\ queue[e][u][i] # t /\ queue[e][u][i] \in Task
             /\ release_time'[queue[e][u][i]] = release_time[queue[e][u][i]]
             /\ dom'[queue[e][u][i]] = dom[queue[e][u][i]]
             /\ heap'[queue[e][u][i]] = heap[queue[e][u][i]]
  <2>1. queue[e][u][i] \in Listed /\ queue[e][u][i] # t
    BY Members
  <2>2. queue[e][u][i] \in Task
    BY <2>1 DEF Listed
  <2> QED BY <2>1, <2>2 DEF TypeOK
<1>8. release_time'[t] = r /\ dom'[t] = d /\ heap'[t] = {t}
  BY DEF TypeOK, r
<1>9. /\ \A i \in 1 .. Len(l) : release_time'[l[i]] = release_time[l[i]] /\ release_time[l[i]] \in Nat
      /\ \A i, j \in 1 .. Len(l) : i < j => release_time[l[i]] < release_time[l[j]]
  BY <1>1, <1>7 DEF QueueSorted, TypeOK
<1>10. ASSUME NEW i \in 1 .. Len(m), NEW j \in 1 .. Len(m), i < j
       PROVE  release_time'[m[i]] < release_time'[m[j]]
  <2>1. Len(l) \in Nat /\ i \in 1 .. (Len(l) + 1) /\ j \in 1 .. (Len(l) + 1) /\ k \in Nat
    BY <1>1, <1>2, <1>3
  <2>2. CASE j < k
    <3>1. m[i] = l[i] /\ m[j] = l[j] /\ i \in 1 .. Len(l) /\ j \in 1 .. Len(l)
      BY <1>2, <1>3, <1>10, <2>1, <2>2
    <3> QED BY <1>9, <1>10, <3>1
  <2>3. CASE j = k
    <3>1. m[i] = l[i] /\ m[j] = t /\ i \in 1 .. Len(l) /\ i \in 1 .. (k - 1)
      BY <1>2, <1>3, <1>10, <2>1, <2>3
    <3> QED BY <1>2, <1>8, <1>9, <3>1
  <2>4. CASE j > k
    <3>1. m[j] = l[j - 1] /\ j - 1 \in 1 .. Len(l) /\ k \in 1 .. Len(l)
      BY <1>2, <1>3, <1>10, <2>1, <2>4
    <3>2. r < release_time[l[k]]
      BY <1>1, <1>2, <1>6, <1>9, <3>1
    <3>3. release_time[l[k]] <= release_time[l[j - 1]]
      <4>1. k < j - 1 \/ k = j - 1
        BY <2>1, <2>4
      <4> QED BY <1>9, <3>1, <4>1, SMTT(30)
    <3>4. CASE i < k
      <4>1. m[i] = l[i] /\ i \in 1 .. Len(l) /\ i < j - 1
        BY <1>3, <2>1, <2>4, <3>1, <3>4
      <4> QED BY <1>9, <3>1, <4>1
    <3>5. CASE i = k
      <4>1. m[i] = t
        BY <1>3, <2>1, <3>5
      <4>2. release_time'[m[i]] = r /\ release_time'[m[j]] = release_time[l[j - 1]]
        BY <1>8, <1>9, <3>1, <4>1
      <4>3. release_time[l[k]] \in Nat /\ release_time[l[j - 1]] \in Nat
        BY <1>9, <3>1
      <4> QED BY <1>1, <3>2, <3>3, <4>2, <4>3
    <3>6. CASE i > k
      <4>1. m[i] = l[i - 1] /\ i - 1 \in 1 .. Len(l) /\ i - 1 < j - 1
        BY <1>3, <1>10, <2>1, <3>1, <3>6
      <4> QED BY <1>9, <3>1, <4>1
    <3> QED BY <2>1, <3>4, <3>5, <3>6
  <2> QED BY <2>1, <2>2, <2>3, <2>4
<1>11. ASSUME NEW i \in 1 .. Len(m)
       PROVE  m[i] = t \/ \E j \in 1 .. Len(l) : m[i] = l[j]
  <2>1. Len(l) \in Nat /\ k \in Nat /\ i \in 1 .. (Len(l) + 1)
    BY <1>1, <1>2, <1>3
  <2>2. CASE i < k
    BY <1>2, <1>3, <2>1, <2>2
  <2>3. CASE i > k
    <3>1. i - 1 \in 1 .. Len(l) /\ m[i] = l[i - 1]
      BY <1>2, <1>3, <2>1, <2>3
    <3> QED BY <3>1
  <2>4. CASE i = k
    BY <1>3, <2>1, <2>4
  <2> QED BY <2>1, <2>2, <2>3, <2>4
<1>12. ASSUME NEW e \in Domain, NEW u \in Slot, NEW i \in 1 .. Len(queue'[e][u]), NEW h, h = queue'[e][u][i]
       PROVE  /\ dom'[h] = e /\ time2slot(release_time'[h]) = u
              /\ h \in heap'[h] /\ \A x \in heap'[h] : release'[x] = release_time'[h]
  <2>1. CASE h = t
    <3>1. e = d /\ u = s
      BY <1>4, <1>7, <1>12, <2>1
    <3> QED BY <1>8, <2>1, <3>1 DEF r
  <2>2. CASE h # t
    <3>1. \E j \in 1 .. Len(queue[e][u]) : h = queue[e][u][j]
      BY <1>4, <1>11, <1>12, <2>2
    <3>2. PICK j \in 1 .. Len(queue[e][u]) : h = queue[e][u][j]
      BY <3>1
    <3>3. /\ dom[h] = e /\ time2slot(release_time[h]) = u
          /\ h \in heap[h] /\ \A x \in heap[h] : release[x] = release_time[h]
      BY <3>2 DEF QueueSorted
    <3>4. dom'[h] = dom[h] /\ release_time'[h] = release_time[h] /\ heap'[h] = heap[h]
      BY <1>7, <3>2
    <3> QED BY <3>3, <3>4
  <2> QED BY <2>1, <2>2
<1>13. ASSUME NEW e \in Domain, NEW u \in Slot,
              NEW i \in 1 .. Len(queue'[e][u]), NEW j \in 1 .. Len(queue'[e][u]), i < j
       PROVE  release_time'[queue'[e][u][i]] < release_time'[queue'[e][u][j]]
  <2>1. CASE e = d /\ u = s
    BY <1>4, <1>10, <1>13, <2>1
  <2>2. CASE ~(e = d /\ u = s)
    BY <1>4, <1>7, <1>13, <2>2 DEF QueueSorted
  <2> QED BY <2>1, <2>2
<1>14. QueueSorted'
  <2> SUFFICES ASSUME NEW e \in Domain, NEW u \in Slot
               PROVE  /\ \A i, j \in 1 .. Len(queue'[e][u]) : i < j => release_time'[queue'[e][u][i]] < release_time'[queue'[e][u][j]]
                      /\ \A i \in 1 .. Len(queue'[e][u]) :
                           LET h == queue'[e][u][i]
                           IN /\ dom'[h] = e /\ time2slot(release_time'[h]) = u
                              /\ h \in heap'[h] /\ \A x \in heap'[h] : release'[x] = release_time'[h]
    BY DEF QueueSorted, time2slot
  <2>1. \A i, j \in 1 .. Len(queue'[e][u]) : i < j => release_time'[queue'[e][u][i]] < release_time'[queue'[e][u][j]]
    BY <1>13, Zenon
  <2>2. \A i \in 1 .. Len(queue'[e][u]) : \A h : h = queue'[e][u][i] =>
           /\ dom'[h] = e /\ time2slot(release_time'[h]) = u
           /\ h \in heap'[h] /\ \A x \in heap'[h] : release'[x] = release_time'[h]
    BY <1>12, ZenonT(60)
  <2> QED BY <2>1, <2>2, Zenon
<1>15. t \in Listed'
  <2>1. k \in 1 .. Len(m) /\ m[k] = t
    BY <1>1, <1>2, <1>3
  <2>2. queue'[dom'[t]][time2slot(release_time'[t])] = m
    BY <1>1, <1>4, <1>8
  <2> QED BY <1>8, <2>1, <2>2 DEF Listed, time2slot
<1>16. ASSUME NEW h \in Task, h # t PROVE h \in Listed' <=> h \in Listed
  <2>1. dom'[h] = dom[h] /\ release_time'[h] = release_time[h] /\ release_time[h] \in Nat
    BY <1>16 DEF TypeOK
  <2> DEFINE e == dom[h]
             u == time2slot(release_time[h])
  <2>2. h \in Listed <=> e \in Domain /\ \E i \in 1 .. Len(queue[e][u]) : queue[e][u][i] = h
    BY DEF Listed
  <2>3. h \in Listed' <=> e \in Domain /\ \E i \in 1 .. Len(queue'[e][u]) : queue'[e][u][i] = h
    BY <2>1 DEF Listed, time2slot
  <2>4. u \in Slot
    BY <2>1, SlotOfTime
  <2> HIDE DEF e, u
  <2>5. ASSUME NEW j \in 1 .. Len(l) PROVE \E i \in 1 .. Len(m) : m[i] = l[j]
    <3>1. Len(l) \in Nat /\ k \in Nat
      BY <1>1, <1>2
    <3>2. CASE j < k
      BY <1>3, <3>1, <3>2
    <3>3. CASE j >= k
      <4>1. j + 1 \in 1 .. Len(m) /\ m[j + 1] = l[(j + 1) - 1] /\ (j + 1) - 1 = j
        BY <1>3, <3>1, <3>3
      <4> QED BY <4>1
    <3> QED BY <3>1, <3>2, <3>3
  <2>6. CASE e = d /\ u = s
    <3>1. queue'[e][u] = m /\ queue[e][u] = l
      BY <1>1, <1>4, <2>6
    <3> QED BY <1>11, <1>16, <2>2, <2>3, <2>5, <2>6, <3>1
  <2>7. CASE e \in Domain /\ ~(e = d /\ u = s)
    BY <1>4, <2>2, <2>3, <2>4, <2>7
  <2> QED BY <2>2, <2>3, <2>6, <2>7
<1>17. Listed' = Listed \cup {t}
  BY <1>15, <1>16 DEF Listed
<1> QED BY <1>5, <1>14, <1>17

\* A heap is taken off its list.
LEMMA QueueDel ==
  ASSUME TypeOK, QueueSorted, NEW h \in Listed,
         queue' = [queue EXCEPT ![dom[h]][time2slot(release_time[h])] =
                     list_del(queue[dom[h]][time2slot(release_time[h])], h)],
         UNCHANGED <<heap, release, release_time, dom>>
  PROVE  /\ queue' \in [Domain -> [Slot -> Seq(Task)]]
         /\ QueueSorted' /\ Listed' = Listed \ {h}
<1> DEFINE d == dom[h]
           s == time2slot(release_time[h])
           l == queue[d][s]
           m == list_del(l, h)
<1>1. h \in Task /\ d \in Domain /\ \E i \in 1 .. Len(l) : l[i] = h
  BY DEF Listed
<1>2. s \in Slot /\ l \in Seq(Task) /\ queue \in [Domain -> [Slot -> Seq(Task)]]
  BY <1>1, SlotOfTime DEF TypeOK
<1>3. /\ m \in Seq(Task) /\ Len(m) = Len(l) - 1
      /\ \E k \in 1 .. Len(l) : /\ l[k] = h
                                /\ \A i \in 1 .. (Len(l) - 1) : m[i] = IF i < k THEN l[i] ELSE l[i + 1]
  <2> HIDE DEF l
  <2> QED BY <1>1, <1>2, ListDel DEF m
<1>4. PICK k \in 1 .. Len(l) : /\ l[k] = h
                               /\ \A i \in 1 .. (Len(l) - 1) : m[i] = IF i < k THEN l[i] ELSE l[i + 1]
  BY <1>3
<1>5. ASSUME NEW e \in Domain, NEW u \in Slot
      PROVE  queue'[e][u] = IF e = d /\ u = s THEN m ELSE queue[e][u]
  BY <1>1, <1>2
<1>6. queue' \in [Domain -> [Slot -> Seq(Task)]]
  BY <1>1, <1>2, <1>3
<1>7. /\ \A i \in 1 .. Len(l) : release_time[l[i]] \in Nat
      /\ \A i, j \in 1 .. Len(l) : i < j => release_time[l[i]] < release_time[l[j]]
  <2>1. \A i \in 1 .. Len(l) : l[i] \in Task
    BY <1>2
  <2>2. \A i \in 1 .. Len(l) : release_time[l[i]] \in Nat
    BY <2>1 DEF TypeOK
  <2> QED BY <1>1, <1>2, <2>2 DEF QueueSorted
<1> HIDE DEF m, d, s
<1>8. ASSUME NEW i \in 1 .. Len(m)
      PROVE  LET n == IF i < k THEN i ELSE i + 1
             IN n \in 1 .. Len(l) /\ m[i] = l[n] /\ n # k
  <2>1. Len(l) \in Nat /\ i \in 1 .. (Len(l) - 1)
    BY <1>2, <1>3
  <2> QED BY <1>4, <2>1
<1>9. ASSUME NEW i \in 1 .. Len(m), NEW j \in 1 .. Len(m), i < j
      PROVE  release_time[m[i]] < release_time[m[j]]
  <2> DEFINE a == IF i < k THEN i ELSE i + 1
             b == IF j < k THEN j ELSE j + 1
  <2>1. a < b
    BY <1>9
  <2>2. a \in 1 .. Len(l) /\ b \in 1 .. Len(l) /\ m[i] = l[a] /\ m[j] = l[b]
    BY <1>8
  <2> HIDE DEF a, b
  <2> QED BY <1>7, <2>1, <2>2
<1>10. ASSUME NEW e \in Domain, NEW u \in Slot, NEW i \in 1 .. Len(queue'[e][u])
       PROVE  \E n \in 1 .. Len(queue[e][u]) : queue'[e][u][i] = queue[e][u][n]
  <2>1. CASE e = d /\ u = s
    <3>1. queue'[e][u] = m /\ queue[e][u] = l
      BY <1>5, <2>1
    <3> HIDE DEF l
    <3>2. \E n \in 1 .. Len(l) : m[i] = l[n]
      BY <1>8, <3>1
    <3> QED BY <3>1, <3>2
  <2>2. CASE ~(e = d /\ u = s)
    BY <1>5, <2>2
  <2> QED BY <2>1, <2>2
<1>11. ASSUME NEW e \in Domain, NEW u \in Slot, NEW i \in 1 .. Len(queue'[e][u]), NEW g, g = queue'[e][u][i]
       PROVE  /\ dom'[g] = e /\ time2slot(release_time'[g]) = u
              /\ g \in heap'[g] /\ \A x \in heap'[g] : release'[x] = release_time'[g]
  <2>1. PICK n \in 1 .. Len(queue[e][u]) : g = queue[e][u][n]
    BY <1>10, <1>11
  <2> QED BY <2>1 DEF QueueSorted
<1>12. ASSUME NEW e \in Domain, NEW u \in Slot,
              NEW i \in 1 .. Len(queue'[e][u]), NEW j \in 1 .. Len(queue'[e][u]), i < j
       PROVE  release_time'[queue'[e][u][i]] < release_time'[queue'[e][u][j]]
  <2>1. CASE e = d /\ u = s
    BY <1>5, <1>9, <1>12, <2>1
  <2>2. CASE ~(e = d /\ u = s)
    BY <1>5, <1>12, <2>2 DEF QueueSorted
  <2> QED BY <2>1, <2>2
<1>13. QueueSorted'
  <2> SUFFICES ASSUME NEW e \in Domain, NEW u \in Slot
               PROVE  /\ \A i, j \in 1 .. Len(queue'[e][u]) : i < j => release_time'[queue'[e][u][i]] < release_time'[queue'[e][u][j]]
                      /\ \A i \in 1 .. Len(queue'[e][u]) :
                           LET g == queue'[e][u][i]
                           IN /\ dom'[g] = e /\ time2slot(release_time'[g]) = u
                              /\ g \in heap'[g] /\ \A x \in heap'[g] : release'[x] = release_time'[g]
    BY DEF QueueSorted, time2slot
  <2>1. \A i, j \in 1 .. Len(queue'[e][u]) : i < j => release_time'[queue'[e][u][i]] < release_time'[queue'[e][u][j]]
    BY <1>12, Zenon
  <2>2. \A i \in 1 .. Len(queue'[e][u]) : \A g : g = queue'[e][u][i] =>
           /\ dom'[g] = e /\ time2slot(release_time'[g]) = u
           /\ g \in heap'[g] /\ \A x \in heap'[g] : release'[x] = release_time'[g]
    BY <1>11, Zenon
  <2> QED BY <2>1, <2>2, Zenon
<1>14. h \notin Listed'
  <2> SUFFICES ASSUME NEW i \in 1 .. Len(m), m[i] = h PROVE FALSE
    <3>1. queue'[dom'[h]][time2slot(release_time'[h])] = m
      BY <1>1, <1>2, <1>5 DEF d, s
    <3> QED BY <3>1 DEF Listed, time2slot
  <2> DEFINE n == IF i < k THEN i ELSE i + 1
  <2>1. n \in 1 .. Len(l) /\ n # k /\ l[n] = h
    BY <1>8
  <2> HIDE DEF n
  <2>2. n < k \/ k < n
    BY <2>1
  <2> QED BY <1>4, <1>7, <2>1, <2>2
<1>15. ASSUME NEW g \in Task, g # h PROVE g \in Listed' <=> g \in Listed
  <2> DEFINE e == dom[g]
             u == time2slot(release_time[g])
  <2>1. g \in Listed <=> e \in Domain /\ \E i \in 1 .. Len(queue[e][u]) : queue[e][u][i] = g
    BY DEF Listed
  <2>2. g \in Listed' <=> e \in Domain /\ \E i \in 1 .. Len(queue'[e][u]) : queue'[e][u][i] = g
    BY DEF Listed, time2slot
  <2>3. u \in Slot
    BY SlotOfTime DEF TypeOK
  <2> HIDE DEF e, u
  <2>4. ASSUME NEW j \in 1 .. Len(l), j # k PROVE \E i \in 1 .. Len(m) : m[i] = l[j]
    <3>1. Len(l) \in Nat /\ k \in Nat /\ Len(m) = Len(l) - 1
      BY <1>2, <1>3
    <3>2. CASE j < k
      BY <1>4, <3>1, <3>2
    <3>3. CASE j > k
      <4>1. j - 1 \in 1 .. Len(m) /\ m[j - 1] = l[(j - 1) + 1] /\ (j - 1) + 1 = j
        BY <1>4, <3>1, <3>3
      <4> QED BY <4>1
    <3> QED BY <2>4, <3>1, <3>2, <3>3
  <2>5. CASE e = d /\ u = s
    <3>1. queue'[e][u] = m /\ queue[e][u] = l
      BY <1>1, <1>2, <1>5, <2>5 DEF d, s
    <3>2. \A i \in 1 .. Len(l) : l[i] = g => i # k
      BY <1>4, <1>15
    <3> HIDE DEF l
    <3>3. \A i \in 1 .. Len(m) : \E n \in 1 .. Len(l) : m[i] = l[n]
      BY <1>8
    <3>4. (\E i \in 1 .. Len(m) : m[i] = g) <=> (\E i \in 1 .. Len(l) : l[i] = g)
      BY <2>4, <3>2, <3>3
    <3> QED BY <2>1, <2>2, <3>1, <3>4
  <2>6. CASE e \in Domain /\ ~(e = d /\ u = s)
    BY <1>5, <2>1, <2>2, <2>3, <2>6
  <2> QED BY <2>1, <2>2, <2>5, <2>6
<1>16. Listed' = Listed \ {h}
  BY <1>14, <1>15, SMTT(90) DEF Listed
<1> QED BY <1>6, <1>13, <1>16

-----------------------------------------------------------------------------
(* Consequences of the invariant                                           *)

\* Replacing a set of a family of sets.
LEMMA FamilyExcept ==
  ASSUME NEW D, NEW S, NEW f \in [D -> SUBSET S], NEW a \in D, NEW X \in SUBSET S
  PROVE  /\ [f EXCEPT ![a] = X] \in [D -> SUBSET S]
         /\ \A b \in D : [f EXCEPT ![a] = X][b] = IF b = a THEN X ELSE f[b]
OBVIOUS

\* t is in no queue.
Outside(t) == t \in held \/ t \notin allocated \/ \E c \in CPU : Carries(c) /\ cur[c] = t

\* The heap of a task in no queue is empty and its timer is not started, but
\* the end of its callback may be still to come.
LEMMA Owners ==
  ASSUME IInv
  PROVE  /\ \A h \in Listed : /\ h \in Task /\ h \in heap[h] /\ dom[h] \in Domain
                              /\ \A t \in heap[h] : release[t] = release_time[h]
         /\ \A t \in Task : Outside(t) =>
              /\ \A h \in Task : t \notin heap[h]
              /\ \A d \in Domain : t \notin ready[d]
              /\ heap[t] = {} /\ t \notin Listed
              /\ timer[t] \in {"inactive", "running"}
              /\ timer[t] = "running" => \E b \in CPU : pc[b] = "merged" /\ cur[b] = t
<1> USE DEF IInv
<1>1. ASSUME NEW h \in Listed
      PROVE  /\ h \in Task /\ h \in heap[h] /\ dom[h] \in Domain
             /\ \A t \in heap[h] : release[t] = release_time[h]
  <2> DEFINE s == time2slot(release_time[h])
  <2>1. h \in Task /\ dom[h] \in Domain /\ \E i \in 1 .. Len(queue[dom[h]][s]) : queue[dom[h]][s][i] = h
    BY DEF Listed
  <2>2. s \in Slot
    BY <2>1, SlotOfTime DEF OnePlace, TypeOK
  <2> HIDE DEF s
  <2> QED BY <2>1, <2>2 DEF QueueSorted
<1>2. ASSUME NEW t \in Task, Outside(t)
      PROVE  (\A h \in Task : t \notin heap[h]) /\ \A d \in Domain : t \notin ready[d]
  BY <1>2 DEF Outside, OnePlace, is_queued
<1>3. ASSUME NEW t \in Task, Outside(t)
      PROVE  heap[t] = {} /\ t \notin Listed
  BY <1>1, <1>2, <1>3 DEF HeapUse
<1>4. ASSUME NEW t \in Task, Outside(t)
      PROVE  /\ timer[t] \in {"inactive", "running"}
             /\ timer[t] = "running" => \E b \in CPU : pc[b] = "merged" /\ cur[b] = t
  <2>1. heap[t] = {} /\ t \notin Listed
    BY <1>3, <1>4
  <2>2. timer[t] \in {"inactive", "pull", "armed", "running"}
    BY DEF OnePlace, TypeOK
  <2> QED BY <2>1, <2>2 DEF TimerUse, AtWork
<1> QED BY <1>1, <1>2, <1>3, <1>4

\* OnePlace, task by task.
InHeap(x) == \E h \in Task : x \in heap[h]
InReady(x) == \E d \in Domain : x \in ready[d]
InHand(x) == \E c \in CPU : Carries(c) /\ cur[c] = x

OneOf(x) ==
  /\ \A g, h \in Task : x \in heap[g] /\ x \in heap[h] => g = h
  /\ \A d, e \in Domain : x \in ready[d] /\ x \in ready[e] => d = e
  /\ \A b, c \in CPU : Carries(b) /\ Carries(c) /\ cur[b] = x /\ cur[c] = x => b = c
  /\ InHeap(x) => ~InReady(x)
  /\ InHeap(x) \/ InReady(x) => ~InHand(x) /\ x \notin held
  /\ InHand(x) => x \notin held
  /\ x \in allocated <=> InHeap(x) \/ InReady(x) \/ InHand(x) \/ x \in held

Hands == \A c \in CPU : Carries(c) => cur[c] \in Task

\* It says the same.
LEMMA TaskByTask == Hands => (OnePlace <=> TypeOK /\ \A x \in Task : OneOf(x))
<1> SUFFICES ASSUME Hands PROVE OnePlace <=> TypeOK /\ \A x \in Task : OneOf(x)
  OBVIOUS
<1>1. ASSUME OnePlace PROVE TypeOK /\ \A x \in Task : OneOf(x)
  BY <1>1 DEF OnePlace, OneOf, InHeap, InReady, InHand, is_queued
<1>2. ASSUME TypeOK, \A x \in Task : OneOf(x) PROVE OnePlace
  <2>1. \A b, c \in CPU : Carries(b) /\ Carries(c) /\ cur[b] = cur[c] => b = c
    BY <1>2 DEF OneOf, Hands
  <2>2. \A c \in CPU : Carries(c) => cur[c] \notin held
    BY <1>2 DEF OneOf, Hands, InHand
  <2>3. \A t \in Task : is_queued(t) => t \notin held /\ \A c \in CPU : Carries(c) => cur[c] # t
    BY <1>2 DEF OneOf, InHand, InHeap, InReady, is_queued
  <2> QED BY <1>2, <2>1, <2>2, <2>3 DEF OnePlace, OneOf, InHand, InHeap, InReady, is_queued
<1> QED BY <1>1, <1>2

\* Before and after a step.
LEMMA TaskByTaskStep == 
  /\ Hands => (OnePlace <=> TypeOK /\ \A x \in Task : OneOf(x))
  /\ Hands' => (OnePlace' <=> TypeOK' /\ \A x \in Task : OneOf(x)')
<1>1. Hands' => (OnePlace' <=> TypeOK' /\ (\A x \in Task : OneOf(x))')
  BY TaskByTask, PTL
<1> QED BY <1>1, TaskByTask

\* Only t moves, from one place to another.
LEMMA OneMoves ==
  ASSUME IInv, TypeOK', Hands', NEW t \in Task, OneOf(t)',
         \A x \in Task \ {t} :
           /\ \A h \in Task : x \in heap'[h] <=> x \in heap[h]
           /\ \A d \in Domain : x \in ready'[d] <=> x \in ready[d]
           /\ x \in held' <=> x \in held
           /\ x \in allocated' <=> x \in allocated
           /\ \A c \in CPU : Carries(c)' /\ cur'[c] = x <=> Carries(c) /\ cur[c] = x
  PROVE  OnePlace'
<1>1. Hands
  BY DEF IInv, Counters, Hands, Carries, Adding
<1>2. ASSUME NEW x \in Task, x # t PROVE OneOf(x)'
  <2>1. OneOf(x)
    BY <1>1, TaskByTaskStep DEF IInv
  <2>2. (InHeap(x)' <=> InHeap(x)) /\ (InReady(x)' <=> InReady(x)) /\ (InHand(x)' <=> InHand(x))
    BY <1>2 DEF InHeap, InReady, InHand
  <2> QED BY <1>2, <2>1, <2>2 DEF OneOf
<1> QED BY <1>2, TaskByTaskStep

\* Nobody moves.
LEMMA NoneMoves ==
  ASSUME IInv, TypeOK', Hands', UNCHANGED <<heap, ready, held, allocated>>,
         \A c \in CPU : Carries(c)' \/ Carries(c) => cur'[c] = cur[c] /\ Carries(c)' /\ Carries(c)
  PROVE  OnePlace'
<1>1. Hands
  BY DEF IInv, Counters, Hands, Carries, Adding
<1>2. ASSUME NEW x \in Task PROVE OneOf(x)'
  <2>1. OneOf(x)
    BY <1>1, TaskByTaskStep DEF IInv
  <2>2. (InHeap(x)' <=> InHeap(x)) /\ (InReady(x)' <=> InReady(x)) /\ (InHand(x)' <=> InHand(x))
    BY DEF InHeap, InReady, InHand
  <2> QED BY <2>1, <2>2 DEF OneOf
<1> QED BY <1>2, TaskByTaskStep

\* Steps that leave the lists and the timers alone.
LEMMA TimersKept ==
  ASSUME IInv, TypeOK',
         UNCHANGED <<queue, dom, release_time, timer, timer_cpu, pull, in_use, allocated>>,
         now' >= now,
         \A h \in Task \ Listed : heap'[h] = heap[h],
         \A h \in Listed : h \in heap'[h] /\ \A t \in heap'[h] : release'[t] = release_time[h],
         \A h \in Task : \A t \in heap[h] : release'[t] = release[t],
         \A c \in CPU : pc'[c] = "insert" \/ Owning(c)' \/ Owning(c) => pc'[c] = pc[c] /\ cur'[c] = cur[c],
         \A c \in CPU : pc'[c] # "idle" => cur'[c] \in Task,
         \A c \in CPU : pc'[c] \in {"add", "reinit", "insert", "arm", "unlock"} => into'[c] \in Domain
  PROVE  QueueSorted' /\ Triggered' /\ Counters' /\ HeapUse' /\ TimerUse' /\ AtWork'
<1> USE DEF IInv
<1>1. TypeOK /\ now \in Nat /\ now' \in Nat /\ \A h \in Task : release_time[h] \in Nat
  BY DEF OnePlace, TypeOK
<1>2. QueueSorted' /\ Listed' = Listed
  BY <1>1, QueueKept
<1>3. \A h \in Task : heap'[h] = {} <=> heap[h] = {}
  BY Owners
<1>4. Triggered'
  BY <1>3 DEF Triggered, Owning
<1>5. Counters'
  BY DEF Counters, Owning
<1>6. HeapUse'
  <2> SUFFICES ASSUME NEW h \in Task, heap'[h] # {}
               PROVE  /\ h \in heap'[h] /\ dom'[h] \in Domain
                      /\ \A t \in heap'[h] : release'[t] = release_time'[h]
                      /\ h \in Listed' \/ \E c \in CPU : pc'[c] = "dequeued" /\ cur'[c] = h
    BY DEF HeapUse
  <2>1. CASE h \in Listed
    BY <1>2, <2>1, Owners
  <2>2. CASE h \notin Listed
    BY <1>2, <2>2 DEF HeapUse, Owning
  <2> QED BY <2>1, <2>2
<1>7. TimerUse'
  BY <1>2 DEF TimerUse, Owning
<1>8. AtWork'
  <2> SUFFICES ASSUME NEW c \in CPU
               PROVE  LET h == cur'[c]
                      IN /\ pc'[c] = "insert" => timer'[h] = "inactive" /\ h \notin in_use'
                         /\ pc'[c] = "arm" => timer'[h] = "inactive" /\ h \notin in_use' /\ h \in Listed'
                         /\ pc'[c] = "fired" => h \in Listed' /\ release_time'[h] <= now'
                         /\ pc'[c] = "dequeued" => h \notin Listed' /\ heap'[h] # {} /\ release_time'[h] <= now'
                         /\ pc'[c] = "merged" => heap'[h] = {} /\ h \in allocated'
    BY DEF AtWork
  <2>1. pc'[c] = "insert" \/ Owning(c)' => cur[c] \in Task /\ cur'[c] \in Task /\ cur'[c] = cur[c] /\ pc'[c] = pc[c]
    BY DEF Counters, Owning
  <2> QED BY <1>1, <1>2, <1>3, <2>1 DEF AtWork, Owning
<1> QED BY <1>2, <1>4, <1>5, <1>6, <1>7, <1>8

-----------------------------------------------------------------------------
(* Steps that move tasks between the plugin, the processors and the ready  *)
(* queues                                                                  *)

\* A task leaves the hands of the plugin.
LEMMA AddReleaseStep ==
  ASSUME IInv, NEW c \in CPU, NEW t \in Task, NEW d \in Domain, NEW r \in 1 .. MaxTime,
         add_release(c, t, d, r) \/ add_release_on(c, t, d, r)
  PROVE  IInv'
<1> USE DEF IInv
<1>1. /\ pc[c] = "idle" /\ t \in held /\ held' = held \ {t} /\ release' = [release EXCEPT ![t] = r]
      /\ cur' = [cur EXCEPT ![c] = t] /\ into' = [into EXCEPT ![c] = d] /\ pc' = [pc EXCEPT ![c] = "add"]
      /\ UNCHANGED <<now, ready, heapVars, timerVars, allocated, tobe_lock, panic>>
  BY DEF add_release, add_release_on, Open, goto, lockVars
<1>2. TypeOK'
  <2>1. TypeOK /\ r \in Nat
    BY ConstantsAssumption DEF OnePlace
  <2>2. target_cpu' \in [CPU -> CPU \cup {NO_CPU}] /\ ready_lock' \in [Domain -> CPU \cup {NO_CPU}]
    <3>1. CASE add_release(c, t, d, r)
      BY <2>1, <3>1, ConstantsAssumption DEF add_release, TypeOK
    <3>2. CASE add_release_on(c, t, d, r)
      BY <2>1, <3>2, ConstantsAssumption DEF add_release_on, TypeOK, lockVars
    <3> QED BY <3>1, <3>2
  <2> QED BY <1>1, <2>1, <2>2 DEF TypeOK, heapVars, timerVars
<1>3. Outside(t)
  BY <1>1 DEF Outside
<1>4. /\ \A b \in CPU : b # c => pc'[b] = pc[b] /\ cur'[b] = cur[b] /\ into'[b] = into[b]
      /\ pc'[c] = "add" /\ cur'[c] = t /\ into'[c] = d /\ pc[c] = "idle"
      /\ now' >= now /\ heap' = heap /\ ready' = ready /\ allocated' = allocated
  BY <1>1 DEF OnePlace, TypeOK, heapVars
<1>5. /\ \A h \in Task : t \notin heap[h]
      /\ \A e \in Domain : t \notin ready[e]
  BY <1>3, Owners
<1>6. OnePlace'
  <2>1. Hands'
    BY <1>4 DEF Counters, Hands, Carries, Adding
  <2>2. \A b \in CPU : ~(Carries(b) /\ cur[b] = t)
    BY <1>1 DEF OnePlace
  <2>3. t \in allocated
    BY <1>1 DEF OnePlace
  <2>4. OneOf(t)'
    BY <1>1, <1>4, <1>5, <2>2, <2>3 DEF OneOf, InHeap, InReady, InHand, Carries, Adding
  <2> QED BY <1>1, <1>2, <1>4, <2>1, <2>4, OneMoves DEF Carries, Adding
<1>7. QueueSorted' /\ Triggered' /\ Counters' /\ HeapUse' /\ TimerUse' /\ AtWork'
  <2>1. \A h \in Task : \A x \in heap[h] : release'[x] = release[x]
    BY <1>1, <1>5 DEF OnePlace, TypeOK
  <2> QED BY <1>1, <1>2, <1>4, <2>1, Owners, TimersKept DEF Counters, Owning, heapVars, timerVars
<1> QED BY <1>1, <1>6, <1>7

\* A task leaves real-time mode.
LEMMA ExitStep ==
  ASSUME IInv, NEW c \in CPU, NEW t \in Task, exit_task(c, t)
  PROVE  IInv'
<1> USE DEF IInv
<1>1. /\ pc[c] = "idle" /\ t \in held /\ held' = held \ {t}
      /\ cur' = [cur EXCEPT ![c] = t] /\ pc' = [pc EXCEPT ![c] = "free"]
      /\ UNCHANGED <<now, release, ready, heapVars, timerVars, allocated, into, target_cpu, lockVars>>
  BY DEF exit_task, Open, goto
<1>2. /\ \A h \in Task : t \notin heap[h]
      /\ \A e \in Domain : t \notin ready[e]
  <2>1. Outside(t)
    BY <1>1 DEF Outside
  <2> QED BY <2>1, Owners
<1>3. panic' = FALSE
  <2>1. ~is_queued(t)
    BY <1>2 DEF is_queued
  <2> QED BY <2>1 DEF exit_task, BugOn
<1>4. TypeOK'
  <2>1. TypeOK
    BY DEF OnePlace
  <2> QED BY <1>1, <1>3, <2>1 DEF TypeOK, heapVars, timerVars, lockVars
<1>5. /\ \A b \in CPU : b # c => pc'[b] = pc[b] /\ cur'[b] = cur[b] /\ into'[b] = into[b]
      /\ pc'[c] = "free" /\ cur'[c] = t /\ pc[c] = "idle"
      /\ now' >= now /\ heap' = heap /\ ready' = ready /\ allocated' = allocated
  BY <1>1 DEF OnePlace, TypeOK, heapVars
<1>6. OnePlace'
  <2>1. Hands'
    BY <1>5 DEF Counters, Hands, Carries, Adding
  <2>2. t \in allocated /\ \A b \in CPU : ~(Carries(b) /\ cur[b] = t)
    BY <1>1 DEF OnePlace
  <2>3. OneOf(t)'
    BY <1>1, <1>2, <1>5, <2>2 DEF OneOf, InHeap, InReady, InHand, Carries, Adding
  <2> QED BY <1>1, <1>4, <1>5, <2>1, <2>3, OneMoves DEF Carries, Adding
<1>7. QueueSorted' /\ Triggered' /\ Counters' /\ HeapUse' /\ TimerUse' /\ AtWork'
  BY <1>1, <1>4, <1>5, Owners, TimersKept DEF Counters, Owning, heapVars, timerVars
<1> QED BY <1>3, <1>6, <1>7

\* A task moves between the plugin and a ready queue.
LEMMA ReadyStep ==
  ASSUME IInv, NEW c \in CPU, NEW t \in Task, NEW d \in Domain,
         take_ready(c, t, d) \/ add_ready(c, t, d)
  PROVE  IInv'
<1> USE DEF IInv
<1>1. /\ \/ t \in ready[d] /\ ready' = [ready EXCEPT ![d] = @ \ {t}] /\ held' = held \cup {t} /\ panic' = panic
         \/ t \in held /\ ready' = [ready EXCEPT ![d] = @ \cup {t}] /\ held' = held \ {t}
            /\ panic' = (panic \/ is_queued(t))
      /\ UNCHANGED <<now, release, heapVars, timerVars, allocated, cpuVars, lockVars>>
  BY DEF take_ready, add_ready, BugOn
<1>2. t \in held => /\ \A h \in Task : t \notin heap[h]
                    /\ \A e \in Domain : t \notin ready[e]
  BY Owners DEF Outside
<1>3. panic' = FALSE
  <2>1. panic = FALSE
    BY DEF OnePlace, TypeOK
  <2>2. t \in held => is_queued(t) = FALSE
    BY <1>2 DEF is_queued
  <2> QED BY <1>1, <2>1, <2>2
<1>4. TypeOK'
  <2>1. TypeOK
    BY DEF OnePlace
  <2>2. ready' \in [Domain -> SUBSET Task] /\ held' \subseteq Task
    <3>1. ready \in [Domain -> SUBSET Task] /\ held \subseteq Task
      BY <2>1 DEF TypeOK
    <3>2. ready[d] \ {t} \in SUBSET Task /\ ready[d] \cup {t} \in SUBSET Task
      BY <3>1
    <3>3. /\ [ready EXCEPT ![d] = ready[d] \ {t}] \in [Domain -> SUBSET Task]
          /\ [ready EXCEPT ![d] = ready[d] \cup {t}] \in [Domain -> SUBSET Task]
      BY <3>1, <3>2, FamilyExcept
    <3> QED BY <1>1, <3>1, <3>3
  <2> QED BY <1>1, <1>3, <2>1, <2>2 DEF TypeOK, heapVars, timerVars, lockVars, cpuVars
<1>5. UNCHANGED <<pc, cur, into, heap, allocated, now>> /\ now' >= now
  BY <1>1 DEF OnePlace, TypeOK, heapVars, cpuVars
<1>6. OnePlace'
  <2>1. Hands' /\ Hands
    BY <1>5 DEF Counters, Hands, Carries, Adding
  <2>2. OneOf(t)
    BY <2>1, TaskByTaskStep
  <2>3. ready \in [Domain -> SUBSET Task]
    BY DEF OnePlace, TypeOK
  <2>4. /\ InHeap(t)' <=> InHeap(t)
        /\ InHand(t)' <=> InHand(t)
    BY <1>5 DEF InHeap, InHand, Carries, Adding
  <2>5. t \in allocated
    BY <1>1, <2>2 DEF OneOf, InReady
  <2>6. CASE t \in ready[d] /\ ready' = [ready EXCEPT ![d] = @ \ {t}] /\ held' = held \cup {t}
    <3>1. \A e \in Domain : t \notin ready'[e]
      BY <2>2, <2>3, <2>6 DEF OneOf
    <3>2. ~InHeap(t) /\ ~InHand(t) /\ ~InReady(t)'
      BY <2>2, <2>6, <3>1 DEF OneOf, InReady
    <3>3. OneOf(t)'
      BY <1>5, <2>2, <2>4, <2>5, <2>6, <3>1, <3>2 DEF OneOf, Carries, Adding
    <3> QED BY <1>4, <1>5, <2>1, <2>3, <2>6, <3>3, OneMoves DEF Carries, Adding
  <2>7. CASE t \in held /\ ready' = [ready EXCEPT ![d] = @ \cup {t}] /\ held' = held \ {t}
    <3>1. \A e \in Domain : t \in ready'[e] <=> e = d
      BY <1>2, <2>3, <2>7
    <3>2. ~InHeap(t) /\ ~InHand(t) /\ InReady(t)'
      BY <2>2, <2>7, <3>1 DEF OneOf, InReady
    <3>3. OneOf(t)'
      BY <1>5, <2>2, <2>4, <2>5, <2>7, <3>1, <3>2 DEF OneOf, Carries, Adding
    <3> QED BY <1>4, <1>5, <2>1, <2>3, <2>7, <3>3, OneMoves DEF Carries, Adding
  <2> QED BY <1>1, <2>6, <2>7
<1>7. QueueSorted' /\ Triggered' /\ Counters' /\ HeapUse' /\ TimerUse' /\ AtWork'
  BY <1>1, <1>4, <1>5, Owners, TimersKept DEF Counters, Owning, heapVars, timerVars
<1> QED BY <1>3, <1>6, <1>7

\* Locks are dropped, or time passes.
LEMMA QuietStep ==
  ASSUME IInv, (\E c \in CPU : add_release_done(c)) \/ clock
  PROVE  IInv'
<1> USE DEF IInv
<1>1. /\ UNCHANGED <<held, release, ready, heapVars, timerVars, allocated, panic>>
      /\ now' >= now
  BY DEF add_release_done, clock, OnePlace, TypeOK
<1>2. TypeOK'
  <2>1. TypeOK /\ \A d \in Domain, c \in CPU : (IF ready_lock[d] = c THEN NO_CPU ELSE ready_lock[d]) \in CPU \cup {NO_CPU}
    BY DEF OnePlace, TypeOK
  <2>2. CASE clock
    BY <2>1, <2>2 DEF clock, TypeOK, heapVars, timerVars, lockVars, cpuVars
  <2>3. CASE \E c \in CPU : add_release_done(c)
    <3> PICK c \in CPU : add_release_done(c)
      BY <2>3
    <3>1. ready_lock' \in [Domain -> CPU \cup {NO_CPU}] /\ tobe_lock' \in [Domain -> CPU \cup {NO_CPU}]
      BY <2>1 DEF add_release_done, TypeOK
    <3>2. pc' \in [CPU -> {"idle", "add", "reinit", "insert", "arm", "unlock", "fired", "dequeued", "merged", "free"}]
          /\ cur' \in [CPU -> Task \cup {NULL}] /\ into' \in [CPU -> Domain \cup {NULL}]
          /\ target_cpu' \in [CPU -> CPU \cup {NO_CPU}]
      BY <2>1 DEF add_release_done, TypeOK, return, goto
    <3>3. UNCHANGED <<now, held, release, ready, heapVars, timerVars, allocated, panic>>
      BY DEF add_release_done
    <3> QED BY <2>1, <3>1, <3>2, <3>3 DEF TypeOK, heapVars, timerVars
  <2> QED BY <2>2, <2>3
<1>3. \A b \in CPU : \/ pc'[b] = pc[b] /\ cur'[b] = cur[b] /\ into'[b] = into[b]
                     \/ pc[b] = "unlock" /\ pc'[b] = "idle"
  <2>1. CASE clock
    BY <2>1 DEF clock, cpuVars
  <2>2. CASE \E c \in CPU : add_release_done(c)
    BY <2>2 DEF add_release_done, return, goto, OnePlace, TypeOK
  <2> QED BY <2>1, <2>2
<1>4. OnePlace'
  <2>1. Hands'
    BY <1>3 DEF Counters, Hands, Carries, Adding
  <2> QED BY <1>1, <1>2, <1>3, <2>1, NoneMoves DEF Carries, Adding, heapVars
<1>5. QueueSorted' /\ Triggered' /\ Counters' /\ HeapUse' /\ TimerUse' /\ AtWork'
  BY <1>1, <1>2, <1>3, Owners, TimersKept DEF Counters, Owning, heapVars, timerVars
<1> QED BY <1>1, <1>4, <1>5

\* add_release() finds no heap for its time, or it finds one and the task
\* joins it.
LEMMA SearchStep ==
  ASSUME IInv, NEW c \in CPU,
         \/ get_release_heap(c)
         \/ use_task_heap(c) /\ matches(queue[into[c]][time2slot(release[cur[c]])], release[cur[c]])
  PROVE  IInv'
<1> USE DEF IInv
<1>0. pc[c] \in {"add", "insert"} /\ cur[c] \in Task /\ into[c] \in Domain
  BY DEF get_release_heap, use_task_heap, Counters
<1> PICK t \in Task, d \in Domain : t = cur[c] /\ d = into[c]
  BY <1>0
<1> DEFINE r == release[t]
           l == queue[d][time2slot(r)]
<1>1. pc[c] \in {"add", "insert"} /\ cur[c] = t /\ into[c] = d
  BY <1>0
<1> PICK g : g = l[position(l, r)]
  OBVIOUS
<1>2. /\ UNCHANGED <<now, held, release, ready, queue, release_time, dom, timerVars, allocated, cur, into, target_cpu, ready_lock, panic>>
      /\ tobe_lock' \in [Domain -> CPU \cup {NO_CPU}]
      /\ \/ matches(l, r) /\ heap' = [heap EXCEPT ![g] = @ \cup {t}] /\ pc' = [pc EXCEPT ![c] = "unlock"]
         \/ ~matches(l, r) /\ heap' = heap /\ pc' = [pc EXCEPT ![c] = "reinit"] /\ pc[c] = "add"
  <2>1. CASE get_release_heap(c)
    BY <1>1, <2>1 DEF get_release_heap, insert_into_found, goto, OnePlace, TypeOK
  <2>2. CASE use_task_heap(c) /\ matches(l, r)
    BY <1>1, <2>2 DEF use_task_heap, insert_into_found, goto, OnePlace, TypeOK, lockVars
  <2> QED BY <2>1, <2>2
<1>3. TypeOK /\ r \in Nat
  BY <1>1 DEF OnePlace, TypeOK
<1>4. matches(l, r) => g \in Task /\ g \in Listed /\ dom[g] = d /\ release_time[g] = r
  BY <1>1, <1>3, Found, SMTT(90)
<1>5. Outside(t) /\ Carries(c)
  BY <1>1 DEF Outside, Carries, Adding
<1>6. (\A h \in Task : t \notin heap[h]) /\ (\A e \in Domain : t \notin ready[e]) /\ t \notin held /\ t \in allocated
  BY <1>1, <1>5, Owners DEF OnePlace
<1> HIDE DEF r, l
<1>7. TypeOK'
  <2>1. heap' \in [Task -> SUBSET Task]
    <3>1. heap \in [Task -> SUBSET Task]
      BY <1>3 DEF TypeOK
    <3>2. g \in Task => heap[g] \cup {t} \in SUBSET Task
      BY <3>1
    <3> QED BY <1>2, <1>4, <3>1, <3>2, FamilyExcept
  <2>2. pc' \in [CPU -> {"idle", "add", "reinit", "insert", "arm", "unlock", "fired", "dequeued", "merged", "free"}]
    BY <1>2, <1>3 DEF TypeOK
  <2> QED BY <1>2, <1>3, <2>1, <2>2 DEF TypeOK, timerVars
<1>8. \A b \in CPU : (b # c => pc'[b] = pc[b]) /\ cur'[b] = cur[b] /\ into'[b] = into[b]
  BY <1>2, <1>3 DEF TypeOK
<1>9. CASE ~matches(l, r)
  <2>1. heap' = heap /\ pc'[c] = "reinit" /\ pc[c] = "add"
    BY <1>2, <1>3, <1>9 DEF TypeOK
  <2>2. OnePlace'
    <3>1. Hands'
      BY <1>1, <1>8, <2>1 DEF Counters, Hands, Carries, Adding
    <3> QED BY <1>2, <1>7, <1>8, <2>1, <3>1, NoneMoves DEF Carries, Adding
  <2>3. now' >= now
    BY <1>2, <1>3 DEF TypeOK
  <2>4. QueueSorted' /\ Triggered' /\ Counters' /\ HeapUse' /\ TimerUse' /\ AtWork'
    BY <1>1, <1>2, <1>7, <1>8, <2>1, <2>3, Owners, TimersKept DEF Counters, Owning, timerVars
  <2> QED BY <1>2, <2>2, <2>4
<1>10. CASE matches(l, r)
  <2>1. pc'[c] = "unlock" /\ \A h \in Task : heap'[h] = IF h = g THEN heap[h] \cup {t} ELSE heap[h]
    BY <1>2, <1>3, <1>4, <1>10 DEF TypeOK
  <2>2. OnePlace'
    <3>1. Hands'
      BY <1>1, <1>8, <2>1 DEF Counters, Hands, Carries, Adding
    <3>2. \A b \in CPU : ~(Carries(b)' /\ cur'[b] = t)
      BY <1>5, <1>8, <2>1 DEF OnePlace, Carries, Adding
    <3>3. \A h \in Task : t \in heap'[h] <=> h = g
      BY <1>4, <1>6, <1>10, <2>1
    <3>4. OneOf(t)'
      BY <1>2, <1>4, <1>6, <1>10, <3>2, <3>3 DEF OneOf, InHeap, InReady, InHand
    <3>5. ASSUME NEW x \in Task, x # t, NEW b \in CPU
          PROVE  Carries(b)' /\ cur'[b] = x <=> Carries(b) /\ cur[b] = x
      BY <1>8, <2>1, <3>5 DEF Carries, Adding
    <3>6. ASSUME NEW x \in Task, x # t PROVE \A h \in Task : x \in heap'[h] <=> x \in heap[h]
      BY <2>1, <3>6
    <3> QED BY <1>1, <1>2, <1>7, <3>1, <3>4, <3>5, <3>6, OneMoves
  <2>3. now' >= now
    BY <1>2, <1>3 DEF TypeOK
  <2>4. \A h \in Listed : h \in heap'[h] /\ \A x \in heap'[h] : release'[x] = release_time[h]
    <3> SUFFICES ASSUME NEW h \in Listed PROVE h \in heap'[h] /\ \A x \in heap'[h] : release'[x] = release_time[h]
      OBVIOUS
    <3>1. h \in Task /\ h \in heap[h] /\ \A x \in heap[h] : release[x] = release_time[h]
      BY Owners
    <3>2. release' = release /\ release[t] = r
      BY <1>2 DEF r
    <3>3. CASE h = g
      <4>1. heap'[h] = heap[h] \cup {t} /\ release_time[h] = r
        BY <1>4, <1>10, <2>1, <3>1, <3>3
      <4> QED BY <3>1, <3>2, <4>1
    <3>4. CASE h # g
      BY <2>1, <3>1, <3>2, <3>4
    <3> QED BY <3>3, <3>4
  <2>5. \A h \in Task \ Listed : heap'[h] = heap[h]
    BY <1>4, <1>10, <2>1
  <2>6. \A b \in CPU : pc'[b] = "insert" \/ Owning(b)' \/ Owning(b) => pc'[b] = pc[b] /\ cur'[b] = cur[b]
    BY <1>1, <1>8, <2>1 DEF Owning
  <2>7. QueueSorted' /\ Triggered' /\ Counters' /\ HeapUse' /\ TimerUse' /\ AtWork'
    BY <1>1, <1>2, <1>7, <1>8, <2>1, <2>3, <2>4, <2>5, <2>6, TimersKept DEF Counters, timerVars
  <2> QED BY <1>2, <2>2, <2>7
<1> QED BY <1>9, <1>10

-----------------------------------------------------------------------------
(* Steps in the life of a heap                                             *)

\* A step of processor c with the heap h and its timer leaves every other
\* heap alone.
OthersKept(c, h) ==
  /\ now' = now /\ release' = release /\ pull \subseteq pull'
  /\ \A g \in Task \ {h} :
       /\ g \in Listed' <=> g \in Listed
       /\ heap'[g] = heap[g] /\ release_time'[g] = release_time[g] /\ dom'[g] = dom[g]
       /\ timer'[g] = timer[g] /\ timer_cpu'[g] = timer_cpu[g]
       /\ g \in in_use' <=> g \in in_use
       /\ g \in allocated' <=> g \in allocated
  /\ \A b \in CPU \ {c} :
       /\ pc'[b] = pc[b] /\ cur'[b] = cur[b] /\ into'[b] = into[b]
       /\ Owning(b) \/ pc[b] = "insert" => cur[b] # h
  /\ Owning(c) => cur[c] = h

\* The invariant for the processor c and for the heap h, at which no other
\* processor is at work.
OneHeap(c, h) ==
  /\ Owning(c) \/ pc[c] = "insert" => cur[c] = h
  /\ pc[c] # "idle" => cur[c] \in Task
  /\ pc[c] \in {"add", "reinit", "insert", "arm", "unlock"} => into[c] \in Domain
  /\ heap[h] # {} =>
       /\ h \in heap[h] /\ dom[h] \in Domain
       /\ \A t \in heap[h] : release[t] = release_time[h]
       /\ h \in Listed \/ pc[c] = "dequeued"
       /\ \/ timer[h] = "armed"
          \/ timer[h] = "pull" /\ timer_cpu[h] \in pull
          \/ pc[c] \in {"arm", "fired", "dequeued"}
  /\ timer[h] \in {"armed", "pull"} => h \in Listed
  /\ timer[h] = "pull" => timer_cpu[h] \in pull
  /\ timer[h] = "running" <=> pc[c] \in {"fired", "dequeued", "merged"}
  /\ pc[c] = "insert" => timer[h] = "inactive" /\ h \notin in_use
  /\ pc[c] = "arm" => timer[h] = "inactive" /\ h \notin in_use /\ h \in Listed
  /\ pc[c] = "fired" => h \in Listed /\ release_time[h] <= now
  /\ pc[c] = "dequeued" => h \notin Listed /\ heap[h] # {} /\ release_time[h] <= now
  /\ pc[c] = "merged" => heap[h] = {} /\ h \in allocated

\* Such a step keeps the invariant if it keeps it for c and h.
LEMMA HeapStep ==
  ASSUME IInv, NEW h \in Task, NEW c \in CPU, OthersKept(c, h), OneHeap(c, h)'
  PROVE  Triggered' /\ Counters' /\ HeapUse' /\ TimerUse' /\ AtWork'
<1> USE DEF IInv, OthersKept, OneHeap
<1>1. Triggered'
  <2> SUFFICES ASSUME NEW g \in Task, heap'[g] # {}
               PROVE  \/ timer'[g] = "armed"
                      \/ timer'[g] = "pull" /\ timer_cpu'[g] \in pull'
                      \/ \E b \in CPU : cur'[b] = g /\ pc'[b] \in {"arm", "fired", "dequeued"}
    BY DEF Triggered
  <2>1. CASE g = h
    BY <2>1 DEF Owning
  <2>2. CASE g # h
    BY <2>2 DEF Triggered, Owning
  <2> QED BY <2>1, <2>2
<1>2. Counters'
  BY DEF Counters, Owning
<1>3. HeapUse'
  <2> SUFFICES ASSUME NEW g \in Task, heap'[g] # {}
               PROVE  /\ g \in heap'[g] /\ dom'[g] \in Domain
                      /\ \A t \in heap'[g] : release'[t] = release_time'[g]
                      /\ g \in Listed' \/ \E b \in CPU : pc'[b] = "dequeued" /\ cur'[b] = g
    BY DEF HeapUse
  <2>1. CASE g = h
    BY <2>1 DEF Owning
  <2>2. CASE g # h
    BY <2>2 DEF HeapUse, Owning
  <2> QED BY <2>1, <2>2
<1>4. TimerUse'
  <2> SUFFICES ASSUME NEW g \in Task
               PROVE  /\ timer'[g] \in {"armed", "pull"} => g \in Listed'
                      /\ timer'[g] = "pull" => timer_cpu'[g] \in pull'
                      /\ timer'[g] = "running" <=> \E b \in CPU : cur'[b] = g /\ pc'[b] \in {"fired", "dequeued", "merged"}
    BY DEF TimerUse
  <2>1. CASE g = h
    BY <2>1 DEF Owning
  <2>2. CASE g # h
    BY <2>2 DEF TimerUse, Owning
  <2> QED BY <2>1, <2>2
<1>5. AtWork'
  <2> SUFFICES ASSUME NEW b \in CPU, NEW g, g = cur'[b]
               PROVE  /\ pc'[b] = "insert" => timer'[g] = "inactive" /\ g \notin in_use'
                      /\ pc'[b] = "arm" => timer'[g] = "inactive" /\ g \notin in_use' /\ g \in Listed'
                      /\ pc'[b] = "fired" => g \in Listed' /\ release_time'[g] <= now'
                      /\ pc'[b] = "dequeued" => g \notin Listed' /\ heap'[g] # {} /\ release_time'[g] <= now'
                      /\ pc'[b] = "merged" => heap'[g] = {} /\ g \in allocated'
    BY DEF AtWork
  <2>1. CASE b = c
    BY <2>1 DEF Owning
  <2>2. CASE b # c
    <3>1. pc[b] = pc'[b] /\ cur[b] = g /\ (Owning(b) \/ pc[b] = "insert" => g \in Task \ {h})
      BY <2>2 DEF Counters, Owning
    <3> QED BY <3>1 DEF AtWork, Owning
  <2> QED BY <2>1, <2>2
<1> QED BY <1>1, <1>2, <1>3, <1>4, <1>5

\* What is known when processor c is about to use the heap of the task it
\* carries, or to free it, and no callback runs.
LEMMA Idle ==
  ASSUME IInv, NEW c \in CPU, NEW h \in Task, Carries(c), cur[c] = h, timer[h] # "running"
  PROVE  /\ timer[h] = "inactive" /\ heap[h] = {} /\ h \notin Listed /\ h \in allocated
         /\ \A g \in Task : h \notin heap[g]
         /\ \A d \in Domain : h \notin ready[d]
         /\ h \notin held
         /\ \A b \in CPU \ {c} : ~(Carries(b) /\ cur[b] = h)
         /\ \A b \in CPU : Owning(b) \/ pc[b] = "insert" => b = c \/ cur[b] # h
<1> USE DEF IInv
<1>1. Outside(h)
  BY DEF Outside
<1>2. /\ timer[h] = "inactive" /\ heap[h] = {} /\ h \notin Listed
      /\ \A g \in Task : h \notin heap[g]
      /\ \A d \in Domain : h \notin ready[d]
  BY <1>1, Owners
<1>3. h \notin held /\ h \in allocated /\ \A b \in CPU \ {c} : ~(Carries(b) /\ cur[b] = h)
  BY DEF OnePlace
<1>4. ASSUME NEW b \in CPU, Owning(b) \/ pc[b] = "insert", b # c PROVE cur[b] # h
  <2>1. pc[b] = "insert" => Carries(b)
    BY DEF Carries, Adding
  <2>2. pc[b] = "arm" => cur[b] # h
    BY <1>2 DEF AtWork
  <2>3. pc[b] \in {"fired", "dequeued", "merged"} => cur[b] # h
    BY DEF TimerUse
  <2> QED BY <1>3, <1>4, <2>1, <2>2, <2>3 DEF Owning
<1> QED BY <1>2, <1>3, <1>4

\* A task makes its own heap ready for use.
LEMMA ReinitStep ==
  ASSUME IInv, NEW c \in CPU, reinit_release_heap(c)
  PROVE  IInv'
<1> USE DEF IInv
<1> PICK h \in Task : h = cur[c]
  BY DEF Counters, reinit_release_heap
<1>1. /\ pc[c] = "reinit" /\ timer[h] # "running" /\ cur[c] = h
      /\ panic' = (panic \/ timer[h] = "armed")
      /\ timer' = [timer EXCEPT ![h] = IF timer[h] = "armed" THEN "inactive" ELSE timer[h]]
      /\ heap' = [heap EXCEPT ![h] = {}]
      /\ in_use' = in_use \ {h} /\ pc' = [pc EXCEPT ![c] = "insert"]
      /\ UNCHANGED <<now, held, release, ready, queue, release_time, dom,
                    timer_cpu, pull, allocated, cur, into, target_cpu, lockVars>>
  BY DEF reinit_release_heap, goto, BugOn
<1>2. TypeOK /\ panic = FALSE
  BY DEF OnePlace, TypeOK
<1>3. /\ timer[h] = "inactive" /\ heap[h] = {} /\ h \notin Listed
      /\ \A b \in CPU \ {c} : Owning(b) \/ pc[b] = "insert" => cur[b] # h
  BY <1>1, Idle DEF Carries, Adding
<1>4. panic' = FALSE
  BY <1>1, <1>2, <1>3
<1>5. heap' = heap /\ timer' = timer
  <2>1. heap \in [Task -> SUBSET Task] /\ timer \in [Task -> {"inactive", "pull", "armed", "running"}]
    BY <1>2 DEF TypeOK
  <2> QED BY <1>1, <1>3, <2>1
<1>6. TypeOK'
  BY <1>1, <1>2, <1>4, <1>5 DEF TypeOK, lockVars
<1>7. /\ \A b \in CPU \ {c} : pc'[b] = pc[b]
      /\ pc'[c] = "insert"
  BY <1>1, <1>2 DEF TypeOK
<1>8. OnePlace'
  <2>1. Hands'
    BY <1>1, <1>7 DEF Counters, Hands, Carries, Adding
  <2> QED BY <1>1, <1>5, <1>6, <1>7, <2>1, NoneMoves DEF Carries, Adding
<1>9. QueueSorted' /\ Listed' = Listed
  BY <1>1, <1>2, <1>5, Owners, QueueKept
<1>10. into'[c] \in Domain
  BY <1>1 DEF Counters
<1>11. \A g \in Task \ {h} : g \in in_use' <=> g \in in_use
  BY <1>1
<1>12. Triggered' /\ Counters' /\ HeapUse' /\ TimerUse' /\ AtWork'
  <2>1. OthersKept(c, h)
    BY <1>1, <1>3, <1>5, <1>7, <1>9, <1>11 DEF OthersKept, Owning
  <2>2. OneHeap(c, h)'
    BY <1>1, <1>3, <1>5, <1>7, <1>9, <1>10 DEF OneHeap, Owning
  <2> QED BY <2>1, <2>2, HeapStep
<1> QED BY <1>4, <1>8, <1>9, <1>12

\* A task lends its own heap.
LEMMA LendStep ==
  ASSUME IInv, NEW c \in CPU, use_task_heap(c),
         ~matches(queue[into[c]][time2slot(release[cur[c]])], release[cur[c]])
  PROVE  IInv'
<1> USE DEF IInv
<1> PICK h \in Task, d \in Domain : h = cur[c] /\ d = into[c]
  BY DEF Counters, use_task_heap
<1>1. /\ pc[c] = "insert" /\ cur[c] = h /\ into[c] = d
      /\ ~matches(queue[d][time2slot(release[h])], release[h])
      /\ queue' = [queue EXCEPT ![d][time2slot(release[h])] =
                     list_add(queue[d][time2slot(release[h])],
                              position(queue[d][time2slot(release[h])], release[h]), h)]
      /\ release_time' = [release_time EXCEPT ![h] = release[h]]
      /\ dom' = [dom EXCEPT ![h] = d]
      /\ heap' = [heap EXCEPT ![h] = heap[h] \cup {h}]
      /\ pc' = [pc EXCEPT ![c] = "arm"]
      /\ UNCHANGED <<now, held, release, ready, timerVars, allocated, cur, into,
                     target_cpu, lockVars, panic>>
  BY DEF use_task_heap, goto
<1>2. TypeOK
  BY DEF OnePlace
<1>3. timer[h] = "inactive" /\ h \notin in_use
  BY <1>1 DEF AtWork
<1>4. /\ heap[h] = {} /\ h \notin Listed /\ h \in allocated
      /\ \A g \in Task : h \notin heap[g]
      /\ \A e \in Domain : h \notin ready[e]
      /\ h \notin held
      /\ \A b \in CPU \ {c} : ~(Carries(b) /\ cur[b] = h)
      /\ \A b \in CPU \ {c} : Owning(b) \/ pc[b] = "insert" => cur[b] # h
  BY <1>1, <1>3, Idle, SMTT(30) DEF Carries, Adding
<1>5. heap' = [heap EXCEPT ![h] = {h}]
  <2>1. heap[h] \cup {h} = {h}
    BY <1>4
  <2> QED BY <1>1, <2>1
<1>6. /\ queue' \in [Domain -> [Slot -> Seq(Task)]]
      /\ QueueSorted' /\ Listed' = Listed \cup {h}
  BY <1>1, <1>2, <1>4, <1>5, QueueAdd
<1>7. heap' \in [Task -> SUBSET Task] /\ \A g \in Task : heap'[g] = IF g = h THEN {h} ELSE heap[g]
  BY <1>2, <1>5, FamilyExcept DEF TypeOK
<1>8. /\ release_time' \in [Task -> Nat] /\ dom' \in [Task -> Domain \cup {NULL}]
      /\ pc' \in [CPU -> {"idle", "add", "reinit", "insert", "arm", "unlock", "fired", "dequeued", "merged", "free"}]
      /\ \A g \in Task \ {h} : release_time'[g] = release_time[g] /\ dom'[g] = dom[g]
      /\ release_time'[h] = release[h] /\ dom'[h] = d
      /\ \A b \in CPU \ {c} : pc'[b] = pc[b]
      /\ pc'[c] = "arm"
  BY <1>1, <1>2 DEF TypeOK
<1>9. TypeOK'
  BY <1>1, <1>2, <1>6, <1>7, <1>8 DEF TypeOK, timerVars, lockVars
<1>10. OnePlace'
  <2>1. Hands'
    BY <1>1, <1>8 DEF Counters, Hands, Carries, Adding
  <2>2. \A b \in CPU : ~(Carries(b)' /\ cur'[b] = h)
    BY <1>1, <1>4, <1>8 DEF Carries, Adding
  <2>3. \A g \in Task : h \in heap'[g] <=> g = h
    BY <1>4, <1>7
  <2>4. OneOf(h)'
    BY <1>1, <1>4, <2>2, <2>3 DEF OneOf, InHeap, InReady, InHand
  <2>5. ASSUME NEW x \in Task, x # h, NEW b \in CPU
        PROVE  Carries(b)' /\ cur'[b] = x <=> Carries(b) /\ cur[b] = x
    BY <1>1, <1>8, <2>5 DEF Carries, Adding
  <2>6. ASSUME NEW x \in Task, x # h PROVE \A g \in Task : x \in heap'[g] <=> x \in heap[g]
    BY <1>4, <1>7, <2>6
  <2> QED BY <1>1, <1>9, <2>1, <2>4, <2>5, <2>6, OneMoves
<1>11. \A g \in Task \ {h} : g \in Listed' <=> g \in Listed
  BY <1>6
<1>12. UNCHANGED <<timer, timer_cpu, in_use, pull>>
  BY <1>1 DEF timerVars
<1>13. Triggered' /\ Counters' /\ HeapUse' /\ TimerUse' /\ AtWork'
  <2>1. heap'[h] = {h} /\ h \in Listed' /\ timer'[h] = "inactive" /\ h \notin in_use'
    BY <1>3, <1>6, <1>7, <1>12
  <2>2. h \in heap'[h] /\ dom'[h] \in Domain /\ \A t \in heap'[h] : release[t] = release_time'[h]
    BY <1>8, <2>1
  <2>3. UNCHANGED <<now, release, allocated, cur, into>> /\ cur'[c] = h /\ into'[c] = d /\ pc[c] = "insert"
    BY <1>1
  <2>4. \A g \in Task \ {h} : heap'[g] = heap[g]
    BY <1>7
  <2>5. OthersKept(c, h)
    BY <1>4, <1>8, <1>11, <1>12, <2>3, <2>4 DEF OthersKept, Owning
  <2>6. OneHeap(c, h)'
    BY <1>8, <2>1, <2>2, <2>3 DEF OneHeap, Owning
  <2> QED BY <2>5, <2>6, HeapStep
<1> QED BY <1>1, <1>6, <1>10, <1>13

\* Nobody else is at work on the heap whose timer c owns, or on one whose
\* timer is started.
LEMMA Alone ==
  ASSUME IInv, NEW h \in Task
  PROVE  /\ \A c \in CPU : Owning(c) /\ cur[c] = h =>
              \A b \in CPU \ {c} : Owning(b) \/ pc[b] = "insert" => cur[b] # h
         /\ timer[h] \in {"armed", "pull"} =>
              \A b \in CPU : Owning(b) \/ pc[b] = "insert" => cur[b] # h
<1> USE DEF IInv
<1>1. ASSUME NEW b \in CPU, pc[b] = "insert", cur[b] = h
      PROVE  timer[h] = "inactive" /\ h \notin Listed
  <2>1. Outside(h)
    BY <1>1 DEF Outside, Carries, Adding
  <2> QED BY <1>1, <2>1, Owners DEF AtWork
<1>2. ASSUME NEW c \in CPU, Owning(c), cur[c] = h
      PROVE  timer[h] = "running" \/ (timer[h] = "inactive" /\ h \in Listed)
  BY <1>2 DEF Owning, TimerUse, AtWork
<1>3. \A b, c \in CPU : Owning(b) /\ Owning(c) /\ cur[b] = cur[c] => b = c
  BY DEF Counters
<1> QED BY <1>1, <1>2, <1>3

\* Timers move on, heaps, lists and tasks stay.
LEMMA TypeOfTimers ==
  ASSUME TypeOK, UNCHANGED <<now, held, release, ready, heapVars, allocated, lockVars, panic>>,
         in_use' \subseteq Task, pull' \subseteq CPU,
         timer' \in [Task -> {"inactive", "pull", "armed", "running"}],
         timer_cpu' \in [Task -> CPU \cup {NO_CPU}],
         pc' \in [CPU -> {"idle", "add", "reinit", "insert", "arm", "unlock", "fired", "dequeued", "merged", "free"}],
         cur' \in [CPU -> Task \cup {NULL}], into' \in [CPU -> Domain \cup {NULL}],
         target_cpu' \in [CPU -> CPU \cup {NO_CPU}]
  PROVE  TypeOK'
BY DEF TypeOK, heapVars, lockVars

\* The owner of a heap arms its timer, or asks another processor to.
LEMMA ArmStep ==
  ASSUME IInv, NEW c \in CPU, arm_release_timer(c)
  PROVE  IInv'
<1> USE DEF IInv
<1> PICK h \in Task : h = cur[c]
  BY DEF Counters, arm_release_timer
<1> PICK to : to = IF target_cpu[c] # NO_CPU THEN target_cpu[c] ELSE release_master
  OBVIOUS
<1>1. /\ pc[c] = "arm" /\ cur[c] = h /\ pc' = [pc EXCEPT ![c] = "unlock"]
      /\ UNCHANGED <<now, held, release, ready, heapVars, allocated, cur, into, target_cpu, lockVars, panic>>
  BY DEF arm_release_timer, goto
<1>2. TypeOK
  BY DEF OnePlace
<1>3. timer[h] = "inactive" /\ h \notin in_use /\ h \in Listed
  BY <1>1 DEF AtWork
<1>4. to \in CPU \cup {NO_CPU}
  BY <1>2, ConstantsAssumption DEF TypeOK
<1>5. PICK w \in {"armed", "pull"}, p \in CPU :
        /\ timer' = [timer EXCEPT ![h] = w] /\ timer_cpu' = [timer_cpu EXCEPT ![h] = p]
        /\ in_use' \in {in_use, in_use \cup {h}}
        /\ pull' \in SUBSET CPU /\ pull \subseteq pull' /\ (w = "pull" => p \in pull')
  <2>1. pull \subseteq CPU
    BY <1>2 DEF TypeOK
  <2>2. CASE to = NO_CPU
    <3>1. /\ timer' = [timer EXCEPT ![h] = "armed"] /\ timer_cpu' = [timer_cpu EXCEPT ![h] = c]
          /\ in_use' = in_use /\ pull' = pull
      BY <2>2 DEF arm_release_timer
    <3> QED BY <2>1, <3>1
  <2>3. CASE to # NO_CPU
    <3>1. hrtimer_start_on(c, h, to) /\ to \in CPU
      BY <1>4, <2>3 DEF arm_release_timer
    <3>2. /\ timer' = [timer EXCEPT ![h] = IF to = c THEN "armed" ELSE "pull"]
          /\ timer_cpu' = [timer_cpu EXCEPT ![h] = to]
          /\ in_use' = in_use \cup {h}
          /\ pull' = IF to # c /\ ~\E g \in Task : timer[g] = "pull" /\ timer_cpu[g] = to
                     THEN pull \cup {to} ELSE pull
      BY <1>3, <3>1 DEF hrtimer_start_on
    <3>3. (\E g \in Task : timer[g] = "pull" /\ timer_cpu[g] = to) => to \in pull
      BY DEF TimerUse
    <3> QED BY <2>1, <3>1, <3>2, <3>3
  <2> QED BY <2>2, <2>3
<1>6. /\ \A b \in CPU \ {c} : pc'[b] = pc[b]
      /\ pc'[c] = "unlock"
      /\ timer'[h] = w /\ timer_cpu'[h] = p
      /\ \A g \in Task \ {h} : timer'[g] = timer[g] /\ timer_cpu'[g] = timer_cpu[g]
  BY <1>1, <1>2, <1>5 DEF TypeOK
<1>7. TypeOK'
  <2>1. /\ in_use' \subseteq Task
        /\ timer' \in [Task -> {"inactive", "pull", "armed", "running"}]
        /\ timer_cpu' \in [Task -> CPU \cup {NO_CPU}]
    BY <1>2, <1>5 DEF TypeOK
  <2>2. /\ pc' \in [CPU -> {"idle", "add", "reinit", "insert", "arm", "unlock", "fired", "dequeued", "merged", "free"}]
        /\ cur' \in [CPU -> Task \cup {NULL}] /\ into' \in [CPU -> Domain \cup {NULL}]
        /\ target_cpu' \in [CPU -> CPU \cup {NO_CPU}]
    BY <1>1, <1>2 DEF TypeOK
  <2> QED BY <1>1, <1>2, <1>5, <2>1, <2>2, TypeOfTimers
<1>8. OnePlace'
  <2>1. Hands'
    BY <1>1, <1>6 DEF Counters, Hands, Carries, Adding
  <2> QED BY <1>1, <1>6, <1>7, <2>1, NoneMoves DEF Carries, Adding, heapVars
<1>9. QueueSorted' /\ Listed' = Listed
  BY <1>1, <1>2, Owners, QueueKept DEF heapVars
<1>10. Triggered' /\ Counters' /\ HeapUse' /\ TimerUse' /\ AtWork'
  <2>1. \A b \in CPU \ {c} : Owning(b) \/ pc[b] = "insert" => cur[b] # h
    BY <1>1, Alone DEF Owning
  <2>2. OthersKept(c, h)
    BY <1>1, <1>5, <1>6, <1>9, <2>1 DEF OthersKept, heapVars
  <2>3. h \in heap[h] /\ dom[h] \in Domain /\ \A t \in heap[h] : release[t] = release_time[h]
    BY <1>3, Owners
  <2>4. into'[c] \in Domain /\ cur'[c] = h /\ UNCHANGED <<now, release, heap, release_time, dom, allocated>>
    BY <1>1 DEF Counters, heapVars
  <2>5. OneHeap(c, h)'
    BY <1>3, <1>5, <1>6, <1>9, <2>3, <2>4 DEF OneHeap, Owning
  <2> QED BY <2>2, <2>5, HeapStep
<1> QED BY <1>1, <1>8, <1>9, <1>10

\* A processor starts the timers that were sent to it.
LEMMA PullStep ==
  ASSUME IInv, NEW c \in CPU, hrtimer_pull(c)
  PROVE  IInv'
<1> USE DEF IInv
<1>1. /\ pull' = pull \ {c}
      /\ timer' = [h \in Task |-> IF timer[h] = "pull" /\ timer_cpu[h] = c THEN "armed" ELSE timer[h]]
      /\ UNCHANGED <<now, held, release, ready, heapVars, timer_cpu, in_use, allocated, cpuVars, lockVars, panic>>
  BY DEF hrtimer_pull
<1>2. TypeOK
  BY DEF OnePlace
<1>3. TypeOK'
  <2>1. timer' \in [Task -> {"inactive", "pull", "armed", "running"}]
    BY <1>1, <1>2 DEF TypeOK
  <2> QED BY <1>1, <1>2, <2>1, TypeOfTimers DEF TypeOK, cpuVars
<1>4. OnePlace'
  <2>1. Hands'
    BY <1>1 DEF Counters, Hands, Carries, Adding, cpuVars
  <2> QED BY <1>1, <1>3, <2>1, NoneMoves DEF Carries, Adding, heapVars, cpuVars
<1>5. QueueSorted' /\ Listed' = Listed
  BY <1>1, <1>2, Owners, QueueKept DEF heapVars
<1>6. \A h \in Task : \/ timer'[h] = timer[h] /\ ~(timer[h] = "pull" /\ timer_cpu[h] = c)
                      \/ timer'[h] = "armed" /\ timer[h] = "pull"
  BY <1>1
<1>7. Triggered'
  BY <1>1, <1>6 DEF Triggered, heapVars, cpuVars
<1>8. Counters' /\ HeapUse'
  BY <1>1, <1>5 DEF Counters, HeapUse, Owning, heapVars, cpuVars
<1>9. TimerUse'
  BY <1>1, <1>5, <1>6 DEF TimerUse, cpuVars
<1>10. AtWork'
  <2>1. \A b \in CPU : pc[b] \in {"insert", "arm"} => cur[b] \in Task /\ timer'[cur[b]] = timer[cur[b]]
    BY <1>6 DEF AtWork, Counters
  <2> QED BY <1>1, <1>5, <2>1 DEF AtWork, heapVars, cpuVars
<1> QED BY <1>1, <1>4, <1>5, <1>7, <1>8, <1>9, <1>10

\* A timer expires.
LEMMA FireStep ==
  ASSUME IInv, NEW c \in CPU, NEW h \in Task, hrtimer_interrupt(c, h)
  PROVE  IInv'
<1> USE DEF IInv
<1>1. /\ pc[c] = "idle" /\ timer[h] = "armed" /\ release_time[h] <= now
      /\ timer' = [timer EXCEPT ![h] = "running"]
      /\ cur' = [cur EXCEPT ![c] = h] /\ pc' = [pc EXCEPT ![c] = "fired"]
      /\ UNCHANGED <<now, held, release, ready, heapVars, timer_cpu, in_use, pull,
                     allocated, into, target_cpu, lockVars, panic>>
  BY DEF hrtimer_interrupt, Open, goto
<1>2. TypeOK
  BY DEF OnePlace
<1>3. h \in Listed
  BY <1>1 DEF TimerUse
<1>4. /\ \A b \in CPU \ {c} : pc'[b] = pc[b] /\ cur'[b] = cur[b]
      /\ pc'[c] = "fired" /\ cur'[c] = h
      /\ timer'[h] = "running" /\ \A g \in Task \ {h} : timer'[g] = timer[g]
  BY <1>1, <1>2 DEF TypeOK
<1>5. TypeOK'
  <2>1. /\ timer' \in [Task -> {"inactive", "pull", "armed", "running"}]
        /\ pc' \in [CPU -> {"idle", "add", "reinit", "insert", "arm", "unlock", "fired", "dequeued", "merged", "free"}]
        /\ cur' \in [CPU -> Task \cup {NULL}]
    BY <1>1, <1>2 DEF TypeOK
  <2> QED BY <1>1, <1>2, <2>1, TypeOfTimers DEF TypeOK
<1>6. OnePlace'
  <2>1. Hands'
    BY <1>1, <1>4 DEF Counters, Hands, Carries, Adding
  <2> QED BY <1>1, <1>4, <1>5, <2>1, NoneMoves DEF Carries, Adding, heapVars
<1>7. QueueSorted' /\ Listed' = Listed
  BY <1>1, <1>2, Owners, QueueKept DEF heapVars
<1>8. Triggered' /\ Counters' /\ HeapUse' /\ TimerUse' /\ AtWork'
  <2>1. \A b \in CPU : Owning(b) \/ pc[b] = "insert" => cur[b] # h
    BY <1>1, Alone
  <2>2. OthersKept(c, h)
    BY <1>1, <1>4, <1>7, <2>1 DEF OthersKept, heapVars, Owning
  <2>3. dom[h] \in Domain /\ h \in heap[h] /\ \A t \in heap[h] : release[t] = release_time[h]
    BY <1>3, Owners
  <2>4. UNCHANGED <<now, release, heap, release_time, dom, allocated>>
    BY <1>1 DEF heapVars
  <2>5. OneHeap(c, h)'
    BY <1>1, <1>3, <1>4, <1>7, <2>3, <2>4 DEF OneHeap, Owning
  <2> QED BY <2>2, <2>5, HeapStep
<1> QED BY <1>1, <1>6, <1>7, <1>8

\* The callback takes the heap off its list.
LEMMA DequeueStep ==
  ASSUME IInv, NEW c \in CPU, on_release_timer(c)
  PROVE  IInv'
<1> USE DEF IInv
<1> PICK h \in Task : h = cur[c]
  BY DEF Counters, on_release_timer
<1>1. /\ pc[c] = "fired" /\ cur[c] = h /\ pc' = [pc EXCEPT ![c] = "dequeued"]
      /\ queue' = [queue EXCEPT ![dom[h]][time2slot(release_time[h])] =
                     list_del(queue[dom[h]][time2slot(release_time[h])], h)]
      /\ UNCHANGED <<now, held, release, ready, heap, release_time, dom,
                     timerVars, allocated, cur, into, target_cpu, lockVars, panic>>
  BY DEF on_release_timer, goto
<1>2. TypeOK
  BY DEF OnePlace
<1>3. h \in Listed /\ release_time[h] <= now /\ timer[h] = "running"
  BY <1>1 DEF AtWork, TimerUse
<1>4. /\ queue' \in [Domain -> [Slot -> Seq(Task)]]
      /\ QueueSorted' /\ Listed' = Listed \ {h}
  BY <1>1, <1>2, <1>3, QueueDel
<1>5. /\ \A b \in CPU \ {c} : pc'[b] = pc[b]
      /\ pc'[c] = "dequeued"
      /\ pc' \in [CPU -> {"idle", "add", "reinit", "insert", "arm", "unlock", "fired", "dequeued", "merged", "free"}]
  BY <1>1, <1>2 DEF TypeOK
<1>6. TypeOK'
  BY <1>1, <1>2, <1>4, <1>5 DEF TypeOK, timerVars, lockVars
<1>7. OnePlace'
  <2>1. Hands'
    BY <1>1, <1>5 DEF Counters, Hands, Carries, Adding
  <2> QED BY <1>1, <1>5, <1>6, <2>1, NoneMoves DEF Carries, Adding
<1>8. Triggered' /\ Counters' /\ HeapUse' /\ TimerUse' /\ AtWork'
  <2>1. \A b \in CPU \ {c} : Owning(b) \/ pc[b] = "insert" => cur[b] # h
    BY <1>1, Alone DEF Owning
  <2>2. UNCHANGED <<now, release, heap, release_time, dom, allocated, cur, into, timer, timer_cpu, in_use, pull>>
    BY <1>1 DEF timerVars
  <2>3. OthersKept(c, h)
    BY <1>1, <1>4, <1>5, <2>1, <2>2 DEF OthersKept
  <2>4. dom[h] \in Domain /\ h \in heap[h] /\ \A t \in heap[h] : release[t] = release_time[h]
    BY <1>3, Owners
  <2>5. OneHeap(c, h)'
    BY <1>1, <1>3, <1>4, <1>5, <2>2, <2>4 DEF OneHeap, Owning
  <2> QED BY <2>3, <2>5, HeapStep
<1> QED BY <1>1, <1>4, <1>7, <1>8

\* The callback returns.
LEMMA CallbackStep ==
  ASSUME IInv, NEW c \in CPU, callback_done(c)
  PROVE  IInv'
<1> USE DEF IInv
<1> PICK h \in Task : h = cur[c]
  BY DEF Counters, callback_done
<1>1. /\ pc[c] = "merged" /\ cur[c] = h /\ pc' = [pc EXCEPT ![c] = "idle"]
      /\ timer' = [timer EXCEPT ![h] = "inactive"] /\ timer_cpu' = [timer_cpu EXCEPT ![h] = NO_CPU]
      /\ cur' = [cur EXCEPT ![c] = NULL] /\ into' = [into EXCEPT ![c] = NULL]
      /\ target_cpu' = [target_cpu EXCEPT ![c] = NO_CPU]
      /\ UNCHANGED <<now, held, release, ready, heapVars, in_use, pull, allocated, lockVars, panic>>
  BY DEF callback_done, return, goto
<1>2. TypeOK
  BY DEF OnePlace
<1>3. heap[h] = {}
  BY <1>1 DEF AtWork
<1>4. /\ \A b \in CPU \ {c} : pc'[b] = pc[b] /\ cur'[b] = cur[b] /\ into'[b] = into[b]
      /\ pc'[c] = "idle"
      /\ timer'[h] = "inactive"
      /\ \A g \in Task \ {h} : timer'[g] = timer[g] /\ timer_cpu'[g] = timer_cpu[g]
  BY <1>1, <1>2 DEF TypeOK
<1>5. TypeOK'
  <2>1. /\ timer' \in [Task -> {"inactive", "pull", "armed", "running"}]
        /\ timer_cpu' \in [Task -> CPU \cup {NO_CPU}]
        /\ pc' \in [CPU -> {"idle", "add", "reinit", "insert", "arm", "unlock", "fired", "dequeued", "merged", "free"}]
        /\ cur' \in [CPU -> Task \cup {NULL}] /\ into' \in [CPU -> Domain \cup {NULL}]
        /\ target_cpu' \in [CPU -> CPU \cup {NO_CPU}]
        /\ in_use' \subseteq Task /\ pull' \subseteq CPU
    BY <1>1, <1>2 DEF TypeOK
  <2> QED BY <1>1, <1>2, <2>1, TypeOfTimers
<1>6. OnePlace'
  <2>1. Hands'
    BY <1>1, <1>4 DEF Counters, Hands, Carries, Adding
  <2> QED BY <1>1, <1>4, <1>5, <2>1, NoneMoves DEF Carries, Adding, heapVars
<1>7. QueueSorted' /\ Listed' = Listed
  BY <1>1, <1>2, Owners, QueueKept DEF heapVars
<1>8. Triggered' /\ Counters' /\ HeapUse' /\ TimerUse' /\ AtWork'
  <2>1. \A b \in CPU \ {c} : Owning(b) \/ pc[b] = "insert" => cur[b] # h
    BY <1>1, Alone DEF Owning
  <2>2. OthersKept(c, h)
    BY <1>1, <1>4, <1>7, <2>1 DEF OthersKept, heapVars
  <2>3. heap'[h] = {}
    BY <1>1, <1>3 DEF heapVars
  <2>4. OneHeap(c, h)'
    BY <1>4, <2>3 DEF OneHeap, Owning
  <2> QED BY <2>2, <2>4, HeapStep
<1> QED BY <1>1, <1>6, <1>7, <1>8

\* The callback merges the tasks of the heap into the ready queue.
LEMMA ReleaseStep ==
  ASSUME IInv, NEW c \in CPU, release_jobs(c)
  PROVE  IInv'
<1> USE DEF IInv
<1> PICK h \in Task : h = cur[c]
  BY DEF Counters, release_jobs
<1> PICK d : d = dom[h]
  OBVIOUS
<1>1. /\ pc[c] = "dequeued" /\ cur[c] = h /\ pc' = [pc EXCEPT ![c] = "merged"]
      /\ ready' = [ready EXCEPT ![d] = ready[d] \cup heap[h]]
      /\ heap' = [heap EXCEPT ![h] = {}]
      /\ UNCHANGED <<now, held, release, queue, release_time, dom, timerVars,
                     allocated, cur, into, target_cpu, lockVars, panic>>
  BY DEF release_jobs, goto
<1>2. TypeOK
  BY DEF OnePlace
<1>3. h \notin Listed /\ heap[h] # {} /\ timer[h] = "running"
  BY <1>1 DEF AtWork, TimerUse
<1>4. d \in Domain /\ h \in heap[h]
  BY <1>3 DEF HeapUse
<1>5. h \in allocated
  BY <1>4 DEF OnePlace, is_queued
<1>6. /\ heap' \in [Task -> SUBSET Task]
      /\ ready' \in [Domain -> SUBSET Task]
      /\ \A g \in Task : heap'[g] = IF g = h THEN {} ELSE heap[g]
      /\ \A e \in Domain : ready'[e] = IF e = d THEN ready[d] \cup heap[h] ELSE ready[e]
  <2>1. heap \in [Task -> SUBSET Task] /\ ready \in [Domain -> SUBSET Task]
    BY <1>2 DEF TypeOK
  <2>2. ready[d] \cup heap[h] \in SUBSET Task
    BY <1>4, <2>1
  <2> QED BY <1>1, <1>4, <2>1, <2>2, FamilyExcept
<1>7. /\ \A b \in CPU \ {c} : pc'[b] = pc[b]
      /\ pc'[c] = "merged"
      /\ pc' \in [CPU -> {"idle", "add", "reinit", "insert", "arm", "unlock", "fired", "dequeued", "merged", "free"}]
  BY <1>1, <1>2 DEF TypeOK
<1>8. TypeOK'
  BY <1>1, <1>2, <1>6, <1>7 DEF TypeOK, timerVars, lockVars
<1>9. OnePlace'
  <2>1. Hands /\ Hands'
    BY <1>1, <1>7 DEF Counters, Hands, Carries, Adding
  <2>2. ASSUME NEW x \in Task PROVE OneOf(x)'
    <3>1. OneOf(x)
      BY <2>1, TaskByTaskStep
    <3>2. \A b \in CPU : Carries(b)' /\ cur'[b] = x <=> Carries(b) /\ cur[b] = x
      BY <1>1, <1>7 DEF Carries, Adding
    <3>3. InHand(x)' <=> InHand(x)
      BY <3>2 DEF InHand
    <3>4. CASE x \in heap[h]
      <4>1. InHeap(x) /\ ~InReady(x) /\ ~InHand(x) /\ x \notin held /\ x \in allocated
        BY <3>1, <3>4 DEF OneOf, InHeap
      <4>2. (\A g \in Task : x \notin heap'[g]) /\ \A e \in Domain : x \in ready'[e] <=> e = d
        BY <1>4, <1>6, <3>1, <3>4, <4>1 DEF OneOf, InReady
      <4>3. ~InHeap(x)' /\ InReady(x)'
        BY <1>4, <4>2 DEF InHeap, InReady
      <4> QED BY <1>1, <3>1, <3>2, <3>3, <4>1, <4>2, <4>3 DEF OneOf
    <3>5. CASE x \notin heap[h]
      <4>1. (\A g \in Task : x \in heap'[g] <=> x \in heap[g]) /\ \A e \in Domain : x \in ready'[e] <=> x \in ready[e]
        BY <1>4, <1>6, <3>5
      <4>2. (InHeap(x)' <=> InHeap(x)) /\ (InReady(x)' <=> InReady(x))
        BY <4>1 DEF InHeap, InReady
      <4> QED BY <1>1, <3>1, <3>2, <3>3, <4>1, <4>2 DEF OneOf
    <3> QED BY <3>4, <3>5
  <2> QED BY <1>8, <2>1, <2>2, TaskByTaskStep
<1>10. QueueSorted' /\ Listed' = Listed
  <2>1. \A g \in Listed : g \in Task /\ g # h
    BY <1>3, Owners
  <2> QED BY <1>1, <1>2, <1>6, <2>1, Owners, QueueKept
<1>11. Triggered' /\ Counters' /\ HeapUse' /\ TimerUse' /\ AtWork'
  <2>1. \A b \in CPU \ {c} : Owning(b) \/ pc[b] = "insert" => cur[b] # h
    BY <1>1, Alone DEF Owning
  <2>2. UNCHANGED <<now, release, release_time, dom, allocated, cur, into, timer, timer_cpu, in_use, pull>>
    BY <1>1 DEF timerVars
  <2>3. OthersKept(c, h)
    BY <1>1, <1>6, <1>7, <1>10, <2>1, <2>2 DEF OthersKept
  <2>4. OneHeap(c, h)'
    BY <1>1, <1>3, <1>5, <1>6, <1>7, <1>10, <2>2 DEF OneHeap, Owning
  <2> QED BY <2>3, <2>4, HeapStep
<1> QED BY <1>1, <1>9, <1>10, <1>11

\* A task enters real-time mode with a new heap.
LEMMA AdmitStep ==
  ASSUME IInv, NEW c \in CPU, NEW t \in Task, admit_task(c, t)
  PROVE  IInv'
<1> USE DEF IInv
<1>1. /\ pc[c] = "idle" /\ t \notin allocated /\ allocated' = allocated \cup {t}
      /\ timer' = [timer EXCEPT ![t] = "inactive"] /\ heap' = [heap EXCEPT ![t] = {}]
      /\ held' = held \cup {t}
      /\ UNCHANGED <<now, release, ready, queue, release_time, dom, timer_cpu, pull, cpuVars, lockVars, panic>>
  BY DEF admit_task, Open
<1>2. in_use' \subseteq in_use \cup {t} /\ \A g \in Task \ {t} : g \in in_use' <=> g \in in_use
  <2> PICK garbage \in SUBSET {t} : in_use' = (in_use \ {t}) \cup garbage
    BY DEF admit_task
  <2> QED OBVIOUS
<1>3. TypeOK /\ Outside(t)
  BY <1>1 DEF OnePlace, Outside
<1>4. /\ \A h \in Task : t \notin heap[h]
      /\ \A d \in Domain : t \notin ready[d]
      /\ heap[t] = {} /\ t \notin Listed
  BY <1>3, Owners
<1>5. timer[t] = "inactive"
  <2>1. ~\E b \in CPU : pc[b] = "merged" /\ cur[b] = t
    BY <1>1 DEF AtWork
  <2> QED BY <1>3, <2>1, Owners
<1>6. heap' = heap /\ timer' = timer
  <2>1. heap \in [Task -> SUBSET Task] /\ timer \in [Task -> {"inactive", "pull", "armed", "running"}]
    BY <1>3 DEF TypeOK
  <2> QED BY <1>1, <1>4, <1>5, <2>1
<1>7. TypeOK'
  BY <1>1, <1>2, <1>3, <1>6 DEF TypeOK, cpuVars, lockVars
<1>8. t \notin held /\ \A b \in CPU : ~(Carries(b) /\ cur[b] = t)
  BY <1>1 DEF OnePlace
<1>9. OnePlace'
  <2>1. Hands'
    BY <1>1 DEF Counters, Hands, Carries, Adding, cpuVars
  <2>2. OneOf(t)'
    BY <1>1, <1>4, <1>6, <1>8 DEF OneOf, InHeap, InReady, InHand, Carries, Adding, cpuVars
  <2> QED BY <1>1, <1>6, <1>7, <2>1, <2>2, OneMoves DEF Carries, Adding, cpuVars
<1>10. QueueSorted' /\ Listed' = Listed
  BY <1>1, <1>3, <1>6, Owners, QueueKept
<1>11. Triggered' /\ Counters' /\ HeapUse' /\ TimerUse' /\ AtWork'
  <2>1. ASSUME NEW b \in CPU, Owning(b) \/ pc[b] = "insert" PROVE cur[b] # t
    <3>1. pc[b] = "insert" => cur[b] # t
      BY <1>8 DEF Carries, Adding
    <3>2. pc[b] = "arm" => cur[b] # t
      BY <1>4 DEF AtWork
    <3>3. pc[b] \in {"fired", "dequeued", "merged"} => cur[b] # t
      BY <1>5 DEF TimerUse
    <3> QED BY <2>1, <3>1, <3>2, <3>3 DEF Owning
  <2>2. OthersKept(c, t)
    BY <1>1, <1>2, <1>6, <1>10, <2>1 DEF OthersKept, cpuVars, Owning
  <2>3. OneHeap(c, t)'
    BY <1>1, <1>4, <1>5, <1>6 DEF OneHeap, cpuVars, Owning
  <2> QED BY <2>2, <2>3, HeapStep
<1> QED BY <1>1, <1>9, <1>10, <1>11

\* The heap of a task that has left real-time mode is freed.
LEMMA FreeStep ==
  ASSUME IInv, NEW c \in CPU, release_heap_free(c)
  PROVE  IInv'
<1> USE DEF IInv
<1> PICK h \in Task : h = cur[c]
  BY DEF Counters, release_heap_free
<1>1. /\ pc[c] = "free" /\ cur[c] = h /\ timer[h] # "running" /\ pc' = [pc EXCEPT ![c] = "idle"]
      /\ timer' = [timer EXCEPT ![h] = IF timer[h] = "armed" THEN "inactive" ELSE timer[h]]
      /\ allocated' = allocated \ {h}
      /\ cur' = [cur EXCEPT ![c] = NULL] /\ into' = [into EXCEPT ![c] = NULL]
      /\ target_cpu' = [target_cpu EXCEPT ![c] = NO_CPU]
      /\ UNCHANGED <<now, held, release, ready, heapVars, timer_cpu, in_use, pull, lockVars, panic>>
  BY DEF release_heap_free, return, goto
<1>2. TypeOK
  BY DEF OnePlace
<1>3. /\ timer[h] = "inactive" /\ heap[h] = {} /\ h \notin Listed
      /\ \A g \in Task : h \notin heap[g]
      /\ \A d \in Domain : h \notin ready[d]
      /\ h \notin held
      /\ \A b \in CPU \ {c} : ~(Carries(b) /\ cur[b] = h)
      /\ \A b \in CPU \ {c} : Owning(b) \/ pc[b] = "insert" => cur[b] # h
  BY <1>1, Idle DEF Carries
<1>4. timer' = timer
  <2>1. timer \in [Task -> {"inactive", "pull", "armed", "running"}]
    BY <1>2 DEF TypeOK
  <2> QED BY <1>1, <1>3, <2>1
<1>5. \A b \in CPU \ {c} : pc'[b] = pc[b] /\ cur'[b] = cur[b] /\ into'[b] = into[b]
  BY <1>1, <1>2 DEF TypeOK
<1>6. /\ pc' \in [CPU -> {"idle", "add", "reinit", "insert", "arm", "unlock", "fired", "dequeued", "merged", "free"}]
      /\ cur' \in [CPU -> Task \cup {NULL}] /\ into' \in [CPU -> Domain \cup {NULL}]
      /\ target_cpu' \in [CPU -> CPU \cup {NO_CPU}]
      /\ pc'[c] = "idle"
  BY <1>1, <1>2 DEF TypeOK
<1>7. TypeOK'
  BY <1>1, <1>2, <1>4, <1>6 DEF TypeOK, heapVars, lockVars
<1>8. OnePlace'
  <2>1. Hands'
    BY <1>1, <1>5, <1>6 DEF Counters, Hands, Carries, Adding
  <2>2. \A b \in CPU : ~(Carries(b)' /\ cur'[b] = h)
    BY <1>3, <1>5, <1>6 DEF Carries, Adding
  <2>3. heap' = heap /\ ready' = ready /\ held' = held
    BY <1>1 DEF heapVars
  <2>4. OneOf(h)'
    BY <1>1, <1>3, <2>2, <2>3 DEF OneOf, InHeap, InReady, InHand
  <2>5. ASSUME NEW x \in Task, x # h, NEW b \in CPU
        PROVE  Carries(b)' /\ cur'[b] = x <=> Carries(b) /\ cur[b] = x
    BY <1>1, <1>5, <1>6, <2>5 DEF Carries, Adding
  <2>6. \A x \in Task \ {h} : x \in allocated' <=> x \in allocated
    BY <1>1
  <2> QED BY <1>7, <2>1, <2>3, <2>4, <2>5, <2>6, OneMoves
<1>9. QueueSorted' /\ Listed' = Listed
  BY <1>1, <1>2, Owners, QueueKept DEF heapVars
<1>10. Triggered' /\ Counters' /\ HeapUse' /\ TimerUse' /\ AtWork'
  <2>1. OthersKept(c, h)
    BY <1>1, <1>3, <1>4, <1>5, <1>9 DEF OthersKept, heapVars, Owning
  <2>2. heap'[h] = {}
    BY <1>1, <1>3 DEF heapVars
  <2>3. OneHeap(c, h)'
    BY <1>3, <1>4, <1>6, <2>2 DEF OneHeap, Owning
  <2> QED BY <2>1, <2>3, HeapStep
<1> QED BY <1>1, <1>8, <1>9, <1>10

-----------------------------------------------------------------------------
(* Theorems                                                                *)

\* The initial state.
LEMMA InitInv == Init => IInv
<1> SUFFICES ASSUME Init PROVE IInv
  OBVIOUS
<1>1. TypeOK
  <2>1. [s \in Slot |-> <<>>] \in [Slot -> Seq(Task)]
    OBVIOUS
  <2>2. queue \in [Domain -> [Slot -> Seq(Task)]]
    BY <2>1 DEF Init
  <2>3. ready \in [Domain -> SUBSET Task] /\ heap \in [Task -> SUBSET Task]
    BY DEF Init
  <2> QED BY <2>2, <2>3 DEF Init, TypeOK
<1>2. OnePlace
  BY <1>1 DEF Init, OnePlace, is_queued, Carries, Adding
<1>3. QueueSorted
  BY DEF Init, QueueSorted
<1>4. Triggered /\ Counters /\ HeapUse /\ TimerUse /\ AtWork /\ ~panic
  BY ConstantsAssumption DEF Init, Triggered, Counters, HeapUse, TimerUse, AtWork, Owning, Listed
<1> QED BY <1>2, <1>3, <1>4 DEF IInv

\* Every step.
LEMMA NextInv == IInv /\ [Next]_vars => IInv'
<1> SUFFICES ASSUME IInv, [Next]_vars PROVE IInv'
  OBVIOUS
<1>1. CASE UNCHANGED vars
  <2>1. UNCHANGED <<now, held, release, ready, queue, heap, release_time, dom, timer, timer_cpu,
                    in_use, pull, allocated, pc, cur, into, target_cpu, ready_lock, tobe_lock, panic>>
    BY <1>1 DEF vars, heapVars, timerVars, cpuVars, lockVars
  <2>2. TypeOK' <=> TypeOK
    BY <2>1 DEF TypeOK
  <2>3. (OnePlace' <=> OnePlace) /\ (QueueSorted' <=> QueueSorted) /\ (Triggered' <=> Triggered)
    BY <2>1, <2>2 DEF OnePlace, is_queued, Carries, Adding, QueueSorted, Triggered, time2slot
  <2>4. Listed' = Listed
    BY <2>1 DEF Listed, time2slot
  <2>5. (Counters' <=> Counters) /\ (HeapUse' <=> HeapUse) /\ (TimerUse' <=> TimerUse) /\ (AtWork' <=> AtWork)
    BY <2>1, <2>4 DEF Counters, Owning, HeapUse, TimerUse, AtWork
  <2> QED BY <2>1, <2>3, <2>5 DEF IInv
<1>2. ASSUME NEW c \in CPU, Continue(c) PROVE IInv'
  BY <1>2, SearchStep, ReinitStep, LendStep, ArmStep, QuietStep, DequeueStep, ReleaseStep, CallbackStep, FreeStep
  DEF Continue
<1>3. ASSUME NEW c \in CPU, NEW t \in Task, Plugin(c, t) PROVE IInv'
  BY <1>3, AdmitStep, ExitStep, ReadyStep, AddReleaseStep DEF Plugin
<1> QED BY <1>1, <1>2, <1>3, PullStep, FireStep, QuietStep DEF Next

\* The inductive invariant holds in every reachable state.
THEOREM Invariance == Spec => []IInv
BY InitInv, NextInv, PTL DEF Spec

\* A real-time task is in exactly one place, in every system: with the plugin,
\* with one processor, in one release heap or in one ready queue.
THEOREM EveryTaskOnce == Spec => []OnePlace
<1>1. IInv => OnePlace
  BY DEF IInv
<1> QED BY <1>1, Invariance, PTL

\* Release queues stay sorted, whatever waits in one has a timer or a callback
\* that will release it, and hrtimer_cancel(), called with tobe_lock and
\* ready_lock held, waits only for callbacks that are past all locks.
THEOREM QueuesAreSound == Spec => []QueueSound
<1>1. IInv => QueueSound
  <2> SUFFICES ASSUME IInv PROVE CancelEnds
    BY DEF IInv, QueueSound
  <2> SUFFICES ASSUME NEW c \in CPU, pc[c] \in {"reinit", "free"}, timer[cur[c]] = "running"
               PROVE  \E b \in CPU : pc[b] = "merged" /\ cur[b] = cur[c]
    BY DEF CancelEnds
  <2>1. cur[c] \in Task /\ Outside(cur[c])
    BY DEF IInv, Counters, Outside, Carries, Adding
  <2> QED BY <2>1, Owners
<1> QED BY <1>1, Invariance, PTL

\* No BUG_ON() of rt_domain.c or litmus.c that the model has fires, and no
\* list or timer refers to a release heap that has been freed.
THEOREM NothingDangles == Spec => []NoDangling
<1>1. IInv => NoDangling
  <2> SUFFICES ASSUME IInv PROVE NoDangling
    OBVIOUS
  <2>1. ASSUME NEW h \in Task, h \notin allocated
        PROVE  timer[h] = "inactive" /\ heap[h] = {} /\ h \notin Listed
    <3>1. Outside(h)
      BY <2>1 DEF Outside
    <3>2. ~\E b \in CPU : pc[b] = "merged" /\ cur[b] = h
      BY <2>1 DEF IInv, AtWork
    <3> QED BY <3>1, <3>2, Owners
  <2>2. ASSUME NEW d \in Domain, NEW s \in Slot, NEW i \in 1 .. Len(queue[d][s])
        PROVE  queue[d][s][i] \in Listed
    BY Members DEF IInv, OnePlace
  <2> QED BY <2>1, <2>2 DEF NoDangling, IInv
<1> QED BY <1>1, Invariance, PTL

-----------------------------------------------------------------------------
(* Refinement: the domains implement release queues                        *)

\* x waits for its release in domain d.
WaitsIn(x, d) ==
  \/ \E c \in CPU : Adding(c) /\ into[c] = d /\ cur[c] = x
  \/ \E h \in Task : dom[h] = d /\ x \in heap[h]

\* The abstract variable, task by task.
LEMMA WaitingIs ==
  /\ waiting = [d \in Domain |-> waiting[d]]
  /\ \A d \in Domain : \A x : x \in waiting[d] <=> WaitsIn(x, d)
<1>1. waiting = [d \in Domain |-> waiting[d]]
  BY DEF waiting
<1>2. ASSUME NEW d \in Domain, NEW x PROVE x \in waiting[d] <=> WaitsIn(x, d)
  BY DEF waiting, WaitsIn
<1> QED BY <1>1, <1>2

\* The same after a step.
LEMMA WaitingWas ==
  /\ waiting' = [d \in Domain |-> waiting'[d]]
  /\ \A d \in Domain : \A x : x \in waiting'[d] <=> WaitsIn(x, d)'
<1>1. (waiting = [d \in Domain |-> waiting[d]])' /\ (\A d \in Domain : \A x : x \in waiting[d] <=> WaitsIn(x, d))'
  BY WaitingIs, PTL
<1> QED BY <1>1

\* Nobody begins or ends to wait.
LEMMA WaitingStays ==
  ASSUME \A d \in Domain : \A x : WaitsIn(x, d)' <=> WaitsIn(x, d)
  PROVE  waiting' = waiting
<1>1. ASSUME NEW d \in Domain PROVE waiting'[d] = waiting[d]
  BY WaitingIs, WaitingWas
<1> HIDE DEF waiting
<1> QED BY <1>1, WaitingIs, WaitingWas

\* Some begin to wait in domain d.
LEMMA WaitingGains ==
  ASSUME NEW d \in Domain, NEW S,
         \A e \in Domain : \A x : WaitsIn(x, e)' <=> WaitsIn(x, e) \/ (e = d /\ x \in S)
  PROVE  waiting' = [waiting EXCEPT ![d] = @ \cup S]
<1>1. waiting'[d] = waiting[d] \cup S
  BY WaitingIs, WaitingWas
<1>2. ASSUME NEW e \in Domain, e # d PROVE waiting'[e] = waiting[e]
  BY <1>2, WaitingIs, WaitingWas
<1> QED BY <1>1, <1>2, WaitingIs, WaitingWas

\* Some end to wait in domain d.
LEMMA WaitingLoses ==
  ASSUME NEW d \in Domain, NEW S,
         \A e \in Domain : \A x : WaitsIn(x, e)' <=> WaitsIn(x, e) /\ ~(e = d /\ x \in S)
  PROVE  waiting' = [waiting EXCEPT ![d] = @ \ S]
<1>1. waiting'[d] = waiting[d] \ S
  BY WaitingIs, WaitingWas
<1>2. ASSUME NEW e \in Domain, e # d PROVE waiting'[e] = waiting[e]
  BY <1>2, WaitingIs, WaitingWas
<1> QED BY <1>1, <1>2, WaitingIs, WaitingWas

\* Steps that change neither the heaps nor what is being added.
LEMMA WaitingKept ==
  ASSUME IInv, UNCHANGED <<heap, dom>>,
         \A c \in CPU : Adding(c) \/ Adding(c)' => /\ Adding(c) /\ Adding(c)'
                                                   /\ cur'[c] = cur[c] /\ into'[c] = into[c]
  PROVE  waiting' = waiting
BY WaitingStays DEF WaitsIn

\* A task that joins a heap, its own or another's, keeps waiting.
LEMMA WaitingInserted ==
  ASSUME IInv, NEW c \in CPU, get_release_heap(c) \/ use_task_heap(c)
  PROVE  waiting' = waiting
<1> USE DEF IInv
<1>0. pc[c] \in {"add", "insert"} /\ cur[c] \in Task /\ into[c] \in Domain
  BY DEF get_release_heap, use_task_heap, Counters
<1> PICK t \in Task, d \in Domain : t = cur[c] /\ d = into[c]
  BY <1>0
<1> DEFINE r == release[t]
           l == queue[d][time2slot(r)]
<1>1. pc[c] \in {"add", "insert"} /\ cur[c] = t /\ into[c] = d /\ TypeOK /\ r \in Nat
  BY <1>0 DEF OnePlace, TypeOK
<1> PICK f : f = l[position(l, r)]
  OBVIOUS
<1>2. /\ UNCHANGED <<cur, into>>
      /\ \/ matches(l, r) /\ heap' = [heap EXCEPT ![f] = @ \cup {t}] /\ pc' = [pc EXCEPT ![c] = "unlock"] /\ dom' = dom
         \/ heap' = heap /\ pc' = [pc EXCEPT ![c] = "reinit"] /\ dom' = dom
         \/ /\ pc[c] = "insert" /\ heap' = [heap EXCEPT ![t] = @ \cup {t}]
            /\ pc' = [pc EXCEPT ![c] = "arm"] /\ dom' = [dom EXCEPT ![t] = d]
  <2>1. UNCHANGED <<cur, into>>
    BY DEF get_release_heap, use_task_heap
  <2>2. CASE get_release_heap(c)
    <3>1. dom' = dom /\ IF matches(l, r) THEN insert_into_found(c) /\ goto(c, "unlock")
                                        ELSE UNCHANGED heap /\ goto(c, "reinit")
      BY <1>1, <2>2 DEF get_release_heap
    <3>2. insert_into_found(c) => heap' = [heap EXCEPT ![f] = @ \cup {t}]
      BY <1>1 DEF insert_into_found
    <3> QED BY <2>1, <3>1, <3>2 DEF goto
  <2>3. CASE use_task_heap(c)
    <3>1. /\ pc[c] = "insert"
          /\ IF matches(l, r) THEN insert_into_found(c) /\ goto(c, "unlock") /\ dom' = dom
             ELSE /\ dom' = [dom EXCEPT ![t] = d] /\ heap' = [heap EXCEPT ![t] = @ \cup {t}]
                  /\ goto(c, "arm")
      BY <1>1, <2>3 DEF use_task_heap
    <3>2. insert_into_found(c) => heap' = [heap EXCEPT ![f] = @ \cup {t}]
      BY <1>1 DEF insert_into_found
    <3> QED BY <2>1, <3>1, <3>2 DEF goto
  <2> QED BY <2>2, <2>3
<1>3. matches(l, r) => f \in Task /\ dom[f] = d
  BY <1>1, Found
<1> HIDE DEF r, l
<1>4. \A b \in CPU \ {c} : pc'[b] = pc[b] /\ cur'[b] = cur[b] /\ into'[b] = into[b]
  BY <1>1, <1>2 DEF TypeOK
<1>5. heap \in [Task -> SUBSET Task] /\ dom \in [Task -> Domain \cup {NULL}] 
      /\ pc \in [CPU -> {"idle", "add", "reinit", "insert", "arm", "unlock", "fired", "dequeued", "merged", "free"}]
  BY <1>1 DEF TypeOK
<1>6. Adding(c)
  BY <1>1 DEF Adding
<1>7. ASSUME NEW g \in Task, ~Adding(c)',
             \A h \in Task : dom'[h] = IF h = g THEN d ELSE dom[h],
             \A h \in Task : heap'[h] = IF h = g THEN heap[g] \cup {t} ELSE heap[h],
             heap[g] = {} \/ dom[g] = d
      PROVE  waiting' = waiting
  <2>1. ASSUME NEW e \in Domain, NEW x PROVE WaitsIn(x, e)' <=> WaitsIn(x, e)
    <3>1. CASE e = d /\ x = t
      BY <1>1, <1>6, <1>7, <3>1 DEF WaitsIn
    <3>2. CASE ~(e = d /\ x = t)
      <4>1. \A b \in CPU : Adding(b)' /\ into'[b] = e /\ cur'[b] = x <=> Adding(b) /\ into[b] = e /\ cur[b] = x
        BY <1>1, <1>4, <1>7, <3>2 DEF Adding
      <4>2. \A h \in Task : dom'[h] = e /\ x \in heap'[h] <=> dom[h] = e /\ x \in heap[h]
        BY <1>7, <3>2
      <4> QED BY <4>1, <4>2 DEF WaitsIn
    <3> QED BY <3>1, <3>2
  <2> QED BY <2>1, WaitingStays
<1>8. CASE matches(l, r) /\ heap' = [heap EXCEPT ![f] = @ \cup {t}] /\ pc' = [pc EXCEPT ![c] = "unlock"] /\ dom' = dom
  <2>1. ~Adding(c)'
    BY <1>5, <1>8 DEF Adding
  <2>2. \A h \in Task : dom'[h] = IF h = f THEN d ELSE dom[h]
    BY <1>3, <1>8
  <2>3. \A h \in Task : heap'[h] = IF h = f THEN heap[f] \cup {t} ELSE heap[h]
    BY <1>3, <1>5, <1>8
  <2> QED BY <1>3, <1>7, <1>8, <2>1, <2>2, <2>3
<1>9. CASE heap' = heap /\ pc' = [pc EXCEPT ![c] = "reinit"] /\ dom' = dom
  BY <1>2, <1>4, <1>5, <1>6, <1>9, WaitingKept DEF Adding
<1>10. CASE /\ pc[c] = "insert" /\ heap' = [heap EXCEPT ![t] = @ \cup {t}]
            /\ pc' = [pc EXCEPT ![c] = "arm"] /\ dom' = [dom EXCEPT ![t] = d]
  <2>1. ~Adding(c)'
    BY <1>5, <1>10 DEF Adding
  <2>2. heap[t] = {}
    BY <1>1, <1>6, Owners DEF Outside, Carries
  <2>3. \A h \in Task : dom'[h] = IF h = t THEN d ELSE dom[h]
    BY <1>5, <1>10
  <2>4. \A h \in Task : heap'[h] = IF h = t THEN heap[t] \cup {t} ELSE heap[h]
    BY <1>5, <1>10
  <2> QED BY <1>7, <2>1, <2>2, <2>3, <2>4
<1> QED BY <1>2, <1>8, <1>9, <1>10

\* Steps of add_release(), of timers and of release_heap_free() that the
\* plugins do not see.
LEMMA Unseen ==
  ASSUME IInv, NEW c \in CPU,
         \/ get_release_heap(c) \/ reinit_release_heap(c) \/ use_task_heap(c)
         \/ arm_release_timer(c) \/ add_release_done(c) \/ hrtimer_pull(c)
         \/ \E h \in Task : hrtimer_interrupt(c, h)
         \/ on_release_timer(c) \/ callback_done(c) \/ release_heap_free(c)
  PROVE  UNCHANGED Abstract!vars
<1> USE DEF IInv
<1>1. UNCHANGED <<now, release, ready, held>>
  BY DEF get_release_heap, reinit_release_heap, use_task_heap, arm_release_timer, add_release_done,
         hrtimer_pull, hrtimer_interrupt, on_release_timer, callback_done, release_heap_free
<1>2. TypeOK
  BY DEF OnePlace
<1>3. CASE get_release_heap(c) \/ use_task_heap(c)
  BY <1>1, <1>3, WaitingInserted DEF Abstract!vars
<1>4. CASE reinit_release_heap(c)
  <2> PICK h \in Task : h = cur[c]
    BY <1>4 DEF Counters, reinit_release_heap
  <2>1. /\ pc[c] = "reinit" /\ timer[h] # "running" /\ heap' = [heap EXCEPT ![h] = {}]
        /\ pc' = [pc EXCEPT ![c] = "insert"] /\ UNCHANGED <<dom, cur, into>>
    BY <1>4 DEF reinit_release_heap, goto
  <2>2. heap[h] = {}
    BY <2>1, Idle DEF Carries, Adding
  <2>3. heap' = heap
    BY <1>2, <2>1, <2>2 DEF TypeOK
  <2>4. \A b \in CPU : Adding(b)' <=> Adding(b)
    BY <1>2, <2>1 DEF TypeOK, Adding
  <2> QED BY <1>1, <2>1, <2>3, <2>4, WaitingKept DEF Abstract!vars
<1>5. CASE /\ ~(get_release_heap(c) \/ use_task_heap(c) \/ reinit_release_heap(c))
  <2>1. UNCHANGED <<heap, dom>>
    BY <1>5 DEF arm_release_timer, add_release_done, hrtimer_pull, hrtimer_interrupt, on_release_timer,
                callback_done, release_heap_free, heapVars
  <2>2. \A b \in CPU \ {c} : pc'[b] = pc[b] /\ cur'[b] = cur[b] /\ into'[b] = into[b]
    BY <1>2, <1>5 DEF arm_release_timer, add_release_done, hrtimer_pull, hrtimer_interrupt, on_release_timer,
                callback_done, release_heap_free, TypeOK, cpuVars, return, goto
  <2>3. ~Adding(c) /\ ~Adding(c)'
    BY <1>2, <1>5 DEF arm_release_timer, add_release_done, hrtimer_pull, hrtimer_interrupt, on_release_timer,
                callback_done, release_heap_free, TypeOK, cpuVars, return, goto, Adding, Open
  <2>4. \A b \in CPU : Adding(b) \/ Adding(b)' => /\ Adding(b) /\ Adding(b)'
                                                   /\ cur'[b] = cur[b] /\ into'[b] = into[b]
    BY <2>2, <2>3 DEF Adding
  <2> QED BY <1>1, <2>1, <2>4, WaitingKept DEF Abstract!vars
<1> QED BY <1>3, <1>4, <1>5

\* A task that is handed to add_release() begins to wait.
LEMMA AddIsWait ==
  ASSUME IInv, NEW c \in CPU, NEW t \in Task, NEW d \in Domain, NEW r \in 1 .. MaxTime,
         add_release(c, t, d, r) \/ add_release_on(c, t, d, r)
  PROVE  Abstract!Wait(t, d, release'[t])
<1> USE DEF IInv
<1>1. /\ pc[c] = "idle" /\ t \in held /\ held' = held \ {t} /\ release' = [release EXCEPT ![t] = r]
      /\ r \in (now + 1) .. MaxTime
      /\ cur' = [cur EXCEPT ![c] = t] /\ into' = [into EXCEPT ![c] = d] /\ pc' = [pc EXCEPT ![c] = "add"]
      /\ UNCHANGED <<now, ready, heap, dom>>
  BY DEF add_release, add_release_on, Open, goto, heapVars
<1>2. TypeOK
  BY DEF OnePlace
<1>3. release'[t] = r /\ r > now
  BY <1>1, <1>2, ConstantsAssumption DEF TypeOK
<1>4. /\ \A b \in CPU \ {c} : pc'[b] = pc[b] /\ cur'[b] = cur[b] /\ into'[b] = into[b]
      /\ pc'[c] = "add" /\ cur'[c] = t /\ into'[c] = d
  BY <1>1, <1>2 DEF TypeOK
<1>5. ASSUME NEW e \in Domain, NEW x PROVE WaitsIn(x, e)' <=> WaitsIn(x, e) \/ (e = d /\ x \in {t})
  <2>1. ~Adding(c) /\ Adding(c)' /\ \A b \in CPU \ {c} : Adding(b)' <=> Adding(b)
    BY <1>1, <1>4 DEF Adding
  <2>2. \A h \in Task : dom'[h] = e /\ x \in heap'[h] <=> dom[h] = e /\ x \in heap[h]
    BY <1>1
  <2>3. (\E b \in CPU : Adding(b)' /\ into'[b] = e /\ cur'[b] = x)
          <=> (\E b \in CPU : Adding(b) /\ into[b] = e /\ cur[b] = x) \/ (e = d /\ x = t)
    BY <1>4, <2>1
  <2> QED BY <2>2, <2>3 DEF WaitsIn
<1>6. waiting' = [waiting EXCEPT ![d] = @ \cup {t}]
  BY <1>5, WaitingGains
<1> QED BY <1>1, <1>3, <1>6 DEF Abstract!Wait

\* release_jobs() releases jobs of this domain, all of them at or after their
\* release time.
LEMMA MergeIsRelease ==
  ASSUME IInv, NEW c \in CPU, release_jobs(c)
  PROVE  \E d \in Domain : \E S \in SUBSET waiting[d] : Abstract!Release(d, S)
<1> USE DEF IInv
<1> PICK h \in Task : h = cur[c]
  BY DEF Counters, release_jobs
<1> PICK d : d = dom[h]
  OBVIOUS
<1>1. /\ pc[c] = "dequeued" /\ cur[c] = h /\ pc' = [pc EXCEPT ![c] = "merged"]
      /\ ready' = [ready EXCEPT ![d] = ready[d] \cup heap[h]]
      /\ heap' = [heap EXCEPT ![h] = {}]
      /\ UNCHANGED <<now, held, release, dom, cur, into>>
  BY DEF release_jobs, goto
<1>2. TypeOK
  BY DEF OnePlace
<1>3. heap[h] # {} /\ release_time[h] <= now
  BY <1>1 DEF AtWork
<1>4. d \in Domain /\ heap[h] \in SUBSET Task /\ \A t \in heap[h] : release[t] = release_time[h]
  BY <1>2, <1>3 DEF HeapUse, TypeOK
<1>5. \A b \in CPU : Adding(b)' <=> Adding(b)
  BY <1>1, <1>2 DEF TypeOK, Adding
<1>6. \A g \in Task : heap'[g] = IF g = h THEN {} ELSE heap[g]
  BY <1>1, <1>2 DEF TypeOK
<1>7. ASSUME NEW x \in heap[h]
      PROVE  /\ \A g \in Task : x \in heap[g] => g = h
             /\ \A b \in CPU : Adding(b) => cur[b] # x
  BY <1>4 DEF OnePlace, is_queued, Carries
<1>8. ASSUME NEW e \in Domain, NEW x PROVE WaitsIn(x, e)' <=> WaitsIn(x, e) /\ ~(e = d /\ x \in heap[h])
  <2>1. \A b \in CPU : Adding(b)' /\ into'[b] = e /\ cur'[b] = x <=> Adding(b) /\ into[b] = e /\ cur[b] = x
    BY <1>1, <1>5
  <2>2. \A g \in Task : dom'[g] = e /\ x \in heap'[g] <=> g # h /\ dom[g] = e /\ x \in heap[g]
    BY <1>1, <1>6
  <2>3. CASE x \in heap[h]
    BY <1>7, <2>1, <2>2, <2>3 DEF WaitsIn
  <2>4. CASE x \notin heap[h]
    BY <2>1, <2>2, <2>4 DEF WaitsIn
  <2> QED BY <2>3, <2>4
<1>9. waiting' = [waiting EXCEPT ![d] = @ \ heap[h]]
  BY <1>4, <1>8, WaitingLoses
<1>10. heap[h] \in SUBSET waiting[d]
  <2>1. \A x \in heap[h] : WaitsIn(x, d)
    BY DEF WaitsIn
  <2> QED BY <1>4, <2>1, WaitingIs
<1>11. Abstract!Release(d, heap[h])
  BY <1>1, <1>3, <1>4, <1>9, <1>10 DEF Abstract!Release
<1> QED BY <1>4, <1>10, <1>11

\* The other steps of the plugins.
LEMMA PluginSteps ==
  ASSUME IInv, NEW c \in CPU, NEW t \in Task
  PROVE  /\ admit_task(c, t) => Abstract!Admit(t)
         /\ exit_task(c, t) => Abstract!Exit(t)
         /\ \A d \in Domain : take_ready(c, t, d) => Abstract!Take(t, d)
         /\ \A d \in Domain : add_ready(c, t, d) => Abstract!Put(t, d)
<1> USE DEF IInv
<1>1. TypeOK
  BY DEF OnePlace
<1>2. ASSUME NEW d \in Domain, take_ready(c, t, d) \/ add_ready(c, t, d) PROVE waiting' = waiting
  BY <1>2, WaitingKept DEF take_ready, add_ready, heapVars, cpuVars, Adding
<1>3. ASSUME exit_task(c, t) PROVE waiting' = waiting
  <2>1. UNCHANGED <<heap, dom, into>> /\ pc[c] = "idle" /\ pc' = [pc EXCEPT ![c] = "free"] /\ cur' = [cur EXCEPT ![c] = t]
    BY <1>3 DEF exit_task, Open, goto, heapVars
  <2>2. /\ \A b \in CPU \ {c} : pc'[b] = pc[b] /\ cur'[b] = cur[b] /\ into'[b] = into[b]
        /\ pc'[c] = "free" /\ pc[c] = "idle"
    BY <1>1, <2>1 DEF TypeOK
  <2> QED BY <2>1, <2>2, WaitingKept DEF Adding
<1>4. ASSUME admit_task(c, t)
      PROVE  /\ waiting' = waiting /\ t \notin held
             /\ \A d \in Domain : t \notin waiting[d] \cup ready[d]
  <2>1. t \notin allocated /\ heap' = [heap EXCEPT ![t] = {}] /\ UNCHANGED <<dom, pc, cur, into>>
    BY <1>4 DEF admit_task, cpuVars
  <2>2. /\ \A h \in Task : t \notin heap[h]
        /\ \A d \in Domain : t \notin ready[d]
        /\ heap[t] = {}
    BY <2>1, Owners DEF Outside
  <2>3. t \notin held /\ \A b \in CPU : ~(Carries(b) /\ cur[b] = t)
    BY <2>1 DEF OnePlace
  <2>4. \A d \in Domain : ~WaitsIn(t, d)
    BY <2>2, <2>3 DEF WaitsIn, Carries
  <2>5. heap' = heap
    BY <1>1, <2>1, <2>2 DEF TypeOK
  <2>6. waiting' = waiting
    BY <2>1, <2>5, WaitingKept DEF Adding
  <2> QED BY <2>2, <2>3, <2>4, <2>6, WaitingIs
<1>5. admit_task(c, t) => Abstract!Admit(t)
  BY <1>4 DEF admit_task, Abstract!Admit
<1>6. exit_task(c, t) => Abstract!Exit(t)
  BY <1>3 DEF exit_task, Abstract!Exit
<1>7. \A d \in Domain : take_ready(c, t, d) => Abstract!Take(t, d)
  BY <1>2 DEF take_ready, Abstract!Take
<1>8. \A d \in Domain : add_ready(c, t, d) => Abstract!Put(t, d)
  BY <1>2 DEF add_ready, Abstract!Put
<1> QED BY <1>5, <1>6, <1>7, <1>8

\* Whatever the processors do, whatever other domains do, the plugins see a
\* release queue: a job handed to add_release() waits until a time not before
\* its release, and is then moved to the ready queue of its domain, once.
THEOREM Refinement == Spec => ImplementsReleaseQueue
<1>1. Init => Abstract!Init
  <2> SUFFICES ASSUME Init PROVE Abstract!Init
    OBVIOUS
  <2>1. ASSUME NEW d \in Domain PROVE waiting[d] = {}
    <3>1. \A x : ~WaitsIn(x, d)
      BY DEF Init, WaitsIn, Adding
    <3> QED BY <3>1, WaitingIs
  <2>2. waiting = [d \in Domain |-> {}]
    BY <2>1, WaitingIs
  <2> QED BY <2>2 DEF Init, Abstract!Init
<1>2. IInv /\ [Next]_vars => [Abstract!Next]_(Abstract!vars)
  <2> SUFFICES ASSUME IInv, [Next]_vars PROVE [Abstract!Next]_(Abstract!vars)
    OBVIOUS
  <2>1. CASE UNCHANGED vars
    <3>1. UNCHANGED <<now, held, release, ready, heap, dom, pc, cur, into>>
      BY <2>1 DEF vars, heapVars, cpuVars
    <3>2. waiting' = waiting
      BY <3>1, WaitingKept DEF Adding
    <3> QED BY <3>1, <3>2 DEF Abstract!vars
  <2>2. CASE clock
    <3>1. UNCHANGED <<held, release, ready, heap, dom, pc, cur, into>> /\ now' = now + 1
      BY <2>2 DEF clock, heapVars, cpuVars
    <3>2. waiting' = waiting
      BY <3>1, WaitingKept DEF Adding
    <3> QED BY <3>1, <3>2 DEF Abstract!Tick, Abstract!Next
  <2>3. ASSUME NEW c \in CPU, Continue(c) \/ hrtimer_pull(c) \/ \E h \in Task : hrtimer_interrupt(c, h)
        PROVE  [Abstract!Next]_(Abstract!vars)
    <3>1. CASE release_jobs(c)
      BY <3>1, MergeIsRelease DEF Abstract!Next
    <3>2. CASE ~release_jobs(c)
      BY <2>3, <3>2, Unseen DEF Continue
    <3> QED BY <3>1, <3>2
  <2>4. ASSUME NEW c \in CPU, NEW t \in Task, Plugin(c, t)
        PROVE  Abstract!Next
    <3>1. CASE admit_task(c, t) \/ exit_task(c, t)
      BY <3>1, PluginSteps DEF Abstract!Next
    <3>2. CASE \E d \in Domain : take_ready(c, t, d) \/ add_ready(c, t, d)
      BY <3>2, PluginSteps DEF Abstract!Next
    <3>3. CASE \E d \in Domain : \E r \in 1 .. MaxTime : add_release(c, t, d, r) \/ add_release_on(c, t, d, r)
      BY <3>3, AddIsWait DEF Abstract!Next
    <3> QED BY <2>4, <3>1, <3>2, <3>3 DEF Plugin
  <2> QED BY <2>1, <2>2, <2>3, <2>4 DEF Next
<1> QED BY <1>1, <1>2, Invariance, PTL DEF Spec, ImplementsReleaseQueue, Abstract!Spec
=============================================================================
