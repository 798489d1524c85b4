------------------------ MODULE FeatherDevice_proofs ------------------------
(***************************************************************************)
(* Proofs about the Feather-Trace devices, for any number of processes and *)
(* events and one minor device.                                            *)
(***************************************************************************)
EXTENDS FeatherDevice, FiniteSetTheorems, TLAPS

USE DEF minors, table

PCs == {"off", "enable", "enabling", "read", "reading", "waiting",
        "disable", "disabling", "close", "releasing", "sleeping"}

-----------------------------------------------------------------------------
(* Sums and cardinalities                                                  *)

\* The sum over the only minor device.
LEMMA SumOne ==
  ASSUME NEW m, NEW e, chain[m][e] \in Nat
  PROVE  MapThenSumSet(LAMBDA x : chain[x][e], {m}) = chain[m][e]
<1> DEFINE Iter(g) == g = [s \in SUBSET {m} |->
                             IF s = {} THEN 0
                             ELSE chain[CHOOSE x \in s : TRUE][e] + g[s \ {CHOOSE x \in s : TRUE}]]
           iter == CHOOSE g : Iter(g)
           k == [s \in SUBSET {m} |-> IF s = {} THEN 0 ELSE chain[m][e]]
<1>1. MapThenSumSet(LAMBDA x : chain[x][e], {m}) = iter[{m}]
  BY DEF MapThenSumSet, MapThenFoldSet
<1>2. \A s \in SUBSET {m} : s # {} => (CHOOSE x \in s : TRUE) = m /\ s \ {m} = {}
  OBVIOUS
<1>3. {} \in SUBSET {m} /\ {m} \in SUBSET {m} /\ {m} # {} /\ {m} \ {m} = {}
  OBVIOUS
<1>4. Iter(k)
  <2>1. k[{}] = 0
    BY <1>3
  <2>2. ASSUME NEW s \in SUBSET {m}
        PROVE  k[s] = IF s = {} THEN 0
                      ELSE chain[CHOOSE x \in s : TRUE][e] + k[s \ {CHOOSE x \in s : TRUE}]
    <3>1. CASE s = {}
      BY <2>1, <3>1
    <3>2. CASE s # {}
      <4>1. k[s \ {CHOOSE x \in s : TRUE}] = 0
        BY <1>2, <2>1, <3>2
      <4>2. k[s] = chain[m][e] /\ chain[m][e] + 0 = chain[m][e]
        BY <3>2
      <4> QED BY <1>2, <3>2, <4>1, <4>2
    <3> QED BY <3>1, <3>2
  <2> QED BY <2>2
<1>5. Iter(iter)
  BY <1>4
<1> HIDE DEF iter
<1>6. iter[{}] = 0
  BY <1>3, <1>5
<1>7. (CHOOSE x \in {m} : TRUE) = m
  BY <1>2, <1>3
<1>8. iter[{m}] = chain[m][e] + iter[{}]
  BY <1>3, <1>5, <1>7
<1> QED BY <1>1, <1>6, <1>8

\* A set with at most one element.
LEMMA AtMostOne ==
  ASSUME NEW p, NEW S \in SUBSET {p}
  PROVE  Cardinality(S) = IF p \in S THEN 1 ELSE 0
<1>1. CASE p \in S
  <2>1. S = {p}
    BY <1>1
  <2> QED BY <1>1, <2>1, FS_Singleton
<1>2. CASE p \notin S
  <2>1. S = {}
    BY <1>2
  <2> QED BY <1>2, <2>1, FS_EmptySet
<1> QED BY <1>1, <1>2

\* Sets of processes are finite.
LEMMA ProcSet ==
  ASSUME NEW S \in SUBSET Proc
  PROVE  /\ IsFiniteSet(S) /\ Cardinality(S) \in Nat
         /\ Cardinality(S) <= 0 => S = {}
         /\ \A T \in SUBSET S : Cardinality(T) <= Cardinality(S) /\ Cardinality(T) \in Nat
         /\ \A p \in S : Cardinality(S \ {p}) = Cardinality(S) - 1
         /\ \A p \in Proc : Cardinality(S \cup {p}) <= Cardinality(S) + 1
         /\ \A p \in S : Cardinality(S) <= 1 => S = {p}
<1>1. IsFiniteSet(S) /\ Cardinality(S) \in Nat
  BY ConstantsAssumption, FS_Subset, FS_CardinalityType
<1>2. Cardinality(S) <= 0 => S = {}
  BY <1>1, FS_EmptySet
<1>3. \A T \in SUBSET S : Cardinality(T) <= Cardinality(S) /\ Cardinality(T) \in Nat
  BY <1>1, FS_Subset, FS_CardinalityType
<1>4. \A p \in S : Cardinality(S \ {p}) = Cardinality(S) - 1
  BY <1>1, FS_RemoveElement
<1>5. \A p \in Proc : Cardinality(S \cup {p}) <= Cardinality(S) + 1
  <2> TAKE p \in Proc
  <2>1. Cardinality(S \cup {p}) = IF p \in S THEN Cardinality(S) ELSE Cardinality(S) + 1
    BY <1>1, FS_AddElement
  <2> QED BY <1>1, <2>1
<1>6. \A p \in S : Cardinality(S) <= 1 => S = {p}
  <2> SUFFICES ASSUME NEW p \in S, Cardinality(S) <= 1 PROVE S = {p}
    OBVIOUS
  <2>1. IsFiniteSet(S \ {p}) /\ Cardinality(S \ {p}) = Cardinality(S) - 1
    BY <1>1, FS_RemoveElement
  <2>2. Cardinality(S \ {p}) \in Nat
    BY <2>1, FS_CardinalityType
  <2>3. Cardinality(S \ {p}) = 0
    BY <1>1, <2>1, <2>2
  <2>4. S \ {p} = {}
    BY <2>1, <2>3, FS_EmptySet
  <2> QED BY <2>4
<1> QED BY <1>1, <1>2, <1>3, <1>4, <1>5, <1>6

-----------------------------------------------------------------------------
(* The mutex                                                               *)

\* Everybody opens the same device.
LEMMA TheMinor ==
  ASSUME OneMinor
  PROVE  \E m : Minor = {m} /\ \A p \in Proc : MinorOf[p] = m
BY ConstantsAssumption DEF OneMinor

\* Nobody but the holder of the mutex has loaded anything.
LEMMA Alone ==
  ASSUME OneMinor, IInv, NEW p \in Proc, lock[MinorOf[p]] \in {p, NoProc}
  PROVE  \A q \in Proc : q # p => /\ pc[q] \notin Locked /\ loaded[q] = Nothing
                                  /\ \A e \in Event : q \notin Disabling(e)
<1> SUFFICES ASSUME NEW q \in Proc, q # p
             PROVE  pc[q] \notin Locked /\ loaded[q] = Nothing /\ \A e \in Event : q \notin Disabling(e)
  OBVIOUS
<1>1. pc[q] \notin Locked
  BY TheMinor, ConstantsAssumption DEF IInv, MutexHeld
<1>2. loaded[q] = Nothing
  BY <1>1 DEF IInv, NotStale, Locked
<1> QED BY <1>1, <1>2, ConstantsAssumption DEF Disabling, Nothing

\* Loaded events are events.
LEMMA LoadedEvent ==
  ASSUME TypeOK, NEW p \in Proc, loaded[p] # Nothing
  PROVE  loaded[p].event \in Event /\ loaded[p].value \in Int
BY DEF TypeOK

\* A step of p that leaves the table, the list and what was loaded alone.
LEMMA TableKept ==
  ASSUME OneMinor, IInv, NEW p \in Proc, UNCHANGED <<chain, count, patched, loaded>>,
         \A q \in Proc : q # p => pc'[q] = pc[q],
         pc[p] \notin {"enabling", "disabling"}, pc'[p] \notin {"enabling", "disabling"},
         loaded[p] = Nothing
  PROVE  NotStale' /\ Counted'
<1>1. NotStale'
  <2> SUFFICES ASSUME NEW q \in Proc
               PROVE  /\ loaded'[q] # Nothing =>
                           /\ pc'[q] \in {"enabling", "disabling", "releasing"}
                           /\ loaded'[q].value = count'[loaded'[q].event]
                      /\ pc'[q] \in {"enabling", "disabling"} => loaded'[q] # Nothing
    BY DEF NotStale, Nothing
  <2>1. CASE q = p
    BY <2>1
  <2>2. CASE q # p
    BY <2>2 DEF IInv, NotStale
  <2> QED BY <2>1, <2>2
<1>2. \A e \in Event : Disabling(e)' = Disabling(e)
  BY ConstantsAssumption DEF Disabling, Nothing
<1> QED BY <1>1, <1>2 DEF IInv, Counted

\* p takes, keeps or releases the mutex and goes on to x, and nothing else
\* happens but that records are read.
LEMMA Move ==
  ASSUME OneMinor, IInv, NEW p \in Proc, NEW x \in PCs, goto(p, x),
         UNCHANGED <<readers, buf, chain, count, patched, ids, loaded, opens, callbacks, early>>,
         pc[p] \notin {"off", "enabling", "disabling", "releasing", "sleeping"},
         x \notin {"off", "enabling", "disabling", "sleeping"},
         x = "releasing" => readers[MinorOf[p]] = 1,
         avail' \in [Minor -> 0..MaxAvail],
         \/ lock[MinorOf[p]] = NoProc /\ lock' = [lock EXCEPT ![MinorOf[p]] = p]
         \/ lock[MinorOf[p]] = p /\ lock' = [lock EXCEPT ![MinorOf[p]] = NoProc] /\ x \notin Locked
         \/ lock' = lock /\ (x \in Locked => lock[MinorOf[p]] = p)
  PROVE  IInv'
<1>1. PICK m : Minor = {m} /\ \A q \in Proc : MinorOf[q] = m
  BY TheMinor
<1>2. pc \in [Proc -> PCs] /\ lock \in [Minor -> Proc \cup {NoProc}] /\ loaded[p] = Nothing
  BY DEF IInv, TypeOK, PCs, NotStale
<1>3. pc'[p] = x /\ \A q \in Proc : q # p => pc'[q] = pc[q]
  BY <1>2 DEF goto
<1>4. pc' \in [Proc -> PCs] /\ lock' \in [Minor -> Proc \cup {NoProc}]
  BY <1>1, <1>2 DEF goto
<1>5. TypeOK'
  BY <1>4 DEF IInv, TypeOK, PCs
<1>6. MutexHeld'
  <2> SUFFICES ASSUME NEW q \in Proc, pc'[q] \in Locked PROVE lock'[m] = q
    BY <1>1 DEF MutexHeld, Locked
  <2>1. CASE q = p
    BY <1>1, <1>2, <1>3, <2>1
  <2>2. CASE q # p
    <3>1. lock[m] = q
      BY <1>1, <1>3, <2>2 DEF IInv, MutexHeld
    <3> QED BY <1>1, <2>2, <3>1, ConstantsAssumption
  <2> QED BY <2>1, <2>2
<1>7. NotStale' /\ Counted'
  BY <1>2, <1>3, TableKept
<1>8. Used'
  <2>1. \A d \in Minor : InUse(d)' = InUse(d)
    BY <1>3 DEF InUse
  <2>2. \A q \in Proc : pc'[q] \in Closing => readers'[MinorOf[q]] = 1
    BY <1>3 DEF IInv, Used, Closing
  <2>3. \A q \in Proc : pc'[q] = "sleeping" =>
          callbacks'[MinorOf[q]] = 0 /\ \A e \in Event : chain'[MinorOf[q]][e] = 0
    BY <1>3 DEF IInv, Used
  <2> QED BY <2>1, <2>2, <2>3 DEF IInv, Used
<1>9. Listed'
  <2>1. \A q \in Proc : pc'[q] = "off" => ids'[q] = {}
    BY <1>3 DEF IInv, Listed
  <2>2. ASSUME NEW e \in Event PROVE Cardinality(Owners(e)') <= chain'[m][e]
    <3>1. Owners(e)' \in SUBSET Owners(e) /\ Owners(e) \in SUBSET Proc
      BY <1>3 DEF Owners, Closing
    <3>2. Cardinality(Owners(e)') <= Cardinality(Owners(e)) /\ Cardinality(Owners(e)') \in Nat
            /\ Cardinality(Owners(e)) \in Nat
      BY <3>1, ProcSet
    <3>3. Cardinality(Owners(e)) <= chain[m][e] /\ chain[m][e] \in Nat
      BY <1>1 DEF IInv, Listed, TypeOK
    <3> QED BY <3>2, <3>3
  <2> QED BY <1>1, <2>1, <2>2 DEF Listed
<1> QED BY <1>5, <1>6, <1>7, <1>8, <1>9 DEF IInv

\* The steps of ftcat that only move on, read, or wait.
LEMMA MoveInv ==
  ASSUME OneMinor, IInv, NEW p \in Proc,
         \/ activate_fails(p) \/ start_reading(p) \/ ftdev_read(p) \/ read_data(p) \/ read_wait(p)
         \/ read_end(p) \/ read_timeout(p) \/ signal(p) \/ shutdown_done(p) \/ release_last(p)
  PROVE  IInv'
<1>1. avail \in [Minor -> 0..MaxAvail] /\ MaxAvail \in Nat
  BY ConstantsAssumption DEF IInv, TypeOK
<1>2. pc[p] \in Locked => lock[MinorOf[p]] = p
  BY DEF IInv, MutexHeld
<1>3. CASE activate_fails(p)
  BY <1>1, <1>3, Move DEF activate_fails, PCs, Locked
<1>4. CASE start_reading(p)
  BY <1>1, <1>4, Move DEF start_reading, PCs, Locked
<1>5. CASE ftdev_read(p)
  BY <1>1, <1>5, Move DEF ftdev_read, PCs, Locked, mutex_lock
<1>6. CASE read_data(p)
  <2>1. avail' \in [Minor -> 0..MaxAvail]
    <3>1. avail' = [avail EXCEPT ![MinorOf[p]] = 0] /\ 0 \in 0..MaxAvail
      BY <1>1, <1>6 DEF read_data
    <3> QED BY <1>1, <3>1
  <2> QED BY <1>2, <1>6, <2>1, Move DEF read_data, PCs, Locked, mutex_unlock
<1>7. CASE read_wait(p)
  BY <1>1, <1>2, <1>7, Move DEF read_wait, PCs, Locked
<1>8. CASE read_end(p)
  BY <1>1, <1>2, <1>8, Move DEF read_end, PCs, Locked, mutex_unlock
<1>9. CASE read_timeout(p)
  BY <1>1, <1>2, <1>9, Move DEF read_timeout, PCs, Locked
<1>10. CASE signal(p)
  BY <1>1, <1>2, <1>10, Move DEF signal, PCs, Locked, mutex_unlock
<1>11. CASE shutdown_done(p)
  BY <1>1, <1>11, Move DEF shutdown_done, PCs, Locked
<1>12. CASE release_last(p)
  BY <1>1, <1>12, Move DEF release_last, PCs, Locked, mutex_lock
<1> QED BY <1>3, <1>4, <1>5, <1>6, <1>7, <1>8, <1>9, <1>10, <1>11, <1>12

-----------------------------------------------------------------------------
(* The steps that use the event table                                      *)

\* p, which holds the mutex or takes it, goes on with it or without it; the
\* other processes do not move.
LEMMA MutexStep ==
  ASSUME OneMinor, IInv, NEW p \in Proc, NEW x \in PCs, pc' = [pc EXCEPT ![p] = x],
         lock[MinorOf[p]] \in {p, NoProc},
         x \in Locked => lock' = [lock EXCEPT ![MinorOf[p]] = p]
  PROVE  /\ MutexHeld' /\ pc' \in [Proc -> PCs] /\ pc'[p] = x
         /\ \A q \in Proc : q # p => /\ pc'[q] = pc[q] /\ pc[q] \notin Locked /\ loaded[q] = Nothing
                                     /\ \A e \in Event : q \notin Disabling(e)
<1>1. PICK m : Minor = {m} /\ \A q \in Proc : MinorOf[q] = m
  BY TheMinor
<1>2. pc \in [Proc -> PCs] /\ lock \in [Minor -> Proc \cup {NoProc}]
  BY DEF IInv, TypeOK, PCs
<1>3. pc' \in [Proc -> PCs] /\ pc'[p] = x /\ \A q \in Proc : q # p => pc'[q] = pc[q]
  BY <1>2
<1>4. \A q \in Proc : q # p => /\ pc[q] \notin Locked /\ loaded[q] = Nothing
                               /\ \A e \in Event : q \notin Disabling(e)
  BY Alone
<1>5. MutexHeld'
  <2> SUFFICES ASSUME NEW q \in Proc, pc'[q] \in Locked PROVE lock'[m] = q
    BY <1>1 DEF MutexHeld, Locked
  <2>1. q = p
    BY <1>3, <1>4
  <2> QED BY <1>1, <1>2, <1>3, <2>1
<1> QED BY <1>3, <1>4, <1>5

\* What the processes have loaded is right if it is right for p.
LEMMA StaleStep ==
  ASSUME NEW p \in Proc, NEW x, pc'[p] = x,
         \A q \in Proc : q # p => pc'[q] \notin Locked /\ loaded'[q] = Nothing,
         /\ loaded'[p] # Nothing =>
              x \in {"enabling", "disabling", "releasing"} /\ loaded'[p].value = count'[loaded'[p].event]
         /\ x \in {"enabling", "disabling"} => loaded'[p] # Nothing
  PROVE  NotStale'
<1> SUFFICES ASSUME NEW q \in Proc
             PROVE  /\ loaded'[q] # Nothing =>
                         /\ pc'[q] \in {"enabling", "disabling", "releasing"}
                         /\ loaded'[q].value = count'[loaded'[q].event]
                    /\ pc'[q] \in {"enabling", "disabling"} => loaded'[q] # Nothing
  BY DEF NotStale, Nothing
<1>1. CASE q = p
  BY <1>1
<1>2. CASE q # p
  BY <1>2 DEF Locked
<1> QED BY <1>1, <1>2

\* The count of each event is right if it is with p alone at the table.
LEMMA CountStep ==
  ASSUME NEW m, Minor = {m}, NEW p \in Proc,
         \A q \in Proc : q # p => \A e \in Event : q \notin Disabling(e)',
         \A e \in Event :
           /\ count'[e] = chain'[m][e] + (IF p \in Disabling(e)' THEN 1 ELSE 0)
           /\ e \in patched' <=> count'[e] > 0
  PROVE  Counted'
<1>1. ASSUME NEW e \in Event PROVE Cardinality(Disabling(e)') = IF p \in Disabling(e)' THEN 1 ELSE 0
  <2>1. Disabling(e)' \in SUBSET {p}
    BY DEF Disabling
  <2> QED BY <2>1, AtMostOne
<1> QED BY <1>1 DEF Counted

\* Before the step the count is right with p alone at the table.
LEMMA CountOf ==
  ASSUME NEW m, Minor = {m}, IInv, NEW p \in Proc,
         \A q \in Proc : q # p => \A e \in Event : q \notin Disabling(e)
  PROVE  \A e \in Event :
           /\ count[e] = chain[m][e] + (IF p \in Disabling(e) THEN 1 ELSE 0)
           /\ chain[m][e] \in Nat /\ count[e] \in Int
           /\ e \in patched <=> count[e] > 0
<1> SUFFICES ASSUME NEW e \in Event
             PROVE  /\ count[e] = chain[m][e] + (IF p \in Disabling(e) THEN 1 ELSE 0)
                    /\ chain[m][e] \in Nat /\ count[e] \in Int
                    /\ e \in patched <=> count[e] > 0
  OBVIOUS
<1>1. Disabling(e) \in SUBSET {p}
  BY DEF Disabling
<1>2. Cardinality(Disabling(e)) = IF p \in Disabling(e) THEN 1 ELSE 0
  BY <1>1, AtMostOne
<1> QED BY <1>2 DEF IInv, Counted, TypeOK

\* Nobody opens or closes the device, and an event is listed while it is used.
LEMMA UsedKept ==
  ASSUME IInv, UNCHANGED <<readers, buf, opens, callbacks, early>>,
         \A q \in Proc : (pc'[q] = "off" <=> pc[q] = "off") /\ (pc'[q] \in Closing => pc'[q] = pc[q]),
         \A q \in Proc : pc'[q] # "sleeping",
         \A m \in Minor : readers[m] = 0 => \A e \in Event : chain'[m][e] = 0
  PROVE  Used'
<1>1. \A d \in Minor : InUse(d)' = InUse(d)
  BY DEF InUse
<1>2. \A q \in Proc : pc'[q] \in Closing => readers'[MinorOf[q]] = 1
  BY DEF IInv, Used, Closing
<1> QED BY <1>1, <1>2 DEF IInv, Used

\* Whoever has the device open is counted.
LEMMA Reader ==
  ASSUME IInv, NEW p \in Proc, pc[p] # "off"
  PROVE  readers[MinorOf[p]] \in Nat /\ readers[MinorOf[p]] > 0
<1>1. p \in InUse(MinorOf[p]) /\ InUse(MinorOf[p]) \in SUBSET Proc /\ MinorOf[p] \in Minor
  BY ConstantsAssumption DEF InUse
<1>2. Cardinality(InUse(MinorOf[p])) \in Nat /\ ~(Cardinality(InUse(MinorOf[p])) <= 0)
  BY <1>1, ProcSet
<1>3. Cardinality(InUse(MinorOf[p])) <= readers[MinorOf[p]] /\ readers[MinorOf[p]] \in 0..MaxOpens
  BY <1>1 DEF IInv, Used, TypeOK
<1> QED BY <1>2, <1>3, ConstantsAssumption

\* Nobody becomes an owner of an event that stays listed as often.
LEMMA ListedKept ==
  ASSUME OneMinor, IInv,
         \A m \in Minor, e \in Event : Owners(e)' = {} \/ chain'[m][e] = chain[m][e],
         \A m \in Minor, e \in Event : chain'[m][e] \in Nat,
         \A e \in Event : Owners(e)' \in SUBSET Owners(e),
         \A p \in Proc : pc'[p] = "off" => ids'[p] = {}
  PROVE  Listed'
<1>1. ASSUME NEW m \in Minor, NEW e \in Event PROVE Cardinality(Owners(e)') <= chain'[m][e]
  <2>1. Owners(e) \in SUBSET Proc
    BY DEF Owners, Closing
  <2>2. Cardinality(Owners(e)') <= Cardinality(Owners(e)) /\ Cardinality(Owners(e)') \in Nat
          /\ Cardinality(Owners(e)) \in Nat
    BY <2>1, ProcSet
  <2>3. Cardinality(Owners(e)) <= chain[m][e] /\ chain[m][e] \in Nat
    BY DEF IInv, Listed, TypeOK
  <2>4. CASE Owners(e)' = {}
    <3>1. Cardinality(Owners(e)') = 0
      BY <2>4, FS_EmptySet
    <3> QED BY <3>1
  <2>5. CASE chain'[m][e] = chain[m][e]
    BY <2>2, <2>3, <2>5
  <2> QED BY <2>4, <2>5
<1> QED BY <1>1 DEF Listed

\* activate() before it writes the count.
LEMMA IoctlEnableInv ==
  ASSUME OneMinor, IInv, NEW p \in Proc, NEW e \in Event, ioctl_enable(p, e)
  PROVE  IInv'
<1>1. PICK m : Minor = {m} /\ \A q \in Proc : MinorOf[q] = m
  BY TheMinor
<1>2. /\ pc[p] = "enable" /\ lock[MinorOf[p]] = NoProc /\ lock' = [lock EXCEPT ![MinorOf[p]] = p]
      /\ loaded' = [loaded EXCEPT ![p] = [event |-> e, value |-> count[e]]]
      /\ pc' = [pc EXCEPT ![p] = "enabling"]
      /\ UNCHANGED <<readers, buf, chain, count, patched, ids, opens, callbacks, early, avail>>
  BY DEF ioctl_enable, mutex_lock, load, goto
<1>3. "enabling" \in PCs
  BY DEF PCs
<1>4. /\ MutexHeld' /\ pc' \in [Proc -> PCs] /\ pc'[p] = "enabling"
      /\ \A q \in Proc : q # p => /\ pc'[q] = pc[q] /\ pc[q] \notin Locked /\ loaded[q] = Nothing
                                  /\ \A f \in Event : q \notin Disabling(f)
  BY <1>2, <1>3, MutexStep
<1>5. loaded'[p] = [event |-> e, value |-> count[e]] /\ \A q \in Proc : q # p => loaded'[q] = Nothing
  BY <1>2, <1>4 DEF IInv, TypeOK
<1>6. TypeOK'
  <2>1. lock' \in [Minor -> Proc \cup {NoProc}]
    BY <1>2 DEF IInv, TypeOK
  <2>2. loaded' \in [Proc -> [event : Event, value : Int] \cup {Nothing}]
    BY <1>2 DEF IInv, TypeOK
  <2> QED BY <1>2, <1>4, <2>1, <2>2 DEF IInv, TypeOK, PCs
<1>7. NotStale'
  <2>1. loaded'[p].value = count'[loaded'[p].event] /\ loaded'[p] # Nothing
    BY <1>2, <1>5, ConstantsAssumption DEF Nothing
  <2>2. \A q \in Proc : q # p => pc'[q] \notin Locked /\ loaded'[q] = Nothing
    BY <1>4, <1>5
  <2> QED BY <1>4, <2>1, <2>2, StaleStep
<1>8. Counted'
  <2>1. \A q \in Proc : \A f \in Event : q \notin Disabling(f)'
    BY <1>4, <1>5, ConstantsAssumption DEF Disabling, Nothing
  <2>2. \A f \in Event : p \notin Disabling(f)
    BY <1>2 DEF Disabling
  <2>3. \A f \in Event : count[f] = chain[m][f] + 0 /\ (f \in patched <=> count[f] > 0)
    BY <1>1, <1>4, <2>2, CountOf
  <2> QED BY <1>1, <1>2, <2>1, <2>3, CountStep
<1>9. Used'
  <2>1. \A q \in Proc : (pc'[q] = "off" <=> pc[q] = "off") /\ (pc'[q] \in Closing => pc'[q] = pc[q])
          /\ pc'[q] # "sleeping"
    BY <1>2, <1>4 DEF Closing, Locked
  <2>2. \A d \in Minor : readers[d] = 0 => \A f \in Event : chain'[d][f] = 0
    BY <1>2 DEF IInv, Used
  <2> QED BY <1>2, <2>1, <2>2, UsedKept
<1>10. Listed'
  <2>1. \A f \in Event : Owners(f)' \in SUBSET Owners(f)
    BY <1>2, <1>4 DEF Owners, Closing
  <2>2. \A q \in Proc : pc'[q] = "off" => ids'[q] = {}
    BY <1>2, <1>4 DEF IInv, Listed
  <2>3. \A d \in Minor, f \in Event : chain'[d][f] = chain[d][f] /\ chain'[d][f] \in Nat
    BY <1>2 DEF IInv, TypeOK
  <2> QED BY <2>1, <2>2, <2>3, ListedKept
<1> QED BY <1>4, <1>6, <1>7, <1>8, <1>9, <1>10 DEF IInv

\* The rest of activate().
LEMMA ActivateInv ==
  ASSUME OneMinor, IInv, NEW p \in Proc, activate(p)
  PROVE  IInv'
<1>1. PICK m : Minor = {m} /\ \A q \in Proc : MinorOf[q] = m
  BY TheMinor
<1>2. loaded[p] # Nothing /\ loaded[p].value = count[loaded[p].event]
        /\ loaded[p].event \in Event /\ lock[m] = p
  BY <1>1, LoadedEvent DEF activate, IInv, NotStale, MutexHeld, Locked
<1>3. PICK e \in Event : e = loaded[p].event
  BY <1>2
<1>4. /\ pc[p] = "enabling" /\ lock' = [lock EXCEPT ![MinorOf[p]] = NoProc]
      /\ loaded' = [loaded EXCEPT ![p] = Nothing]
      /\ count' = [count EXCEPT ![e] = count[e] + 1]
      /\ patched' = IF count[e] + 1 = 1 THEN patched \cup {e} ELSE patched
      /\ chain' = [chain EXCEPT ![m][e] = @ + 1]
      /\ ids' = [ids EXCEPT ![p] = @ \cup {e}]
      /\ pc' = [pc EXCEPT ![p] = "enable"]
      /\ UNCHANGED <<readers, buf, opens, callbacks, early, avail>>
  BY <1>1, <1>2, <1>3 DEF activate, ft_enable_event, mutex_unlock, goto
<1>5. "enable" \in PCs /\ "enable" \notin Locked /\ Nothing \in [event : Event, value : Int] \cup {Nothing}
  BY DEF PCs, Locked
<1>6. /\ MutexHeld' /\ pc' \in [Proc -> PCs] /\ pc'[p] = "enable"
      /\ \A q \in Proc : q # p => /\ pc'[q] = pc[q] /\ pc[q] \notin Locked /\ loaded[q] = Nothing
                                  /\ \A f \in Event : q \notin Disabling(f)
  BY <1>1, <1>2, <1>4, <1>5, MutexStep
<1>7. \A q \in Proc : loaded'[q] = Nothing
  BY <1>4, <1>6 DEF IInv, TypeOK
<1>8. \A f \in Event : count[f] = chain[m][f] + 0 /\ chain[m][f] \in Nat /\ (f \in patched <=> count[f] > 0)
  <2>1. \A f \in Event : p \notin Disabling(f)
    BY <1>4 DEF Disabling
  <2> QED BY <1>1, <1>6, <2>1, CountOf
<1>9. /\ chain' \in [Minor -> [Event -> Nat]] /\ count' \in [Event -> Int] /\ patched' \in SUBSET Event
      /\ \A f \in Event : /\ chain'[m][f] = IF f = e THEN chain[m][f] + 1 ELSE chain[m][f]
                          /\ count'[f] = IF f = e THEN count[f] + 1 ELSE count[f]
  BY <1>1, <1>4 DEF IInv, TypeOK
<1>10. ids' \in [Proc -> SUBSET Event] /\ ids'[p] = ids[p] \cup {e} /\ \A q \in Proc : q # p => ids'[q] = ids[q]
  BY <1>4 DEF IInv, TypeOK
<1>11. TypeOK'
  <2>1. lock' \in [Minor -> Proc \cup {NoProc}]
    BY <1>4 DEF IInv, TypeOK
  <2>2. loaded' \in [Proc -> [event : Event, value : Int] \cup {Nothing}]
    BY <1>4, <1>5 DEF IInv, TypeOK
  <2> QED BY <1>4, <1>6, <1>9, <1>10, <2>1, <2>2 DEF IInv, TypeOK, PCs
<1>12. NotStale'
  BY <1>6, <1>7, StaleStep
<1>13. Counted'
  <2>1. \A q \in Proc : \A f \in Event : q \notin Disabling(f)'
    BY <1>7, ConstantsAssumption DEF Disabling, Nothing
  <2>2. \A f \in Event : count'[f] = chain'[m][f] + 0 /\ (f \in patched' <=> count'[f] > 0)
    BY <1>4, <1>8, <1>9
  <2> QED BY <1>1, <2>1, <2>2, CountStep
<1>14. Used'
  <2>1. \A q \in Proc : (pc'[q] = "off" <=> pc[q] = "off") /\ (pc'[q] \in Closing => pc'[q] = pc[q])
          /\ pc'[q] # "sleeping"
    BY <1>4, <1>6 DEF Closing, Locked
  <2>2. readers[m] > 0 /\ readers[m] \in Nat
    BY <1>1, <1>4, Reader
  <2>3. \A d \in Minor : readers[d] # 0
    BY <1>1, <2>2
  <2> QED BY <1>4, <2>1, <2>3, UsedKept
<1>15. Listed'
  <2>1. ASSUME NEW f \in Event PROVE Cardinality(Owners(f)') <= chain'[m][f]
    <3>1. Owners(f) \in SUBSET Proc /\ Owners(f)' \in SUBSET Proc
      BY DEF Owners, Closing
    <3>2. Cardinality(Owners(f)) <= chain[m][f] /\ chain[m][f] \in Nat
      BY <1>1 DEF IInv, Listed, TypeOK
    <3>3. Cardinality(Owners(f)) \in Nat /\ Cardinality(Owners(f)') \in Nat
      BY <3>1, ProcSet
    <3>4. CASE f = e
      <4>1. Owners(f)' \in SUBSET (Owners(f) \cup {p}) /\ (Owners(f) \cup {p}) \in SUBSET Proc
        BY <1>6, <1>10 DEF Owners, Closing
      <4>2. Cardinality(Owners(f)') <= Cardinality(Owners(f) \cup {p}) /\ Cardinality(Owners(f) \cup {p}) \in Nat
        BY <4>1, ProcSet
      <4>3. Cardinality(Owners(f) \cup {p}) <= Cardinality(Owners(f)) + 1
        BY <3>1, ProcSet
      <4> QED BY <1>9, <3>2, <3>3, <3>4, <4>2, <4>3
    <3>5. CASE f # e
      <4>1. Owners(f)' \in SUBSET Owners(f)
        BY <1>4, <1>6, <1>10, <3>5 DEF Owners, Closing
      <4>2. Cardinality(Owners(f)') <= Cardinality(Owners(f))
        BY <3>1, <4>1, ProcSet
      <4> QED BY <1>9, <3>2, <3>3, <3>5, <4>2
    <3> QED BY <3>4, <3>5
  <2>2. \A q \in Proc : pc'[q] = "off" => ids'[q] = {}
    BY <1>6, <1>10 DEF IInv, Listed
  <2> QED BY <1>1, <2>1, <2>2 DEF Listed
<1> QED BY <1>6, <1>11, <1>12, <1>13, <1>14, <1>15 DEF IInv

\* deactivate() takes e off the list, with the mutex held by p, which goes on to x.
LEMMA TakenOff ==
  ASSUME OneMinor, IInv, NEW p \in Proc, NEW e \in Event, NEW m, Minor = {m}, MinorOf[p] = m,
         deactivate(p, e), UNCHANGED <<readers, buf, count, patched, opens, callbacks, early, avail>>,
         lock[m] \in {p, NoProc}, lock'[m] = p, lock' \in [Minor -> Proc \cup {NoProc}],
         NEW x \in {"disabling", "releasing"}, pc' = [pc EXCEPT ![p] = x],
         x = "releasing" => pc[p] = "releasing", pc[p] # "off",
         loaded[p] = Nothing, ids' \in [Proc -> SUBSET Event],
         \A q \in Proc : q # p => ids'[q] = ids[q]
  PROVE  /\ TypeOK' /\ MutexHeld' /\ NotStale' /\ Counted' /\ Used'
         /\ \A f \in Event : chain'[m][f] = IF f = e THEN chain[m][f] - 1 ELSE chain[m][f]
         /\ \A q \in Proc : pc'[q] = IF q = p THEN x ELSE pc[q]
<1>1. /\ chain[m][e] > 0 /\ chain' = [chain EXCEPT ![m][e] = @ - 1]
      /\ loaded' = [loaded EXCEPT ![p] = [event |-> e, value |-> count[e]]]
  BY DEF deactivate, load
<1>2. x \in PCs /\ x \in Locked /\ lock[MinorOf[p]] \in {p, NoProc} /\ lock' = [lock EXCEPT ![MinorOf[p]] = p]
  <2>1. lock \in [Minor -> Proc \cup {NoProc}]
    BY DEF IInv, TypeOK
  <2> QED BY <2>1 DEF PCs, Locked
<1>3. /\ MutexHeld' /\ pc' \in [Proc -> PCs] /\ pc'[p] = x
      /\ \A q \in Proc : q # p => /\ pc'[q] = pc[q] /\ pc[q] \notin Locked /\ loaded[q] = Nothing
                                  /\ \A f \in Event : q \notin Disabling(f)
  BY <1>2, MutexStep
<1>4. loaded'[p] = [event |-> e, value |-> count[e]] /\ \A q \in Proc : q # p => loaded'[q] = Nothing
  BY <1>1, <1>3 DEF IInv, TypeOK
<1>5. \A f \in Event : count[f] = chain[m][f] + 0 /\ chain[m][f] \in Nat /\ count[f] \in Int
                         /\ (f \in patched <=> count[f] > 0)
  <2>1. \A f \in Event : p \notin Disabling(f)
    BY ConstantsAssumption DEF Disabling, Nothing
  <2>2. \A f \in Event : Disabling(f) = {}
    BY <1>3, <2>1 DEF Disabling
  <2>3. \A f \in Event : Cardinality(Disabling(f)) = 0
    BY <2>2, FS_EmptySet
  <2> QED BY <2>3 DEF IInv, Counted, TypeOK
<1>6. /\ chain' \in [Minor -> [Event -> Nat]]
      /\ \A f \in Event : chain'[m][f] = IF f = e THEN chain[m][f] - 1 ELSE chain[m][f]
  <2>1. chain \in [Minor -> [Event -> Nat]] /\ chain[m][e] - 1 \in Nat
    BY <1>1, <1>5 DEF IInv, TypeOK
  <2> QED BY <1>1, <2>1
<1>7. TypeOK'
  <2>1. loaded' \in [Proc -> [event : Event, value : Int] \cup {Nothing}]
    BY <1>1, <1>5 DEF IInv, TypeOK
  <2> QED BY <1>3, <1>6, <2>1 DEF IInv, TypeOK, PCs
<1>8. NotStale'
  <2>1. loaded'[p].value = count'[loaded'[p].event] /\ loaded'[p] # Nothing
    BY <1>4, ConstantsAssumption DEF Nothing
  <2>2. \A q \in Proc : q # p => pc'[q] \notin Locked /\ loaded'[q] = Nothing
    BY <1>3, <1>4
  <2> QED BY <1>3, <2>1, <2>2, StaleStep
<1>9. Counted'
  <2>1. \A q \in Proc : q # p => \A f \in Event : q \notin Disabling(f)'
    BY <1>4, ConstantsAssumption DEF Disabling, Nothing
  <2>2. \A f \in Event : p \in Disabling(f)' <=> f = e
    BY <1>3, <1>4 DEF Disabling
  <2>3. ASSUME NEW f \in Event
        PROVE  /\ count'[f] = chain'[m][f] + (IF p \in Disabling(f)' THEN 1 ELSE 0)
               /\ f \in patched' <=> count'[f] > 0
    BY <1>5, <1>6, <2>2
  <2> QED BY <2>1, <2>3, CountStep
<1>10. Used'
  <2>1. \A q \in Proc : (pc'[q] = "off" <=> pc[q] = "off") /\ (pc'[q] \in Closing => pc'[q] = pc[q])
          /\ pc'[q] # "sleeping"
    BY <1>3 DEF Closing, Locked
  <2>2. readers[m] > 0 /\ readers[m] \in Nat
    BY Reader
  <2>3. \A d \in Minor : readers[d] # 0
    BY <2>2
  <2> QED BY <2>1, <2>3, UsedKept
<1> QED BY <1>3, <1>6, <1>7, <1>8, <1>9, <1>10

\* ioctl(FTDEV_DISABLE_CMD) before the count is written.
LEMMA IoctlDisableInv ==
  ASSUME OneMinor, IInv, NEW p \in Proc, NEW e \in Event, ioctl_disable(p, e)
  PROVE  IInv'
<1>1. PICK m : Minor = {m} /\ \A q \in Proc : MinorOf[q] = m
  BY TheMinor
<1>2. /\ pc[p] = "disable" /\ e \in ids[p] /\ lock[m] = NoProc /\ lock' = [lock EXCEPT ![m] = p]
      /\ ids' = [ids EXCEPT ![p] = @ \ {e}] /\ deactivate(p, e)
      /\ pc' = [pc EXCEPT ![p] = "disabling"]
      /\ UNCHANGED <<readers, buf, count, patched, opens, callbacks, early, avail>>
  BY <1>1 DEF ioctl_disable, mutex_lock, goto
<1>3. /\ ids' \in [Proc -> SUBSET Event] /\ ids'[p] = ids[p] \ {e} /\ \A q \in Proc : q # p => ids'[q] = ids[q]
      /\ lock' \in [Minor -> Proc \cup {NoProc}] /\ lock'[m] = p
      /\ loaded[p] = Nothing
  BY <1>1, <1>2 DEF IInv, TypeOK, NotStale
<1>4. /\ TypeOK' /\ MutexHeld' /\ NotStale' /\ Counted' /\ Used'
      /\ \A f \in Event : chain'[m][f] = IF f = e THEN chain[m][f] - 1 ELSE chain[m][f]
      /\ \A q \in Proc : pc'[q] = IF q = p THEN "disabling" ELSE pc[q]
  BY <1>1, <1>2, <1>3, TakenOff
<1>5. Listed'
  <2>1. ASSUME NEW f \in Event PROVE Cardinality(Owners(f)') <= chain'[m][f]
    <3>1. Owners(f) \in SUBSET Proc /\ Owners(f)' \in SUBSET Proc
      BY DEF Owners, Closing
    <3>2. Cardinality(Owners(f)) <= chain[m][f] /\ chain[m][f] \in Nat
      BY <1>1 DEF IInv, Listed, TypeOK
    <3>3. Cardinality(Owners(f)) \in Nat /\ Cardinality(Owners(f)') \in Nat
      BY <3>1, ProcSet
    <3>4. CASE f = e
      <4>1. Owners(f)' = Owners(f) \ {p} /\ p \in Owners(f)
        BY <1>2, <1>3, <1>4, <3>4 DEF Owners, Closing
      <4>2. Cardinality(Owners(f)') = Cardinality(Owners(f)) - 1
        BY <3>1, <4>1, ProcSet
      <4> QED BY <1>4, <3>2, <3>3, <3>4, <4>2
    <3>5. CASE f # e
      <4>1. Owners(f)' \in SUBSET Owners(f)
        BY <1>2, <1>3, <1>4, <3>5 DEF Owners, Closing
      <4>2. Cardinality(Owners(f)') <= Cardinality(Owners(f))
        BY <3>1, <4>1, ProcSet
      <4> QED BY <1>4, <3>2, <3>3, <3>5, <4>2
    <3> QED BY <3>4, <3>5
  <2>2. \A q \in Proc : pc'[q] = "off" => ids'[q] = {}
    BY <1>3, <1>4 DEF IInv, Listed
  <2> QED BY <1>1, <2>1, <2>2 DEF Listed
<1> QED BY <1>4, <1>5 DEF IInv

\* Nobody else has the device open when the last reader closes it.
LEMMA LastReader ==
  ASSUME OneMinor, IInv, NEW p \in Proc, pc[p] \in Closing
  PROVE  \A q \in Proc : q # p => pc[q] = "off" /\ ids[q] = {}
<1>1. PICK m : Minor = {m} /\ \A q \in Proc : MinorOf[q] = m
  BY TheMinor
<1>2. InUse(m) \in SUBSET Proc /\ p \in InUse(m)
  BY <1>1 DEF InUse, Closing
<1>3. readers[m] = 1 /\ Cardinality(InUse(m)) <= readers[m]
  BY <1>1 DEF IInv, Used
<1>4. InUse(m) = {p}
  BY <1>2, <1>3, ProcSet
<1> QED BY <1>1, <1>4 DEF InUse, IInv, Listed

\* The last close() takes the events off the list one by one.
LEMMA ReleaseEventInv ==
  ASSUME OneMinor, IInv, NEW p \in Proc, NEW e \in Event, release_event(p, e)
  PROVE  IInv'
<1>1. PICK m : Minor = {m} /\ \A q \in Proc : MinorOf[q] = m
  BY TheMinor
<1>2. /\ pc[p] = "releasing" /\ loaded[p] = Nothing /\ deactivate(p, e)
      /\ UNCHANGED <<lock, readers, buf, count, patched, pc, ids, opens, callbacks, early, avail>>
  BY DEF release_event
<1>3. /\ lock[m] = p /\ lock' \in [Minor -> Proc \cup {NoProc}] /\ ids' \in [Proc -> SUBSET Event]
      /\ pc' = [pc EXCEPT ![p] = "releasing"]
  BY <1>1, <1>2 DEF IInv, TypeOK, MutexHeld, Locked
<1>4. TypeOK' /\ MutexHeld' /\ NotStale' /\ Counted' /\ Used'
  BY <1>1, <1>2, <1>3, TakenOff
<1>5. \A f \in Event : Owners(f)' = {}
  BY <1>2, LastReader DEF Owners, Closing
<1>6. Listed'
  <2>1. \A d \in Minor, f \in Event : chain'[d][f] \in Nat
    BY <1>4 DEF TypeOK
  <2>2. \A q \in Proc : pc'[q] = "off" => ids'[q] = {}
    BY <1>2 DEF IInv, Listed
  <2> QED BY <1>5, <2>1, <2>2, ListedKept
<1> QED BY <1>4, <1>6 DEF IInv

\* The rest of deactivate(): p writes the count of what it has taken off the
\* list, and goes on to x.
LEMMA WrittenBack ==
  ASSUME OneMinor, IInv, NEW p \in Proc, NEW m, Minor = {m}, MinorOf[p] = m,
         pc[p] \in {"disabling", "releasing"}, loaded[p] # Nothing, ft_disable_event(p),
         NEW x \in {"disable", "releasing"}, pc' = [pc EXCEPT ![p] = x],
         x = "releasing" <=> pc[p] = "releasing",
         lock' = [lock EXCEPT ![m] = IF x = "releasing" THEN p ELSE NoProc],
         UNCHANGED <<readers, buf, chain, ids, opens, callbacks, early, avail>>
  PROVE  IInv'
<1>1. loaded[p].value = count[loaded[p].event] /\ loaded[p].event \in Event /\ lock[m] = p
  BY LoadedEvent DEF IInv, NotStale, MutexHeld, Locked
<1>2. PICK e \in Event : e = loaded[p].event
  BY <1>1
<1>3. /\ loaded' = [loaded EXCEPT ![p] = Nothing]
      /\ count' = [count EXCEPT ![e] = count[e] - 1]
      /\ patched' = IF count[e] - 1 = 0 THEN patched \ {e} ELSE patched
  BY <1>1, <1>2 DEF ft_disable_event
<1>4. /\ x \in PCs /\ lock[MinorOf[p]] \in {p, NoProc}
      /\ x \in Locked => lock' = [lock EXCEPT ![MinorOf[p]] = p]
  BY <1>1 DEF PCs, Locked
<1>5. /\ MutexHeld' /\ pc' \in [Proc -> PCs] /\ pc'[p] = x
      /\ \A q \in Proc : q # p => /\ pc'[q] = pc[q] /\ pc[q] \notin Locked /\ loaded[q] = Nothing
                                  /\ \A f \in Event : q \notin Disabling(f)
  BY <1>4, MutexStep
<1>6. \A q \in Proc : loaded'[q] = Nothing
  BY <1>3, <1>5 DEF IInv, TypeOK
<1>7. \A f \in Event : /\ count[f] = chain[m][f] + (IF f = e THEN 1 ELSE 0)
                       /\ chain[m][f] \in Nat /\ count[f] \in Int /\ (f \in patched <=> count[f] > 0)
  <2>1. \A f \in Event : p \in Disabling(f) <=> f = e
    BY <1>2 DEF Disabling
  <2>2. \A q \in Proc : q # p => \A f \in Event : q \notin Disabling(f)
    BY <1>5
  <2>3. \A f \in Event :
          /\ count[f] = chain[m][f] + (IF p \in Disabling(f) THEN 1 ELSE 0)
          /\ chain[m][f] \in Nat /\ count[f] \in Int
          /\ f \in patched <=> count[f] > 0
    BY <2>2, CountOf
  <2> QED BY <2>1, <2>3
<1>8. /\ count' \in [Event -> Int] /\ patched' \in SUBSET Event
      /\ \A f \in Event : count'[f] = IF f = e THEN count[f] - 1 ELSE count[f]
  BY <1>3, <1>7 DEF IInv, TypeOK
<1>9. TypeOK'
  <2>1. lock' \in [Minor -> Proc \cup {NoProc}]
    BY DEF IInv, TypeOK
  <2>2. loaded' \in [Proc -> [event : Event, value : Int] \cup {Nothing}]
    BY <1>3 DEF IInv, TypeOK
  <2> QED BY <1>5, <1>8, <2>1, <2>2 DEF IInv, TypeOK, PCs
<1>10. NotStale'
  <2>1. \A q \in Proc : q # p => pc'[q] \notin Locked /\ loaded'[q] = Nothing
    BY <1>5, <1>6
  <2> QED BY <1>5, <1>6, <2>1, StaleStep
<1>11. Counted'
  <2>1. \A q \in Proc : \A f \in Event : q \notin Disabling(f)'
    BY <1>6, ConstantsAssumption DEF Disabling, Nothing
  <2>2. \A f \in Event : count'[f] = chain'[m][f] + 0 /\ (f \in patched' <=> count'[f] > 0)
    BY <1>3, <1>7, <1>8
  <2> QED BY <2>1, <2>2, CountStep
<1>12. Used'
  <2>1. \A q \in Proc : (pc'[q] = "off" <=> pc[q] = "off") /\ (pc'[q] \in Closing => pc'[q] = pc[q])
          /\ pc'[q] # "sleeping"
    BY <1>5 DEF Closing, Locked
  <2>2. \A d \in Minor : readers[d] = 0 => \A f \in Event : chain'[d][f] = 0
    BY DEF IInv, Used
  <2> QED BY <2>1, <2>2, UsedKept
<1>13. Listed'
  <2>1. \A f \in Event : Owners(f)' \in SUBSET Owners(f)
    BY <1>5 DEF Owners, Closing
  <2>2. \A q \in Proc : pc'[q] = "off" => ids'[q] = {}
    BY <1>5 DEF IInv, Listed
  <2>3. \A d \in Minor, f \in Event : chain'[d][f] = chain[d][f] /\ chain'[d][f] \in Nat
    BY DEF IInv, TypeOK
  <2> QED BY <2>1, <2>2, <2>3, ListedKept
<1> QED BY <1>5, <1>9, <1>10, <1>11, <1>12, <1>13 DEF IInv

\* The two callers of deactivate() go on.
LEMMA WrittenBackInv ==
  ASSUME OneMinor, IInv, NEW p \in Proc, ioctl_disabled(p) \/ release_event_done(p)
  PROVE  IInv'
<1>1. PICK m : Minor = {m} /\ \A q \in Proc : MinorOf[q] = m
  BY TheMinor
<1>2. CASE ioctl_disabled(p)
  <2>1. loaded[p] # Nothing /\ pc[p] = "disabling"
    BY <1>2 DEF ioctl_disabled, IInv, NotStale
  <2>2. /\ ft_disable_event(p) /\ lock' = [lock EXCEPT ![m] = NoProc] /\ pc' = [pc EXCEPT ![p] = "disable"]
        /\ UNCHANGED <<readers, buf, chain, ids, opens, callbacks, early, avail>>
    BY <1>1, <1>2 DEF ioctl_disabled, mutex_unlock, goto
  <2> QED BY <1>1, <2>1, <2>2, WrittenBack
<1>3. CASE release_event_done(p)
  <2>1. loaded[p] # Nothing /\ pc[p] = "releasing" /\ ft_disable_event(p)
          /\ UNCHANGED <<lock, readers, buf, chain, pc, ids, opens, callbacks, early, avail>>
    BY <1>3 DEF release_event_done
  <2>2. lock' = [lock EXCEPT ![m] = p] /\ pc' = [pc EXCEPT ![p] = "releasing"]
    BY <1>1, <2>1 DEF IInv, TypeOK, MutexHeld, Locked
  <2> QED BY <1>1, <2>1, <2>2, WrittenBack
<1> QED BY <1>2, <1>3

-----------------------------------------------------------------------------
(* Opening and closing                                                     *)

\* p opens or closes the device, without the events being touched.
LEMMA Turnstile ==
  ASSUME OneMinor, IInv, NEW p \in Proc, NEW x \in {"off", "enable"}, pc' = [pc EXCEPT ![p] = x],
         UNCHANGED <<chain, count, patched, loaded>>,
         pc[p] \in {"off", "close", "sleeping"}, x = "enable" => pc[p] = "off", loaded[p] = Nothing,
         lock' = lock \/ (lock[MinorOf[p]] = p /\ lock' = [lock EXCEPT ![MinorOf[p]] = NoProc]),
         ids' = IF x = "off" THEN [ids EXCEPT ![p] = {}] ELSE ids
  PROVE  /\ MutexHeld' /\ NotStale' /\ Counted' /\ Listed'
         /\ pc' \in [Proc -> PCs] /\ ids' \in [Proc -> SUBSET Event]
         /\ lock' \in [Minor -> Proc \cup {NoProc}]
         /\ \A q \in Proc : pc'[q] = IF q = p THEN x ELSE pc[q]
<1>1. PICK m : Minor = {m} /\ \A q \in Proc : MinorOf[q] = m
  BY TheMinor
<1>2. pc \in [Proc -> PCs] /\ lock \in [Minor -> Proc \cup {NoProc}] /\ ids \in [Proc -> SUBSET Event]
        /\ {} \in SUBSET Event
  BY DEF IInv, TypeOK, PCs
<1>3. pc' \in [Proc -> PCs] /\ \A q \in Proc : pc'[q] = IF q = p THEN x ELSE pc[q]
  BY <1>2 DEF PCs
<1>4. lock' \in [Minor -> Proc \cup {NoProc}]
  BY <1>1, <1>2
<1>5. /\ ids' \in [Proc -> SUBSET Event] /\ \A q \in Proc : q # p => ids'[q] = ids[q]
      /\ IF x = "off" THEN ids'[p] = {} ELSE ids'[p] = ids[p]
  BY <1>2
<1>6. MutexHeld'
  <2> SUFFICES ASSUME NEW q \in Proc, pc'[q] \in Locked PROVE lock'[m] = q
    BY <1>1 DEF MutexHeld, Locked
  <2>1. q # p /\ pc[q] \in Locked
    BY <1>3 DEF Locked
  <2>2. lock[m] = q
    BY <1>1, <2>1 DEF IInv, MutexHeld
  <2> QED BY <1>1, <2>1, <2>2
<1>7. NotStale' /\ Counted'
  BY <1>3, TableKept
<1>8. Listed'
  <2>1. ASSUME NEW f \in Event PROVE Owners(f)' \in SUBSET Owners(f)
    <3>1. p \notin Owners(f)'
      BY <1>3, <1>5 DEF Owners, IInv, Listed, Closing
    <3> QED BY <1>3, <1>5, <3>1 DEF Owners
  <2>2. \A q \in Proc : pc'[q] = "off" => ids'[q] = {}
    BY <1>3, <1>5 DEF IInv, Listed
  <2>3. \A d \in Minor, f \in Event : chain'[d][f] = chain[d][f] /\ chain'[d][f] \in Nat
    BY DEF IInv, TypeOK
  <2> QED BY <2>1, <2>2, <2>3, ListedKept
<1> QED BY <1>3, <1>4, <1>5, <1>6, <1>7, <1>8

\* One more reader.
LEMMA OpenInv ==
  ASSUME OneMinor, IInv, NEW p \in Proc, ftdev_open(p)
  PROVE  IInv'
<1>1. PICK m : Minor = {m} /\ \A q \in Proc : MinorOf[q] = m
  BY TheMinor
<1>2. /\ pc[p] = "off" /\ opens < MaxOpens /\ lock[m] = NoProc /\ opens' = opens + 1
      /\ readers' = [readers EXCEPT ![m] = @ + 1] /\ buf' = [buf EXCEPT ![m] = TRUE]
      /\ pc' = [pc EXCEPT ![p] = "enable"]
      /\ UNCHANGED <<lock, chain, count, patched, ids, loaded, callbacks, early, avail>>
  BY <1>1 DEF ftdev_open, mutex_free, goto
<1>3. loaded[p] = Nothing
  BY <1>2 DEF IInv, NotStale
<1>4. /\ MutexHeld' /\ NotStale' /\ Counted' /\ Listed'
      /\ pc' \in [Proc -> PCs] /\ \A q \in Proc : pc'[q] = IF q = p THEN "enable" ELSE pc[q]
  BY <1>2, <1>3, Turnstile
<1>5. /\ opens \in 0..MaxOpens /\ readers \in [Minor -> 0..MaxOpens] /\ buf \in [Minor -> BOOLEAN]
      /\ readers[m] <= opens /\ MaxOpens \in Nat /\ Cardinality(InUse(m)) <= readers[m]
  BY <1>1, ConstantsAssumption DEF IInv, TypeOK, Used
<1>6. /\ opens' \in 0..MaxOpens /\ readers[m] + 1 \in 0..MaxOpens /\ readers[m] + 1 <= opens'
      /\ readers[m] \in Nat
  BY <1>1, <1>2, <1>5
<1>7. /\ readers' \in [Minor -> 0..MaxOpens] /\ readers'[m] = readers[m] + 1
      /\ buf' \in [Minor -> BOOLEAN] /\ buf'[m] = TRUE
  BY <1>1, <1>2, <1>5, <1>6
<1>8. TypeOK'
  BY <1>2, <1>4, <1>6, <1>7 DEF IInv, TypeOK, PCs
<1>9. Used'
  <2>1. Cardinality(InUse(m)') <= readers'[m]
    <3>1. InUse(m) \in SUBSET Proc /\ InUse(m)' = InUse(m) \cup {p}
      BY <1>1, <1>4 DEF InUse
    <3>2. /\ Cardinality(InUse(m)) \in Nat /\ Cardinality(InUse(m)') <= Cardinality(InUse(m)) + 1
      BY <3>1, ProcSet
    <3>3. Cardinality(InUse(m)') \in Nat
      <4>1. InUse(m)' \in SUBSET Proc
        BY <3>1
      <4> QED BY <4>1, ProcSet
    <3> QED BY <1>5, <1>6, <1>7, <3>2, <3>3
  <2>2. \A q \in Proc : pc'[q] \in Closing => readers'[MinorOf[q]] = 1
    BY <1>1, <1>2, <1>4, ConstantsAssumption DEF IInv, MutexHeld, Locked, Closing
  <2>3. \A d \in Minor : /\ Cardinality(InUse(d)') <= readers'[d] /\ readers'[d] <= opens'
                         /\ buf'[d] /\ readers'[d] # 0
    BY <1>1, <1>6, <1>7, <2>1
  <2>4. \A q \in Proc : pc'[q] # "sleeping"
    BY <1>1, <1>2, <1>4, ConstantsAssumption DEF IInv, MutexHeld, Locked
  <2> QED BY <2>2, <2>3, <2>4 DEF Used
<1> QED BY <1>4, <1>8, <1>9 DEF IInv

\* p is not counted any more, or is forgotten in the count.
LEMMA InUseLess ==
  ASSUME IInv, NEW p \in Proc, NEW m \in Minor, MinorOf[p] = m, pc[p] # "off",
         \A q \in Proc : pc'[q] = IF q = p THEN "off" ELSE pc[q]
  PROVE  /\ Cardinality(InUse(m)') = Cardinality(InUse(m)) - 1
         /\ Cardinality(InUse(m)) \in Nat /\ Cardinality(InUse(m)) <= readers[m]
<1>1. InUse(m) \in SUBSET Proc /\ p \in InUse(m) /\ InUse(m)' = InUse(m) \ {p}
  BY DEF InUse
<1>2. Cardinality(InUse(m)') = Cardinality(InUse(m)) - 1 /\ Cardinality(InUse(m)) \in Nat
  BY <1>1, ProcSet
<1> QED BY <1>2 DEF IInv, Used

\* close() by one of several readers.
LEMMA ReleaseInv ==
  ASSUME OneMinor, IInv, NEW p \in Proc, ftdev_release(p)
  PROVE  IInv'
<1>1. PICK m : Minor = {m} /\ \A q \in Proc : MinorOf[q] = m
  BY TheMinor
<1>2. /\ pc[p] = "close" /\ readers[m] # 1 /\ lock[m] = NoProc
      /\ readers' = [readers EXCEPT ![m] = @ - 1] /\ ids' = [ids EXCEPT ![p] = {}]
      /\ pc' = [pc EXCEPT ![p] = "off"]
      /\ UNCHANGED <<lock, buf, chain, count, patched, loaded, opens, callbacks, early, avail>>
  BY <1>1 DEF ftdev_release, mutex_free, goto
<1>3. loaded[p] = Nothing
  BY <1>2 DEF IInv, NotStale
<1>4. /\ MutexHeld' /\ NotStale' /\ Counted' /\ Listed'
      /\ pc' \in [Proc -> PCs] /\ ids' \in [Proc -> SUBSET Event]
      /\ \A q \in Proc : pc'[q] = IF q = p THEN "off" ELSE pc[q]
  BY <1>2, <1>3, Turnstile
<1>5. readers[m] \in Nat /\ readers[m] > 1 /\ readers[m] <= opens /\ opens \in Nat
        /\ readers \in [Minor -> 0..MaxOpens] /\ MaxOpens \in Nat
  <2>1. readers[m] \in Nat /\ readers[m] > 0
    BY <1>1, <1>2, Reader
  <2> QED BY <1>1, <1>2, <2>1, ConstantsAssumption DEF IInv, TypeOK, Used
<1>6. readers' \in [Minor -> 0..MaxOpens] /\ readers'[m] = readers[m] - 1
  <2>1. readers[m] - 1 \in 0..MaxOpens
    BY <1>1, <1>5
  <2> QED BY <1>1, <1>2, <1>5, <2>1
<1>7. TypeOK'
  BY <1>2, <1>4, <1>6 DEF IInv, TypeOK, PCs
<1>8. Used'
  <2>1. Cardinality(InUse(m)') <= readers'[m]
    <3>1. /\ Cardinality(InUse(m)') = Cardinality(InUse(m)) - 1
          /\ Cardinality(InUse(m)) \in Nat /\ Cardinality(InUse(m)) <= readers[m]
      BY <1>1, <1>2, <1>4, InUseLess
    <3> QED BY <1>5, <1>6, <3>1
  <2>2. \A q \in Proc : pc'[q] \in Closing => readers'[MinorOf[q]] = 1
    BY <1>1, <1>2, <1>4, ConstantsAssumption DEF IInv, MutexHeld, Locked, Closing
  <2>3. readers'[m] > 0 /\ readers'[m] <= opens' /\ buf[m] = TRUE
    BY <1>1, <1>2, <1>5, <1>6 DEF IInv, Used, TypeOK
  <2>4. \A d \in Minor : /\ Cardinality(InUse(d)') <= readers'[d] /\ readers'[d] <= opens'
                         /\ buf'[d] /\ readers'[d] # 0
    BY <1>1, <1>2, <1>5, <1>6, <2>1, <2>3
  <2>5. \A q \in Proc : pc'[q] # "sleeping"
    BY <1>1, <1>2, <1>4, ConstantsAssumption DEF IInv, MutexHeld, Locked
  <2> QED BY <2>2, <2>4, <2>5 DEF Used
<1> QED BY <1>4, <1>7, <1>8 DEF IInv

\* An interrupted close().
LEMMA ReleaseInterruptedInv ==
  ASSUME OneMinor, IInv, NEW p \in Proc, release_interrupted(p)
  PROVE  IInv'
<1>1. PICK m : Minor = {m} /\ \A q \in Proc : MinorOf[q] = m
  BY TheMinor
<1>2. /\ pc[p] = "close" /\ ids' = [ids EXCEPT ![p] = {}] /\ pc' = [pc EXCEPT ![p] = "off"]
      /\ UNCHANGED <<lock, readers, buf, chain, count, patched, loaded, opens, callbacks, early, avail>>
  BY <1>1 DEF release_interrupted, goto
<1>3. loaded[p] = Nothing
  BY <1>2 DEF IInv, NotStale
<1>4. /\ MutexHeld' /\ NotStale' /\ Counted' /\ Listed'
      /\ pc' \in [Proc -> PCs] /\ ids' \in [Proc -> SUBSET Event]
      /\ \A q \in Proc : pc'[q] = IF q = p THEN "off" ELSE pc[q]
  BY <1>2, <1>3, Turnstile
<1>5. TypeOK'
  BY <1>2, <1>4 DEF IInv, TypeOK, PCs
<1>6. Used'
  <2>1. Cardinality(InUse(m)') <= readers'[m]
    <3>1. /\ Cardinality(InUse(m)') = Cardinality(InUse(m)) - 1
          /\ Cardinality(InUse(m)) \in Nat /\ Cardinality(InUse(m)) <= readers[m]
      BY <1>1, <1>2, <1>4, InUseLess
    <3>2. readers[m] \in Nat
      BY <1>1, <1>2, Reader
    <3> QED BY <1>2, <3>1, <3>2
  <2>2. \A q \in Proc : pc'[q] \in Closing => readers'[MinorOf[q]] = 1
    BY <1>2, <1>4 DEF IInv, Used, Closing
  <2>3. \A d \in Minor : Cardinality(InUse(d)') <= readers'[d]
    BY <1>1, <2>1
  <2>4. \A q \in Proc : pc'[q] = "sleeping" =>
          callbacks'[MinorOf[q]] = 0 /\ \A e \in Event : chain'[MinorOf[q]][e] = 0
    BY <1>2, <1>4 DEF IInv, Used
  <2> QED BY <1>2, <2>2, <2>3, <2>4 DEF IInv, Used
<1> QED BY <1>4, <1>5, <1>6 DEF IInv

\* The last close() goes to sleep: whatever runs is early now.
LEMMA ReleaseSleepInv ==
  ASSUME OneMinor, IInv, NEW p \in Proc, release_sleep(p)
  PROVE  IInv'
<1>1. PICK m : Minor = {m} /\ \A q \in Proc : MinorOf[q] = m
  BY TheMinor
<1>2. /\ pc[p] = "releasing" /\ loaded[p] = Nothing /\ ~has_events(m)
      /\ early' = [early EXCEPT ![m] = @ + callbacks[m]] /\ callbacks' = [callbacks EXCEPT ![m] = 0]
      /\ pc' = [pc EXCEPT ![p] = "sleeping"]
      /\ UNCHANGED <<lock, readers, buf, chain, count, patched, ids, loaded, opens, avail>>
  BY <1>1 DEF release_sleep, goto
<1>3. lock[m] = p /\ readers[m] = 1 /\ buf[m]
  BY <1>1, <1>2 DEF IInv, MutexHeld, Locked, Used, Closing
<1>4. \A q \in Proc : q # p => pc[q] = "off" /\ ids[q] = {}
  BY <1>2, LastReader DEF Closing
<1>5. pc' \in [Proc -> PCs] /\ \A q \in Proc : pc'[q] = IF q = p THEN "sleeping" ELSE pc[q]
  BY <1>2 DEF IInv, TypeOK, PCs
<1>6. callbacks' \in [Minor -> 0..MaxAvail] /\ early' \in [Minor -> Nat] /\ callbacks'[m] = 0
  <2>1. /\ callbacks \in [Minor -> 0..MaxAvail] /\ early \in [Minor -> Nat] /\ 0 \in 0..MaxAvail
        /\ callbacks[m] \in Nat /\ early[m] \in Nat
    BY <1>1, ConstantsAssumption DEF IInv, TypeOK
  <2>2. early[m] + callbacks[m] \in Nat
    BY <2>1
  <2> QED BY <1>1, <1>2, <2>1, <2>2
<1>7. TypeOK'
  BY <1>2, <1>5, <1>6 DEF IInv, TypeOK, PCs
<1>8. MutexHeld'
  BY <1>1, <1>2, <1>3, <1>4, <1>5 DEF MutexHeld, Locked
<1>9. NotStale' /\ Counted'
  BY <1>2, <1>5, TableKept
<1>10. \A e \in Event : chain'[m][e] = 0
  BY <1>1, <1>2 DEF has_events, IInv, TypeOK
<1>11. Used'
  <2>1. InUse(m)' = InUse(m)
    BY <1>2, <1>5 DEF InUse
  <2>2. Cardinality(InUse(m)) <= readers[m] /\ readers[m] <= opens
    BY <1>1 DEF IInv, Used
  <2>3. \A q \in Proc : pc'[q] \in Closing => readers'[MinorOf[q]] = 1
    BY <1>1, <1>2, <1>3
  <2>4. \A q \in Proc : pc'[q] = "sleeping" =>
          callbacks'[MinorOf[q]] = 0 /\ \A e \in Event : chain'[MinorOf[q]][e] = 0
    BY <1>1, <1>6, <1>10
  <2> QED BY <1>1, <1>2, <1>3, <2>1, <2>2, <2>3, <2>4 DEF Used
<1>12. Listed'
  <2>1. \A f \in Event : Owners(f)' \in SUBSET Owners(f)
    BY <1>2, <1>5 DEF Owners, Closing
  <2>2. \A q \in Proc : pc'[q] = "off" => ids'[q] = {}
    BY <1>2, <1>5 DEF IInv, Listed
  <2>3. \A d \in Minor, f \in Event : chain'[d][f] = chain[d][f] /\ chain'[d][f] \in Nat
    BY <1>2 DEF IInv, TypeOK
  <2> QED BY <2>1, <2>2, <2>3, ListedKept
<1> QED BY <1>7, <1>8, <1>9, <1>11, <1>12 DEF IInv

\* The end of the last close().  No callback has started since it went to
\* sleep, and if those before have ended in time there is none.
LEMMA ReleaseDoneInv ==
  ASSUME OneMinor, IInv, NEW p \in Proc, release_done(p)
  PROVE  IInv'
<1>1. PICK m : Minor = {m} /\ \A q \in Proc : MinorOf[q] = m
  BY TheMinor
<1>2. /\ pc[p] = "sleeping" /\ (CallbacksInTime => early[m] = 0)
      /\ buf' = [buf EXCEPT ![m] = ~Allocated]
      /\ avail' = [avail EXCEPT ![m] = IF Allocated THEN 0 ELSE @]
      /\ readers' = [readers EXCEPT ![m] = @ - 1] /\ ids' = [ids EXCEPT ![p] = {}]
      /\ lock' = [lock EXCEPT ![m] = NoProc] /\ pc' = [pc EXCEPT ![p] = "off"]
      /\ UNCHANGED <<chain, count, patched, loaded, opens, callbacks, early>>
  BY <1>1 DEF release_done, mutex_unlock, goto
<1>3. lock[m] = p /\ readers[m] = 1 /\ loaded[p] = Nothing /\ callbacks[m] = 0
  BY <1>1, <1>2 DEF IInv, MutexHeld, Locked, Used, Closing, NotStale
<1>4. /\ MutexHeld' /\ NotStale' /\ Counted' /\ Listed'
      /\ pc' \in [Proc -> PCs] /\ ids' \in [Proc -> SUBSET Event] /\ lock' \in [Minor -> Proc \cup {NoProc}]
      /\ \A q \in Proc : pc'[q] = IF q = p THEN "off" ELSE pc[q]
  BY <1>1, <1>2, <1>3, Turnstile
<1>5. readers' \in [Minor -> 0..MaxOpens] /\ readers'[m] = 0
  <2>1. readers \in [Minor -> 0..MaxOpens] /\ 0 \in 0..MaxOpens
    BY ConstantsAssumption DEF IInv, TypeOK
  <2> QED BY <1>1, <1>2, <1>3, <2>1
<1>6. buf' \in [Minor -> BOOLEAN] /\ (buf'[m] <=> ~Allocated)
  BY <1>1, <1>2, ConstantsAssumption DEF IInv, TypeOK
<1>7. avail' \in [Minor -> 0..MaxAvail]
  <2>1. avail \in [Minor -> 0..MaxAvail] /\ 0 \in 0..MaxAvail
    BY ConstantsAssumption DEF IInv, TypeOK
  <2> QED BY <1>1, <1>2, <2>1
<1>8. TypeOK'
  BY <1>2, <1>4, <1>5, <1>6, <1>7 DEF IInv, TypeOK, PCs
<1>9. \A e \in Event : chain'[m][e] = 0
  BY <1>1, <1>2 DEF IInv, Used
<1>10. Used'
  <2>1. Cardinality(InUse(m)') <= 0
    <3>1. /\ Cardinality(InUse(m)') = Cardinality(InUse(m)) - 1
          /\ Cardinality(InUse(m)) \in Nat /\ Cardinality(InUse(m)) <= readers[m]
      BY <1>1, <1>2, <1>4, InUseLess
    <3> QED BY <1>3, <3>1
  <2>2. \A q \in Proc : pc'[q] = "off"
    BY <1>2, <1>4, LastReader DEF Closing
  <2>3. opens' \in Nat
    BY <1>2, ConstantsAssumption DEF IInv, TypeOK
  <2>4. /\ Cardinality(InUse(m)') <= readers'[m] /\ readers'[m] <= opens'
        /\ ~(readers'[m] > 0) /\ ~(callbacks'[m] > 0) /\ (CallbacksInTime => ~(early'[m] > 0))
    BY <1>2, <1>3, <1>5, <2>1, <2>3
  <2>5. \A q \in Proc : pc'[q] \notin Closing /\ pc'[q] # "sleeping"
    BY <2>2 DEF Closing
  <2> QED BY <1>1, <1>6, <1>9, <2>4, <2>5 DEF Used
<1> QED BY <1>4, <1>8, <1>10 DEF IInv

-----------------------------------------------------------------------------
(* The traced code, and the theorems                                       *)

\* No event fires while the last close() sleeps.
LEMMA QuietSleep ==
  ASSUME OneMinor, IInv, NEW p \in Proc, pc[p] = "sleeping"
  PROVE  patched = {}
<1>1. PICK m : Minor = {m} /\ \A q \in Proc : MinorOf[q] = m
  BY TheMinor
<1>2. ASSUME NEW e \in Event PROVE e \notin patched
  <2>1. \A q \in Proc : q # p => pc[q] = "off"
    BY LastReader DEF Closing
  <2>2. Disabling(e) = {}
    BY <2>1 DEF Disabling
  <2>3. Cardinality(Disabling(e)) = 0
    BY <2>2, FS_EmptySet
  <2>4. chain[m][e] = 0
    BY <1>1 DEF IInv, Used
  <2>5. count[e] = chain[m][e] + Cardinality(Disabling(e)) /\ (e \in patched <=> count[e] > 0)
    BY <1>1 DEF IInv, Counted
  <2> QED BY <2>3, <2>4, <2>5
<1> QED BY <1>2 DEF IInv, TypeOK

\* What fires belongs to a reader.
LEMMA FiringRead ==
  ASSUME OneMinor, IInv, NEW m \in Minor, NEW e \in Event, e \in patched
  PROVE  readers[m] > 0
<1>1. readers[m] \in Nat /\ chain[m][e] \in Nat
  BY ConstantsAssumption DEF IInv, TypeOK
<1>2. count[e] > 0 /\ count[e] = chain[m][e] + Cardinality(Disabling(e))
  BY DEF IInv, Counted
<1>3. CASE chain[m][e] > 0
  BY <1>1, <1>3 DEF IInv, Used
<1>4. CASE Disabling(e) # {}
  <2>1. PICK p \in Proc : pc[p] # "off"
    BY <1>4 DEF Disabling
  <2>2. MinorOf[p] = m
    BY TheMinor
  <2> QED BY <2>1, <2>2, Reader
<1>5. CASE Disabling(e) = {} /\ ~(chain[m][e] > 0)
  <2>1. Cardinality(Disabling(e)) = 0
    BY <1>5, FS_EmptySet
  <2> QED BY <1>1, <1>2, <1>5, <2>1
<1> QED BY <1>3, <1>4, <1>5

\* The traced code: callbacks start only while there is a reader.
LEMMA FireInv ==
  ASSUME OneMinor, IInv, NEW m \in Minor, fired(m) \/ \E e \in Event : fire(e, m)
  PROVE  IInv'
<1>1. /\ callbacks \in [Minor -> 0..MaxAvail] /\ avail \in [Minor -> 0..MaxAvail] /\ MaxAvail \in Nat
      /\ early \in [Minor -> Nat] /\ callbacks[m] \in 0..MaxAvail /\ early[m] \in Nat
  BY ConstantsAssumption DEF IInv, TypeOK
<1>2. UNCHANGED <<lock, readers, buf, chain, count, patched, pc, ids, loaded, opens>>
  BY DEF fired, fire
<1>3. PICK c \in 0..MaxAvail, d \in Nat :
        /\ callbacks' = [callbacks EXCEPT ![m] = c] /\ early' = [early EXCEPT ![m] = d]
        /\ \/ c <= callbacks[m] /\ d <= early[m]
           \/ d = early[m] /\ patched # {} /\ readers[m] > 0
  <2>1. CASE callbacks[m] > 0 /\ callbacks' = [callbacks EXCEPT ![m] = @ - 1] /\ UNCHANGED early
    <3>1. callbacks[m] - 1 \in 0..MaxAvail /\ callbacks[m] - 1 <= callbacks[m] /\ early[m] <= early[m]
      BY <1>1, <2>1
    <3>2. early' = [early EXCEPT ![m] = early[m]]
      BY <1>1, <2>1
    <3> QED BY <1>1, <2>1, <3>1, <3>2
  <2>2. CASE early[m] > 0 /\ early' = [early EXCEPT ![m] = @ - 1] /\ UNCHANGED callbacks
    <3>1. early[m] - 1 \in Nat /\ early[m] - 1 <= early[m] /\ callbacks[m] <= callbacks[m]
      BY <1>1, <2>2
    <3>2. callbacks' = [callbacks EXCEPT ![m] = callbacks[m]]
      BY <1>1, <2>2
    <3> QED BY <1>1, <2>2, <3>1, <3>2
  <2>3. CASE \E e \in Event : fire(e, m)
    <3>1. PICK e \in Event : fire(e, m)
      BY <2>3
    <3>2. /\ e \in patched /\ callbacks[m] + early[m] < MaxAvail
          /\ callbacks' = [callbacks EXCEPT ![m] = callbacks[m] + 1] /\ early' = early
      BY <3>1 DEF fire
    <3>3. callbacks[m] + 1 \in 0..MaxAvail /\ early' = [early EXCEPT ![m] = early[m]]
      BY <1>1, <3>2
    <3>4. readers[m] > 0
      BY <3>2, FiringRead
    <3> QED BY <1>1, <3>2, <3>3, <3>4
  <2> QED BY <2>1, <2>2, <2>3 DEF fired
<1>4. /\ callbacks' \in [Minor -> 0..MaxAvail] /\ early' \in [Minor -> Nat]
      /\ \A n \in Minor : callbacks'[n] = (IF n = m THEN c ELSE callbacks[n])
                         /\ early'[n] = (IF n = m THEN d ELSE early[n])
  BY <1>1, <1>3
<1>5. avail' \in [Minor -> 0..MaxAvail]
  <2>1. CASE fired(m)
    <3>1. avail[m] < MaxAvail => avail[m] + 1 \in 0..MaxAvail
      BY <1>1
    <3>2. PICK v \in 0..MaxAvail : avail' = [avail EXCEPT ![m] = v]
      <4>1. avail' = [avail EXCEPT ![m] = IF buf[m] /\ avail[m] < MaxAvail THEN avail[m] + 1 ELSE avail[m]]
        BY <2>1 DEF fired
      <4>2. CASE buf[m] /\ avail[m] < MaxAvail
        BY <3>1, <4>1, <4>2
      <4>3. CASE ~(buf[m] /\ avail[m] < MaxAvail)
        BY <1>1, <4>1, <4>3
      <4> QED BY <4>2, <4>3
    <3> QED BY <1>1, <3>2
  <2>2. CASE \E e \in Event : fire(e, m)
    BY <1>1, <2>2 DEF fire
  <2> QED BY <2>1, <2>2
<1>6. TypeOK'
  BY <1>2, <1>4, <1>5 DEF IInv, TypeOK
<1>7. MutexHeld' /\ NotStale'
  BY <1>2 DEF IInv, MutexHeld, NotStale
<1>8. /\ \A e \in Event : Disabling(e)' = Disabling(e) /\ Owners(e)' = Owners(e)
      /\ \A n \in Minor : InUse(n)' = InUse(n)
  BY <1>2 DEF Disabling, Owners, InUse
<1>9. Counted' /\ Listed'
  BY <1>2, <1>8 DEF IInv, Counted, Listed
<1>10. Used'
  <2>1. ASSUME NEW n \in Minor
        PROVE  readers'[n] > 0 \/ callbacks'[n] > 0 \/ (CallbacksInTime /\ early'[n] > 0) \/ ~Allocated
                 => buf'[n]
    <3>1. /\ readers[n] > 0 \/ callbacks[n] > 0 \/ (CallbacksInTime /\ early[n] > 0) \/ ~Allocated => buf[n]
          /\ callbacks[n] \in Nat /\ early[n] \in Nat
      BY <1>1 DEF IInv, Used
    <3>2. CASE n # m
      BY <1>2, <1>4, <3>1, <3>2
    <3>3. CASE n = m /\ c <= callbacks[m] /\ d <= early[m]
      <4>1. (callbacks'[n] > 0 => callbacks[n] > 0) /\ (early'[n] > 0 => early[n] > 0)
        BY <1>4, <3>1, <3>3
      <4> QED BY <1>2, <3>1, <4>1
    <3>4. CASE n = m /\ readers[m] > 0
      BY <1>2, <3>1, <3>4
    <3> QED BY <1>3, <3>2, <3>3, <3>4
  <2>2. ASSUME NEW q \in Proc, pc[q] = "sleeping" PROVE callbacks'[MinorOf[q]] = 0
    <3>1. patched = {}
      BY <2>2, QuietSleep
    <3>2. callbacks[m] = 0 /\ MinorOf[q] = m
      BY <2>2, TheMinor DEF IInv, Used
    <3> QED BY <1>3, <1>4, <3>1, <3>2
  <2>3. \A n \in Minor :
          /\ Cardinality(InUse(n)') <= readers'[n] /\ readers'[n] <= opens'
          /\ readers'[n] = 0 => (\A e \in Event : chain'[n][e] = 0) /\ (Allocated => ~buf'[n])
    BY <1>2, <1>8 DEF IInv, Used
  <2>4. \A q \in Proc : /\ pc'[q] \in Closing => readers'[MinorOf[q]] = 1
                        /\ pc'[q] = "sleeping" => \A e \in Event : chain'[MinorOf[q]][e] = 0
    BY <1>2 DEF IInv, Used
  <2> QED BY <1>2, <2>1, <2>2, <2>3, <2>4 DEF Used
<1> QED BY <1>6, <1>7, <1>9, <1>10 DEF IInv

\* The invariant holds before anything is opened,
LEMMA InitInv ==
  ASSUME OneMinor, Init
  PROVE  IInv
<1>1. Nothing \in [event : Event, value : Int] \cup {Nothing}
  OBVIOUS
<1>2. 0 \in 0..MaxOpens /\ 0 \in 0..MaxAvail /\ Allocated \in BOOLEAN
  BY ConstantsAssumption
<1>3. TypeOK
  BY <1>1, <1>2 DEF Init, TypeOK
<1>4. MutexHeld /\ NotStale
  BY DEF Init, MutexHeld, NotStale, Locked
<1>5. /\ \A e \in Event : Disabling(e) = {} /\ Owners(e) = {}
      /\ \A m \in Minor : InUse(m) = {}
  BY DEF Init, Disabling, Owners, InUse
<1>6. /\ \A e \in Event : Cardinality(Disabling(e)) = 0 /\ Cardinality(Owners(e)) = 0
      /\ \A m \in Minor : Cardinality(InUse(m)) = 0
  BY <1>5, FS_EmptySet
<1>7. Counted /\ Listed
  BY <1>6 DEF Init, Counted, Listed
<1>8. Used
  <2>1. \A p \in Proc : pc[p] \notin Closing /\ pc[p] # "sleeping"
    BY DEF Init, Closing
  <2>2. ASSUME NEW m \in Minor
        PROVE  readers[m] = 0 /\ callbacks[m] = 0 /\ early[m] = 0 /\ opens = 0 /\ \A e \in Event : chain[m][e] = 0
    BY DEF Init
  <2>3. ASSUME NEW m \in Minor PROVE buf[m] <=> ~Allocated
    BY <1>2, Zenon DEF Init
  <2>4. ASSUME NEW m \in Minor
        PROVE  /\ Cardinality(InUse(m)) <= readers[m] /\ readers[m] <= opens
               /\ ~(readers[m] > 0) /\ ~(callbacks[m] > 0) /\ ~(early[m] > 0)
    BY <1>6, <2>2
  <2> QED BY <2>1, <2>2, <2>3, <2>4, Zenon DEF Used
<1> QED BY <1>3, <1>4, <1>7, <1>8 DEF IInv

\* and every step keeps it.
LEMMA NextInv ==
  ASSUME OneMinor, IInv, [Next]_vars
  PROVE  IInv'
<1>1. CASE UNCHANGED vars
  <2>1. UNCHANGED <<lock, readers, buf, chain, count, patched, pc, ids, loaded, opens, callbacks, early, avail>>
    BY <1>1 DEF vars
  <2>2. TypeOK' /\ MutexHeld' /\ NotStale'
    BY <2>1 DEF IInv, TypeOK, MutexHeld, NotStale
  <2>3. /\ \A e \in Event : Disabling(e)' = Disabling(e) /\ Owners(e)' = Owners(e)
        /\ \A d \in Minor : InUse(d)' = InUse(d)
    BY <2>1 DEF Disabling, Owners, InUse
  <2>4. Counted' /\ Listed' /\ Used'
    BY <2>1, <2>3 DEF IInv, Counted, Listed, Used
  <2> QED BY <2>2, <2>4 DEF IInv
<1>2. CASE Next
  BY <1>2, OpenInv, MoveInv, IoctlEnableInv, ActivateInv, IoctlDisableInv, WrittenBackInv,
     ReleaseEventInv, ReleaseInv, ReleaseInterruptedInv, ReleaseSleepInv, ReleaseDoneInv, FireInv
     DEF Next, Continue
<1> QED BY <1>1, <1>2

\* The inductive invariant of a trace device with one minor device.
THEOREM Invariance == ASSUME OneMinor PROVE Spec => []IInv
<1>1. Init => IInv
  BY InitInv
<1>2. IInv /\ [Next]_vars => IInv'
  BY NextInv
<1> QED BY <1>1, <1>2, PTL DEF Spec

\* What the invariant says about table and buffer.
LEMMA AgreementFromInv ==
  ASSUME OneMinor, IInv
  PROVE  TableAgrees
<1>1. PICK m : Minor = {m} /\ \A q \in Proc : MinorOf[q] = m
  BY TheMinor
<1>2. BufferPresent
  <2>1. ASSUME InUse(m) # {} PROVE buf[m]
    <3>1. PICK p \in Proc : pc[p] # "off"
      BY <2>1 DEF InUse
    <3>2. readers[m] > 0
      BY <1>1, <3>1, Reader
    <3> QED BY <1>1, <3>2 DEF IInv, Used
  <2>2. callbacks[m] > 0 \/ (CallbacksInTime /\ early[m] > 0) => buf[m]
    BY <1>1 DEF IInv, Used
  <2> QED BY <1>1, <2>1, <2>2 DEF BufferPresent
<1>3. ASSUME NEW e \in Event
      PROVE  /\ count[e] = MapThenSumSet(LAMBDA d : chain[d][e], Minor) + Cardinality(Disabling(e))
             /\ e \in patched <=> count[e] > 0
  <2>1. chain[m][e] \in Nat
    BY <1>1 DEF IInv, TypeOK
  <2>2. MapThenSumSet(LAMBDA d : chain[d][e], {m}) = chain[m][e]
    BY <2>1, SumOne
  <2>3. MapThenSumSet(LAMBDA d : chain[d][e], Minor) = chain[m][e]
    BY <1>1, <2>2
  <2>4. count[e] = chain[m][e] + Cardinality(Disabling(e)) /\ (e \in patched <=> count[e] > 0)
    BY <1>1 DEF IInv, Counted
  <2> QED BY <2>3, <2>4
<1>4. ASSUME \A d \in Minor : readers[d] = 0
      PROVE  patched = {} /\ (Allocated => \A d \in Minor : ~buf[d])
  <2>1. readers[m] = 0
    BY <1>1, <1>4
  <2>2. \A p \in Proc : pc[p] = "off"
    BY <1>1, <2>1, Reader
  <2>3. ASSUME NEW e \in Event PROVE e \notin patched
    <3>1. Disabling(e) = {}
      BY <2>2 DEF Disabling
    <3>2. Cardinality(Disabling(e)) = 0
      BY <3>1, FS_EmptySet
    <3>3. chain[m][e] = 0
      BY <1>1, <2>1 DEF IInv, Used
    <3>4. count[e] = chain[m][e] + Cardinality(Disabling(e)) /\ (e \in patched <=> count[e] > 0)
      BY <1>1 DEF IInv, Counted
    <3> QED BY <3>2, <3>3, <3>4
  <2>4. patched \in SUBSET Event
    BY DEF IInv, TypeOK
  <2>5. Allocated => \A d \in Minor : ~buf[d]
    BY <1>4 DEF IInv, Used
  <2> QED BY <2>3, <2>4, <2>5
<1>5. TypeOK
  BY DEF IInv
<1> QED BY <1>2, <1>3, <1>4, <1>5 DEF TableAgrees

\* The event table agrees with the list of the device, what fires with both,
\* and no buffer is freed while a process or a callback uses it, whatever
\* processes open, fail, are interrupted or close at the same time; only of the
\* callbacks that ran when the last close() went to sleep does CallbacksInTime
\* have to say that they end before it wakes up.
THEOREM TableAgreement == ASSUME OneMinor PROVE Spec => []TableAgrees
<1>1. IInv => TableAgrees
  BY AgreementFromInv
<1> QED BY <1>1, Invariance, PTL

\* shutdown() of ftcat always finds what it disables.
THEOREM NothingLeftOn == ASSUME OneMinor PROVE Spec => []DisableFinds
<1>1. ASSUME IInv PROVE DisableFinds
  <2> SUFFICES ASSUME NEW p \in Proc, NEW e \in Event, pc[p] = "disable", e \in ids[p]
               PROVE  chain[MinorOf[p]][e] > 0
    BY DEF DisableFinds
  <2>1. p \in Owners(e) /\ Owners(e) \in SUBSET Proc /\ MinorOf[p] \in Minor
    BY ConstantsAssumption DEF Owners, Closing
  <2>2. Cardinality(Owners(e)) \in Nat /\ ~(Cardinality(Owners(e)) <= 0)
    BY <2>1, ProcSet
  <2>3. Cardinality(Owners(e)) <= chain[MinorOf[p]][e] /\ chain[MinorOf[p]][e] \in Nat
    BY <1>1, <2>1 DEF IInv, Listed, TypeOK
  <2> QED BY <2>2, <2>3
<1> QED BY <1>1, Invariance, PTL
=============================================================================
