------------------------ MODULE FeatherBuffer_proofs ------------------------
(***************************************************************************)
(* Proofs about the Feather-Trace buffer, for any number of writers, any   *)
(* slot count that init_ft_buffer() accepts and any width of the indices.  *)
(* It implements a bounded queue (TraceFIFO), if copy_to_user() never      *)
(* leaves exactly one byte uncopied, and accounts for every event.         *)
(***************************************************************************)
EXTENDS FeatherBuffer, FiniteSetTheorems, SequenceTheorems, TLAPS

\* The slot k places after slot b.
Ring(b, k) == IF b + k < slot_count THEN b + k ELSE b + k - slot_count

\* Division with remainder, for the reduction of an index to a slot.
LEMMA Division ==
  ASSUME NEW n \in Nat \ {0}, NEW a \in Nat
  PROVE  \E q, r \in Nat : r = a % n /\ r < n /\ a = n * q + r
<1>1. a \div n \in Nat /\ a % n \in Nat
  OBVIOUS
<1>2. \A q, r \in Nat : q = a \div n /\ r = a % n => r < n /\ a = n * q + r
  BY SMTT(30)
<1>3. \E q, r \in Nat : q = a \div n /\ r = a % n
  BY <1>1, Zenon
<1> QED
  BY <1>2, <1>3, Zenon

\* The remainder is determined by the division.
LEMMA Remainder ==
  ASSUME NEW n \in Nat \ {0}, NEW a \in Nat, NEW q \in Nat, NEW r \in Nat,
         r < n, a = n * q + r
  PROVE  a % n = r
OBVIOUS

\* The remainder of a sum with a number that is at most the divisor.
LEMMA RemainderOfSum ==
  ASSUME NEW n \in Nat \ {0}, NEW i \in Nat, NEW k \in 0..n
  PROVE  (i + k) % n = IF (i % n) + k < n THEN (i % n) + k ELSE (i % n) + k - n
<1>1. PICK q \in Nat, r \in Nat : r = i % n /\ r < n /\ i = n * q + r
  BY Division
<1>2. CASE r + k < n
  <2>1. i + k = n * q + (r + k)
    BY <1>1
  <2>2. i + k \in Nat /\ r + k \in Nat
    OBVIOUS
  <2>3. (i + k) % n = r + k
    BY <1>2, <2>1, <2>2, Remainder
  <2> QED BY <1>1, <1>2, <2>3
<1>3. CASE r + k >= n
  <2>1. i + k = n * (q + 1) + (r + k - n)
    BY <1>1
  <2>2. i + k \in Nat /\ r + k - n \in Nat /\ r + k - n < n /\ q + 1 \in Nat
    BY <1>1, <1>3
  <2>3. (i + k) % n = r + k - n
    BY <2>1, <2>2, Remainder
  <2> QED BY <1>1, <1>3, <2>3
<1> QED
  BY <1>2, <1>3

\* An index reduces to a slot, and its successors to the slots that follow.
LEMMA RingOfIndex ==
  ASSUME NEW i \in Nat, NEW k \in 0..slot_count
  PROVE  slot(i) \in Slot /\ slot(i + k) = Ring(slot(i), k)
<1>1. slot_count \in Nat \ {0}
  BY ConstantsAssumption DEF valid_slot_count
<1>2. slot(i) \in Slot
  BY <1>1 DEF slot, Slot
<1>3. (i + k) % slot_count = IF (i % slot_count) + k < slot_count
                             THEN (i % slot_count) + k ELSE (i % slot_count) + k - slot_count
  BY <1>1, RemainderOfSum
<1> QED
  BY <1>2, <1>3 DEF slot, Ring

\* Because the slot count divides UINT_MAX + 1, the slots also follow each
\* other when an index wraps around.
LEMMA SlotOfInc ==
  ASSUME NEW i \in Index
  PROVE  inc(i) \in Index /\ slot(inc(i)) = Ring(slot(i), 1)
<1>1. slot_count \in Nat \ {0} /\ UINT_MAX \in Nat /\ UINT_MAX % slot_count = slot_count - 1
  BY ConstantsAssumption DEF valid_slot_count
<1>2. CASE i = UINT_MAX
  <2>1. inc(i) = 0
    <3>1. ASSUME NEW n \in Nat \ {0} PROVE n % n = 0
      OBVIOUS
    <3> QED BY <1>1, <1>2, <3>1 DEF inc
  <2>2. slot(0) = 0
    <3>1. ASSUME NEW n \in Nat \ {0} PROVE 0 % n = 0
      OBVIOUS
    <3> QED BY <1>1, <3>1 DEF slot
  <2> QED
    BY <1>1, <1>2, <2>1, <2>2 DEF slot, Ring, Index
<1>3. CASE i # UINT_MAX
  <2>1. i + 1 \in 0..UINT_MAX /\ i \in Nat
    BY <1>1, <1>3 DEF Index
  <2>2. ASSUME NEW n \in Nat \ {0}, NEW a \in 0..(n - 1) PROVE a % n = a
    OBVIOUS
  <2>3. inc(i) = i + 1
    BY <1>1, <2>1, <2>2 DEF inc
  <2> QED
    BY <1>1, <2>1, <2>3, RingOfIndex DEF Index
<1> QED
  BY <1>2, <1>3

\* The places of the queue are the slots, each of them once.
LEMMA Places ==
  ASSUME TypeOK
  PROVE  /\ slot(read_idx) \in Slot /\ slot(write_idx) \in Slot
         /\ Place(0) = slot(read_idx) /\ Place(slot_count) = Place(0)
         /\ \A k \in 0..slot_count : Place(k) \in Slot /\ Place(k) = Ring(slot(read_idx), k)
         /\ \A j, k \in Slot : Place(j) = Place(k) => j = k
         /\ \A s \in Slot : \E k \in Slot : Place(k) = s
<1>1. slot_count \in Nat \ {0} /\ read_idx \in Nat /\ write_idx \in Nat /\ 0 \in 0..slot_count
  BY ConstantsAssumption DEF valid_slot_count, TypeOK, Index
<1>2. slot(read_idx) \in Slot /\ slot(write_idx) \in Slot
  BY <1>1, RingOfIndex
<1>3. \A k \in 0..slot_count : Place(k) = Ring(slot(read_idx), k)
  BY <1>1, RingOfIndex DEF Place
<1> HIDE DEF Place
<1> DEFINE b == slot(read_idx)
<1>4. b \in Slot
  BY <1>2
<1> HIDE DEF b
<1>5. \A k \in 0..slot_count : Place(k) = Ring(b, k) /\ Ring(b, k) \in Slot
  BY <1>1, <1>3, <1>4 DEF Ring, Slot, b
<1>6. Place(0) = b /\ Place(slot_count) = b
  BY <1>1, <1>4, <1>5 DEF Ring, Slot
<1>7. \A j, k \in Slot : Place(j) = Place(k) => j = k
  BY <1>1, <1>4, <1>5 DEF Ring, Slot
<1>8. ASSUME NEW s \in Slot PROVE \E k \in Slot : Place(k) = s
  <2> DEFINE k == IF s >= b THEN s - b ELSE s - b + slot_count
  <2>1. k \in Slot /\ Ring(b, k) = s
    BY <1>1, <1>4 DEF Ring, Slot
  <2> QED BY <1>1, <1>5, <2>1 DEF Slot
<1> QED
  BY <1>2, <1>5, <1>6, <1>7, <1>8 DEF b

\* What a writer's step does to the numbers of writers with a reservation
\* and of writers about to give up.
LEMMA Move ==
  ASSUME TypeOK, NEW w \in Writer, NEW x, at' = [at EXCEPT ![w] = x]
  PROVE  /\ Cardinality(Reserved) \in Nat /\ Cardinality(Failed) \in Nat
         /\ Cardinality(Reserved') = Cardinality(Reserved)
              + (IF x = "reserved" THEN 1 ELSE 0) - (IF at[w] = "reserved" THEN 1 ELSE 0)
         /\ Cardinality(Failed') = Cardinality(Failed)
              + (IF x = "failed" THEN 1 ELSE 0) - (IF at[w] = "failed" THEN 1 ELSE 0)
<1>1. ASSUME NEW S \in SUBSET Writer
      PROVE  /\ Cardinality(S) \in Nat
             /\ Cardinality(S \cup {w}) = IF w \in S THEN Cardinality(S) ELSE Cardinality(S) + 1
             /\ Cardinality(S \ {w}) = IF w \in S THEN Cardinality(S) - 1 ELSE Cardinality(S)
  <2>1. IsFiniteSet(S)
    BY ConstantsAssumption, FS_Subset
  <2> QED
    BY <2>1, FS_CardinalityType, FS_AddElement, FS_RemoveElement
<1>2. Reserved \in SUBSET Writer /\ Failed \in SUBSET Writer
  BY DEF Reserved, Failed
<1>3. /\ w \in Reserved <=> at[w] = "reserved"
      /\ w \in Failed <=> at[w] = "failed"
  BY DEF Reserved, Failed
<1>4. /\ Reserved' = IF x = "reserved" THEN Reserved \cup {w} ELSE Reserved \ {w}
      /\ Failed' = IF x = "failed" THEN Failed \cup {w} ELSE Failed \ {w}
  BY DEF Reserved, Failed, TypeOK
<1> HIDE DEF Reserved, Failed
<1>5. Cardinality(Reserved') = Cardinality(Reserved)
              + (IF x = "reserved" THEN 1 ELSE 0) - (IF at[w] = "reserved" THEN 1 ELSE 0)
  <2>1. /\ Cardinality(Reserved) \in Nat
        /\ Cardinality(Reserved \cup {w}) = IF w \in Reserved THEN Cardinality(Reserved) ELSE Cardinality(Reserved) + 1
        /\ Cardinality(Reserved \ {w}) = IF w \in Reserved THEN Cardinality(Reserved) - 1 ELSE Cardinality(Reserved)
    BY <1>1, <1>2
  <2>2. CASE x = "reserved"
    BY <1>3, <1>4, <2>1, <2>2
  <2>3. CASE x # "reserved"
    BY <1>3, <1>4, <2>1, <2>3
  <2> QED BY <2>2, <2>3
<1>6. Cardinality(Failed') = Cardinality(Failed)
              + (IF x = "failed" THEN 1 ELSE 0) - (IF at[w] = "failed" THEN 1 ELSE 0)
  <2>1. /\ Cardinality(Failed) \in Nat
        /\ Cardinality(Failed \cup {w}) = IF w \in Failed THEN Cardinality(Failed) ELSE Cardinality(Failed) + 1
        /\ Cardinality(Failed \ {w}) = IF w \in Failed THEN Cardinality(Failed) - 1 ELSE Cardinality(Failed)
    BY <1>1, <1>2
  <2>2. CASE x = "failed"
    BY <1>3, <1>4, <2>1, <2>2
  <2>3. CASE x # "failed"
    BY <1>3, <1>4, <2>1, <2>3
  <2> QED BY <2>2, <2>3
<1> QED
  BY <1>1, <1>2, <1>5, <1>6

\* A step that leaves the slots, the indices and their holders alone keeps
\* the structure of the queue.
LEMMA Quiet ==
  ASSUME IInv, TypeOK', UNCHANGED <<read_idx, write_idx, slots>>, Taken' = Taken,
         Holding' = Holding, rd' = "advance" <=> rd = "advance", Reading',
         \A w \in Holding : idx'[w] = idx[w] /\ (at'[w] = "taken" <=> at[w] = "taken")
  PROVE  Occupancy' /\ SlotExclusive' /\ Held'
<1>1. \A k \in Slot \cup {Taken} : Place(k)' = Place(k)
  BY DEF Place
<1>2. Held'
  BY <1>1 DEF IInv, Held
<1>3. \A k \in Slot : (\E w \in Writer : at'[w] = "taken" /\ idx'[w] = Place(k)')
                  <=> (\E w \in Writer : at[w] = "taken" /\ idx[w] = Place(k))
  <2>1. \A w \in Writer : at'[w] = "taken" => w \in Holding'
    BY DEF Holding
  <2>2. \A w \in Writer : at[w] = "taken" => w \in Holding
    BY DEF Holding
  <2> QED BY <1>1, <2>1, <2>2
<1>4. Occupancy'
  BY <1>1, <1>3 DEF IInv, Occupancy
<1>5. Place(0)' = slot(read_idx)' /\ Place(0)' = Place(0) /\ Place(0) = slot(read_idx)
  BY Places, <1>1 DEF IInv, TypeOK, Index, Place
<1>6. SlotExclusive'
  <2>1. \A v, w \in Holding' : v # w => idx'[v] # idx'[w]
    BY DEF IInv, SlotExclusive
  <2>2. ASSUME rd' \in {"copy", "free"}, NEW w \in Holding' PROVE idx'[w] # slot(read_idx)'
    BY <1>2, <1>5, <2>2 DEF Held, Reading
  <2>3. ASSUME rd' = "advance", NEW w \in Holding' PROVE idx'[w] # slot(read_idx)'
    BY <2>3, <1>5 DEF IInv, SlotExclusive
  <2> QED BY <2>1, <2>2, <2>3 DEF SlotExclusive
<1> QED
  BY <1>2, <1>4, <1>6

\* The numbers the invariant is about.
LEMMA Numbers ==
  ASSUME IInv
  PROVE  /\ slot_count \in Nat \ {0} /\ free_count \in Int /\ Taken \in 0..slot_count
         /\ Cardinality(Reserved) \in Nat /\ Cardinality(Failed) \in Nat /\ Returning \in {0, 1}
<1>1. Reserved \in SUBSET Writer /\ Failed \in SUBSET Writer
  BY DEF Reserved, Failed
<1>2. Cardinality(Reserved) \in Nat /\ Cardinality(Failed) \in Nat
  BY <1>1, ConstantsAssumption, FS_Subset, FS_CardinalityType
<1> QED
  BY <1>2, ConstantsAssumption DEF IInv, TypeOK, Occupancy, Returning, valid_slot_count

\* A writer's step that only concerns its own progress and the counters.
LEMMA CounterStep ==
  ASSUME IInv, NEW w \in Writer,
         save_timestamp(w) \/ start_write(w) \/ give_back(w) \/ count_failure(w) \/ fill(w)
  PROVE  IInv' /\ Taken' = Taken
<1> DEFINE x == at'[w]
<1>1. at' = [at EXCEPT ![w] = x] /\ UNCHANGED <<read_idx, write_idx, slots, reader>>
  BY DEF IInv, TypeOK, save_timestamp, start_write, give_back, count_failure, fill, return_from_event, buffer
<1>2. TypeOK'
  <2>1. CASE save_timestamp(w)
    BY <2>1, ConstantsAssumption DEF IInv, TypeOK, save_timestamp, buffer, reader
  <2>2. CASE start_write(w)
    BY <2>2 DEF IInv, TypeOK, start_write, buffer, reader
  <2>3. CASE give_back(w)
    BY <2>3 DEF IInv, TypeOK, give_back, buffer, reader
  <2>4. CASE count_failure(w)
    <3>1. inc(failed_writes) \in Index
      BY SlotOfInc DEF IInv, TypeOK
    <3>2. 0 \in 0..(MaxEvents - 1) /\ 0 \in Slot
      BY ConstantsAssumption DEF valid_slot_count, Slot
    <3> QED
      BY <2>4, <3>1, <3>2 DEF IInv, TypeOK, count_failure, return_from_event, buffer, reader
  <2>5. CASE fill(w)
    <3>1. [writer |-> w, seq_no |-> seq_no[w]] \in Record
      BY DEF IInv, TypeOK, Record
    <3> QED
      BY <2>5, <3>1 DEF IInv, TypeOK, fill, buffer, reader
  <2> QED BY <2>1, <2>2, <2>3, <2>4, <2>5
<1>3. Taken' = Taken /\ Promised'
  <2>1. /\ Cardinality(Reserved') = Cardinality(Reserved)
              + (IF x = "reserved" THEN 1 ELSE 0) - (IF at[w] = "reserved" THEN 1 ELSE 0)
        /\ Cardinality(Failed') = Cardinality(Failed)
              + (IF x = "failed" THEN 1 ELSE 0) - (IF at[w] = "failed" THEN 1 ELSE 0)
    BY <1>1, Move DEF IInv
  <2>2. Returning' = Returning
    BY <1>1 DEF Returning, reader
  <2>3. \/ at[w] \in {"idle", "dropped", "busy"} /\ x \in {"start_write", "idle", "filled"} /\ free_count' = free_count
        \/ at[w] = "start_write" /\ x = "reserved" /\ free_count > 0 /\ free_count' = free_count - 1
        \/ at[w] = "start_write" /\ x = "failed" /\ free_count <= 0 /\ free_count' = free_count - 1
        \/ at[w] = "failed" /\ x = "dropped" /\ free_count' = free_count + 1
    BY Numbers DEF IInv, TypeOK, save_timestamp, start_write, give_back, count_failure, fill,
                   return_from_event, buffer, available
  <2> HIDE DEF x
  <2>4. /\ free_count' + Cardinality(Failed') >= 0
        /\ free_count' + Cardinality(Reserved') + Cardinality(Failed')
             = free_count + Cardinality(Reserved) + Cardinality(Failed)
    BY <2>1, <2>3, Numbers DEF IInv, Promised
  <2>5. free_count' \in Int /\ Cardinality(Reserved') \in Int /\ Cardinality(Failed') \in Int
    BY <2>1, <2>3, Numbers
  <2> QED
    BY <2>2, <2>4, <2>5, Numbers DEF Taken, IInv, Promised
<1>4. /\ Holding' = Holding
      /\ \A v \in Holding : idx'[v] = idx[v] /\ (at'[v] = "taken" <=> at[v] = "taken")
  BY DEF IInv, TypeOK, save_timestamp, start_write, give_back, count_failure, fill,
         return_from_event, Holding
<1>5. Reading' /\ Counting'
  <2>1. Place(0)' = Place(0)
    BY <1>1 DEF Place
  <2> QED BY <1>1, <1>3, <2>1 DEF IInv, Reading, Counting, reader
<1> QED
  BY <1>1, <1>2, <1>3, <1>4, <1>5, Quiet DEF IInv, reader

\* The slot that take_slot() returns is the first one behind the queue.
LEMMA TakeSlotStep ==
  ASSUME IInv, NEW w \in Writer, take_slot(w)
  PROVE  IInv' /\ Taken < slot_count /\ Taken' = Taken + 1
<1>1. /\ at[w] = "reserved" /\ at' = [at EXCEPT ![w] = "taken"]
      /\ idx' = [idx EXCEPT ![w] = slot(write_idx)]
      /\ write_idx' = inc(write_idx)
      /\ UNCHANGED <<free_count, read_idx, slots, buffer_mem, failed_writes, ts_seq_no, seq_no, reader>>
  BY DEF take_slot
<1>2. slot(write_idx) \in Slot /\ inc(write_idx) \in Index /\ slot(inc(write_idx)) = Ring(slot(write_idx), 1)
  BY Places, SlotOfInc DEF IInv, TypeOK
<1>3. TypeOK'
  BY <1>1, <1>2 DEF IInv, TypeOK, reader
<1>4. Taken < slot_count /\ Taken' = Taken + 1 /\ Promised'
  <2>1. w \in Reserved
    BY <1>1 DEF Reserved
  <2>2. Cardinality(Reserved') = Cardinality(Reserved) - 1 /\ Cardinality(Failed') = Cardinality(Failed)
    <3>1. /\ Cardinality(Reserved') = Cardinality(Reserved)
                + (IF "taken" = "reserved" THEN 1 ELSE 0) - (IF at[w] = "reserved" THEN 1 ELSE 0)
          /\ Cardinality(Failed') = Cardinality(Failed)
                + (IF "taken" = "failed" THEN 1 ELSE 0) - (IF at[w] = "failed" THEN 1 ELSE 0)
      BY <1>1, Move DEF IInv
    <3> QED BY <1>1, <3>1, Numbers
  <2>3. Cardinality(Reserved) >= 1
    <3>1. IsFiniteSet(Reserved) /\ Reserved # {}
      BY <2>1, ConstantsAssumption, FS_Subset DEF Reserved
    <3> QED BY <3>1, Numbers, FS_EmptySet
  <2>4. Returning' = Returning
    BY <1>1 DEF Returning, reader
  <2> QED
    BY <1>1, <2>2, <2>3, <2>4, Numbers DEF Taken, IInv, Promised
<1>5. \A k \in 0..slot_count : Place(k)' = Place(k)
  BY <1>1 DEF Place
<1>6. slot(write_idx) = Place(Taken) /\ Taken \in Slot
  BY <1>4, Numbers DEF IInv, Occupancy, Slot
<1>7. \A v \in Holding : idx[v] # Place(Taken)
  BY <1>6, Places DEF IInv, Held, Slot
<1>8. Holding' = Holding \cup {w} /\ w \notin Holding
  BY <1>1 DEF Holding, IInv, TypeOK
<1>9. \A v \in Holding : idx'[v] = idx[v] /\ at'[v] = at[v]
  BY <1>1, <1>8 DEF IInv, TypeOK, Holding
<1>10. at'[w] = "taken" /\ idx'[w] = Place(Taken)
  BY <1>1, <1>6 DEF IInv, TypeOK
<1>11. slots[Place(Taken)] = "FREE"
  BY <1>6, Numbers DEF IInv, Occupancy
<1>12. Held'
  <2>1. ASSUME NEW v \in Holding
        PROVE  /\ \E k \in Slot : k < Taken' /\ idx'[v] = Place(k)'
               /\ slots'[idx'[v]] = IF at'[v] = "taken" THEN "FREE" ELSE "BUSY"
    <3>1. PICK k \in Slot : k < Taken /\ idx[v] = Place(k)
      BY DEF IInv, Held
    <3>2. k < Taken' /\ Place(k)' = Place(k)
      BY <1>4, <1>5, <3>1, Numbers DEF Slot
    <3> QED BY <1>1, <1>9, <3>1, <3>2 DEF IInv, Held
  <2>2. /\ \E k \in Slot : k < Taken' /\ idx'[w] = Place(k)'
        /\ slots'[idx'[w]] = IF at'[w] = "taken" THEN "FREE" ELSE "BUSY"
    <3>1. Taken < Taken'
      BY <1>4, Numbers
    <3>2. slot(read_idx' + Taken) = Place(Taken)
      BY <1>1 DEF Place
    <3> QED BY <1>1, <1>6, <1>10, <1>11, <3>1, <3>2 DEF Place
  <2> QED BY <1>8, <2>1, <2>2 DEF Held
<1>13. Occupancy'
  <2>1. Taken' \in 0..slot_count
    BY <1>4, Numbers
  <2>2. slot(write_idx') = slot(read_idx' + Taken')
    <3>1. /\ \A k \in 0..slot_count : Place(k) = Ring(slot(read_idx), k)
          /\ slot(read_idx) \in Slot
      BY Places DEF IInv
    <3>2. Place(Taken + 1) = Ring(slot(read_idx), Taken + 1) /\ Place(Taken) = Ring(slot(read_idx), Taken)
      BY <1>4, <3>1, Numbers
    <3>3. Ring(Ring(slot(read_idx), Taken), 1) = Ring(slot(read_idx), Taken + 1)
      BY <1>4, <3>1, Numbers DEF Ring, Slot
    <3> QED BY <1>1, <1>2, <1>4, <1>6, <3>2, <3>3 DEF Place
  <2>3. ASSUME NEW k \in Slot
        PROVE  slots'[slot(read_idx' + k)] = "FREE" <=>
                 \/ k >= Taken'
                 \/ \E v \in Writer : at'[v] = "taken" /\ idx'[v] = slot(read_idx' + k)
                 \/ k = 0 /\ rd' = "advance"
    <3>1. slot(read_idx' + k) = Place(k) /\ slots' = slots /\ rd' = rd
      BY <1>1 DEF Place, reader
    <3>2. CASE k = Taken
      BY <1>10, <1>11, <3>1, <3>2
    <3>3. CASE k # Taken
      <4>1. Place(k) # Place(Taken)
        BY <1>6, <3>3, Places DEF IInv
      <4>2. (\E v \in Writer : at'[v] = "taken" /\ idx'[v] = Place(k))
              <=> (\E v \in Writer : at[v] = "taken" /\ idx[v] = Place(k))
        <5>1. \A v \in Writer : v # w => at'[v] = at[v] /\ idx'[v] = idx[v]
          BY <1>1 DEF IInv, TypeOK
        <5> QED BY <1>1, <1>10, <4>1, <5>1
      <4>3. k >= Taken' <=> k >= Taken
        BY <1>4, <3>3, Numbers DEF Slot
      <4> QED BY <3>1, <4>2, <4>3 DEF IInv, Occupancy
    <3> QED BY <3>2, <3>3
  <2> QED BY <2>1, <2>2, <2>3 DEF Occupancy, Place
<1>14. SlotExclusive'
  <2>1. ASSUME NEW u \in Holding', NEW v \in Holding', u # v PROVE idx'[u] # idx'[v]
    BY <1>7, <1>8, <1>9, <1>10, <2>1 DEF IInv, SlotExclusive
  <2>2. ASSUME rd \in {"copy", "free", "advance"} PROVE Place(Taken) # slot(read_idx)
    <3>1. Taken # 0
      BY <2>2 DEF IInv, Reading
    <3> QED BY <1>6, <3>1, Places, ConstantsAssumption DEF IInv, Slot, valid_slot_count
  <2>3. ASSUME rd' \in {"copy", "free", "advance"}, NEW v \in Holding' PROVE idx'[v] # slot(read_idx')
    <3>1. rd' = rd /\ read_idx' = read_idx
      BY <1>1 DEF reader
    <3> QED BY <1>8, <1>9, <1>10, <2>2, <2>3, <3>1 DEF IInv, SlotExclusive
  <2> QED BY <2>1, <2>3 DEF SlotExclusive
<1>15. Reading'
  <2>1. Place(0)' = Place(0) /\ rd' = rd /\ slots' = slots
    BY <1>1 DEF Place, reader
  <2>2. Taken >= 1 => Taken' >= 1
    BY <1>4, Numbers
  <2> QED BY <2>1, <2>2 DEF IInv, Reading
<1>16. Counting'
  BY <1>1 DEF IInv, Counting, reader
<1> QED
  BY <1>3, <1>4, <1>12, <1>13, <1>14, <1>15, <1>16 DEF IInv

\* mark_busy() and finish_write() change the marker of a slot that nobody
\* else is looking at.
LEMMA MarkStep ==
  ASSUME IInv, NEW w \in Writer, mark_busy(w) \/ finish_write(w)
  PROVE  IInv' /\ Taken' = Taken
<1> DEFINE x == at'[w]
           m == slots'[idx[w]]
<1>1. /\ at' = [at EXCEPT ![w] = x]
      /\ \/ at[w] = "taken" /\ x = "busy" /\ m = "BUSY" /\ idx' = idx /\ seq_no' = seq_no
         \/ at[w] = "filled" /\ x = "idle" /\ m = "READY" /\ idx' = [idx EXCEPT ![w] = 0]
              /\ seq_no' = [seq_no EXCEPT ![w] = 0]
      /\ slots' = [slots EXCEPT ![idx[w]] = m]
      /\ UNCHANGED <<free_count, write_idx, read_idx, buffer_mem, failed_writes, ts_seq_no, reader>>
  BY DEF IInv, TypeOK, mark_busy, finish_write, return_from_event
<1> HIDE DEF x, m
<1>2. TypeOK'
  <2>1. 0 \in 0..(MaxEvents - 1) /\ 0 \in Slot
    BY ConstantsAssumption DEF valid_slot_count, Slot
  <2> QED
    BY <1>1, <2>1 DEF IInv, TypeOK, reader
<1>3. Taken' = Taken /\ Promised'
  <2>1. /\ Cardinality(Reserved') = Cardinality(Reserved)
              + (IF x = "reserved" THEN 1 ELSE 0) - (IF at[w] = "reserved" THEN 1 ELSE 0)
        /\ Cardinality(Failed') = Cardinality(Failed)
              + (IF x = "failed" THEN 1 ELSE 0) - (IF at[w] = "failed" THEN 1 ELSE 0)
    BY <1>1, Move DEF IInv
  <2>2. Cardinality(Reserved') = Cardinality(Reserved) /\ Cardinality(Failed') = Cardinality(Failed)
    BY <1>1, <2>1, Numbers
  <2>3. Returning' = Returning
    BY <1>1 DEF Returning, reader
  <2> QED
    BY <1>1, <2>2, <2>3 DEF Taken, IInv, Promised
<1>4. \A k \in 0..slot_count : slot(read_idx' + k) = Place(k)
  BY <1>1 DEF Place
<1>5. w \in Holding /\ idx[w] \in Slot
  BY <1>1 DEF Holding, IInv, TypeOK
<1>6. /\ Holding' \subseteq Holding
      /\ \A v \in Holding' : idx'[v] = idx[v]
      /\ \A v \in Holding : v # w => at'[v] = at[v] /\ slots'[idx[v]] = slots[idx[v]]
      /\ w \in Holding' => at'[w] = "busy" /\ slots'[idx[w]] = "BUSY"
  <2>1. \A v \in Writer : v # w => at'[v] = at[v] /\ idx'[v] = idx[v]
    BY <1>1 DEF IInv, TypeOK
  <2>2. at'[w] = x /\ (x = "idle" \/ (x = "busy" /\ idx' = idx /\ m = "BUSY"))
    <3>1. at'[w] = x
      BY DEF x
    <3> QED BY <1>1, <3>1
  <2>3. \A v \in Holding : v # w => idx[v] # idx[w]
    BY <1>5 DEF IInv, SlotExclusive
  <2>4. slots'[idx[w]] = m /\ \A s \in Slot : s # idx[w] => slots'[s] = slots[s]
    BY <1>1, <1>5 DEF IInv, TypeOK
  <2>5. \A v \in Holding : idx[v] \in Slot
    BY DEF IInv, TypeOK, Holding
  <2>6. \A v \in Holding' : v # w => v \in Holding /\ idx'[v] = idx[v]
    BY <2>1 DEF Holding
  <2>7. w \in Holding' => x = "busy"
    BY <2>2 DEF Holding
  <2>8. Holding' \subseteq Holding /\ \A v \in Holding' : idx'[v] = idx[v]
    BY <1>5, <2>2, <2>6, <2>7
  <2>9. \A v \in Holding : v # w => at'[v] = at[v] /\ slots'[idx[v]] = slots[idx[v]]
    BY <2>1, <2>3, <2>4, <2>5 DEF Holding
  <2> QED BY <2>2, <2>4, <2>7, <2>8, <2>9
<1>7. Held'
  <2>1. ASSUME NEW v \in Holding'
        PROVE  /\ \E k \in Slot : k < Taken' /\ idx'[v] = slot(read_idx' + k)
               /\ slots'[idx'[v]] = IF at'[v] = "taken" THEN "FREE" ELSE "BUSY"
    <3>1. PICK k \in Slot : k < Taken /\ idx[v] = Place(k)
      BY <1>6 DEF IInv, Held
    <3>2. k \in 0..slot_count
      BY ConstantsAssumption DEF Slot
    <3>3. slots'[idx[v]] = IF at'[v] = "taken" THEN "FREE" ELSE "BUSY"
      BY <1>6 DEF IInv, Held
    <3> QED BY <1>3, <1>4, <1>6, <3>1, <3>2, <3>3
  <2> QED BY <2>1 DEF Held, Place
<1>8. Occupancy'
  <2>1. Taken' \in 0..slot_count /\ slot(write_idx') = slot(read_idx' + Taken')
    BY <1>1, <1>3 DEF IInv, Occupancy, Place
  <2>2. ASSUME NEW k \in Slot
        PROVE  slots'[Place(k)] = "FREE" <=>
                 \/ k >= Taken'
                 \/ \E v \in Writer : at'[v] = "taken" /\ idx'[v] = Place(k)
                 \/ k = 0 /\ rd' = "advance"
    <3>1. Place(k) \in Slot /\ rd' = rd
      BY <1>1, Places, ConstantsAssumption DEF IInv, Slot, reader
    <3>2. CASE Place(k) = idx[w]
      <4>1. slots'[Place(k)] # "FREE"
        BY <1>1, <3>2, <1>5 DEF IInv, TypeOK
      <4>2. PICK j \in Slot : j < Taken /\ idx[w] = Place(j)
        BY <1>5 DEF IInv, Held
      <4>3. k < Taken
        BY <3>2, <4>2, Places DEF IInv
      <4>4. ASSUME NEW v \in Writer, at'[v] = "taken" PROVE idx'[v] # Place(k)
        <5>1. v \in Holding'
          BY <4>4 DEF Holding
        <5>2. v # w
          BY <1>6, <4>4, <5>1
        <5> QED BY <1>5, <1>6, <3>2, <5>1, <5>2 DEF IInv, SlotExclusive
      <4>5. ~(k = 0 /\ rd' = "advance")
        BY <1>5, <3>1, <3>2, Places DEF IInv, SlotExclusive
      <4> QED BY <1>3, <4>1, <4>3, <4>4, <4>5, Numbers DEF Slot
    <3>3. CASE Place(k) # idx[w]
      <4>1. slots'[Place(k)] = slots[Place(k)]
        BY <1>1, <3>1, <3>3 DEF IInv, TypeOK
      <4>2. \A v \in Writer : v # w => at'[v] = at[v] /\ idx'[v] = idx[v]
        BY <1>1 DEF IInv, TypeOK
      <4>3. at'[w] # "taken"
        BY <1>1 DEF IInv, TypeOK
      <4>4. (\E v \in Writer : at'[v] = "taken" /\ idx'[v] = Place(k))
              <=> (\E v \in Writer : at[v] = "taken" /\ idx[v] = Place(k))
        BY <3>3, <4>2, <4>3
      <4> QED BY <1>3, <3>1, <4>1, <4>4 DEF IInv, Occupancy
    <3> QED BY <3>2, <3>3
  <2>3. \A k \in Slot : slot(read_idx' + k) = Place(k)
    BY <1>4, ConstantsAssumption DEF Slot
  <2> QED BY <2>1, <2>2, <2>3 DEF Occupancy, Place
<1>9. SlotExclusive'
  BY <1>1, <1>6 DEF IInv, SlotExclusive, reader
<1>10. Reading' /\ Counting'
  <2>1. slot(read_idx' + 0) = Place(0) /\ Place(0) \in Slot /\ Place(0) = slot(read_idx) /\ rd' = rd
    BY <1>1, Places, ConstantsAssumption DEF IInv, Place, reader, valid_slot_count
  <2>2. rd \in {"copy", "free", "advance"} => slots'[Place(0)] = slots[Place(0)]
    BY <1>1, <1>5, <2>1 DEF IInv, TypeOK, SlotExclusive
  <2> QED BY <1>1, <1>3, <2>1, <2>2 DEF IInv, Reading, Counting, Place, reader
<1> QED
  BY <1>2, <1>3, <1>7, <1>8, <1>9, <1>10 DEF IInv

\* The steps of the reader that leave the slots and the indices alone.
LEMMA ReaderStep ==
  ASSUME IInv,
         \/ \E n \in 1..MaxRead, e \in BOOLEAN : ftdev_read(n, e)
         \/ check_empty \/ check_marker \/ copy_to_user
         \/ \E n \in FaultBytes : page_fault(n)
         \/ return_slot \/ timeout \/ signal
  PROVE  IInv' /\ Taken' = Taken
<1>1. /\ UNCHANGED <<write_idx, read_idx, slots, buffer_mem, failed_writes, writers>>
      /\ rd # "advance" /\ rd' # "advance" /\ rd' # "return"
      /\ IF rd = "return" THEN free_count' = free_count + 1 ELSE free_count' = free_count
      /\ rd' \in {"idle", "check", "marker", "copy", "free", "wait"}
  BY DEF ftdev_read, check_empty, check_marker, copy_to_user, page_fault, return_slot, timeout,
         signal, after_copy, return_to_user, buffer
<1>2. Counting' /\ left' \in 0..MaxRead /\ err' \in 0..MaxRead
  <2>1. MaxRead \in Nat /\ left \in 0..MaxRead /\ err \in 0..MaxRead
    BY ConstantsAssumption DEF IInv, TypeOK
  <2>2. ASSUME return_to_user PROVE Counting' /\ left' = 0 /\ err' = 0
    BY <2>2 DEF return_to_user, Counting
  <2>3. ASSUME rd # "idle", rd' # "idle",
               UNCHANGED <<left, err>> \/ (left > 1 /\ left' = left - 1 /\ err' = err + 1)
        PROVE  Counting' /\ left' \in 0..MaxRead /\ err' \in 0..MaxRead
    <3>1. left >= 1 /\ left + err <= MaxRead
      BY <2>3 DEF IInv, Counting
    <3>2. left' \in 0..MaxRead /\ err' \in 0..MaxRead /\ left' >= 1 /\ left' + err' <= MaxRead
      BY <2>1, <2>3, <3>1
    <3> QED BY <2>3, <3>2 DEF Counting
  <2>4. CASE \E n \in 1..MaxRead, e \in BOOLEAN : ftdev_read(n, e)
    <3>1. PICK n \in 1..MaxRead : rd' = "check" /\ left' = n /\ err' = 0
      BY <2>4 DEF ftdev_read
    <3>2. n \in 0..MaxRead /\ 0 \in 0..MaxRead /\ n >= 1 /\ n + 0 <= MaxRead
      BY <2>1
    <3> QED BY <3>1, <3>2 DEF Counting
  <2>5. CASE ~\E n \in 1..MaxRead, e \in BOOLEAN : ftdev_read(n, e)
    <3>1. \/ return_to_user
          \/ /\ rd # "idle" /\ rd' # "idle"
             /\ UNCHANGED <<left, err>> \/ (left > 1 /\ left' = left - 1 /\ err' = err + 1)
      BY <2>5 DEF check_empty, check_marker, copy_to_user, page_fault, return_slot, timeout,
                  signal, after_copy
    <3> QED BY <2>1, <2>2, <2>3, <3>1
  <2> QED BY <2>4, <2>5
<1>8. events' \in BOOLEAN
  <2>1. \/ events' = events \/ events' = FALSE
        \/ \E n \in 1..MaxRead, e \in BOOLEAN : events' = e
    BY DEF ftdev_read, check_empty, check_marker, copy_to_user, page_fault, return_slot, timeout,
           signal, after_copy, return_to_user
  <2> QED BY <2>1 DEF IInv, TypeOK
<1>3. to' \in Seq(Record \cup {Nothing, Damaged})
  <2>1. to \in Seq(Record \cup {Nothing, Damaged}) /\ buffer_mem[slot(read_idx)] \in Record \cup {Nothing, Damaged}
    BY Places DEF IInv, TypeOK
  <2>2. \/ to' = to \/ to' = Append(to, buffer_mem[slot(read_idx)]) \/ to' = Append(to, Damaged)
    BY DEF ftdev_read, check_empty, check_marker, copy_to_user, page_fault, return_slot, timeout, signal
  <2> HIDE DEF Record
  <2> QED BY <2>1, <2>2
<1>4. TypeOK'
  BY <1>1, <1>2, <1>3, <1>8 DEF IInv, TypeOK, writers
<1>5. Taken' = Taken /\ Promised'
  <2>1. Reserved' = Reserved /\ Failed' = Failed
    BY <1>1 DEF Reserved, Failed, writers
  <2>2. Cardinality(Reserved') = Cardinality(Reserved) /\ Cardinality(Failed') = Cardinality(Failed)
    BY <2>1
  <2>3. Returning' = 0 /\ free_count' = free_count + Returning
    BY <1>1, Numbers DEF Returning
  <2> QED BY <2>2, <2>3, Numbers DEF Taken, IInv, Promised
<1>6. Holding' = Holding /\ idx' = idx /\ at' = at
  BY <1>1 DEF Holding, writers
<1>7. Reading'
  <2>1. slot(read_idx' + 0) = Place(0) /\ slots' = slots /\ Place(0) = slot(read_idx)
    BY <1>1, Places DEF IInv, Place
  <2>2. ASSUME rd' \in {"copy", "free"} PROVE slots[Place(0)] = "READY"
    <3>1. rd' = "copy" => check_marker
      BY DEF ftdev_read, check_empty, check_marker, copy_to_user, page_fault, return_slot, timeout,
             signal, after_copy, return_to_user
    <3>2. rd' = "free" => copy_to_user
      BY DEF ftdev_read, check_empty, check_marker, copy_to_user, page_fault, return_slot, timeout,
             signal, after_copy, return_to_user
    <3>3. CASE check_marker /\ rd' = "copy"
      BY <2>1, <3>3 DEF check_marker, after_copy, return_to_user
    <3>4. CASE copy_to_user
      BY <3>4 DEF copy_to_user, IInv, Reading
    <3> QED BY <2>2, <3>1, <3>2, <3>3, <3>4
  <2>3. slots[Place(0)] = "READY" => Taken >= 1
    BY Numbers DEF IInv, Occupancy, Slot
  <2> QED BY <1>1, <1>5, <2>1, <2>2, <2>3 DEF Reading, Place
<1> QED
  BY <1>1, <1>2, <1>4, <1>5, <1>6, <1>7, Quiet DEF IInv

\* Marking a slot free after it was read.
LEMMA FreeSlotStep ==
  ASSUME IInv, free_slot
  PROVE  IInv' /\ Taken' = Taken
<1>1. /\ rd = "free" /\ rd' = "advance" /\ slots' = [slots EXCEPT ![slot(read_idx)] = "FREE"]
      /\ UNCHANGED <<free_count, write_idx, read_idx, buffer_mem, failed_writes, writers, left, err, events, to>>
  BY DEF free_slot
<1>2. slot(read_idx) \in Slot /\ Place(0) = slot(read_idx) /\ 0 \in Slot
  BY Places, ConstantsAssumption DEF IInv, Slot, valid_slot_count
<1>3. TypeOK'
  BY <1>1, <1>2 DEF IInv, TypeOK, writers
<1>4. Taken' = Taken /\ Promised' /\ Holding' = Holding /\ at' = at /\ idx' = idx
  <2>1. Reserved' = Reserved /\ Failed' = Failed /\ Returning' = Returning
    BY <1>1 DEF Reserved, Failed, Returning, writers
  <2>2. Cardinality(Reserved') = Cardinality(Reserved) /\ Cardinality(Failed') = Cardinality(Failed)
    BY <2>1
  <2> QED BY <1>1, <2>1, <2>2 DEF Taken, IInv, Promised, Holding, writers
<1>5. \A v \in Holding : idx[v] # slot(read_idx) /\ idx[v] \in Slot
  BY <1>1 DEF IInv, SlotExclusive, Holding, TypeOK
<1>6. slots'[slot(read_idx)] = "FREE" /\ \A s \in Slot : s # slot(read_idx) => slots'[s] = slots[s]
  BY <1>1, <1>2 DEF IInv, TypeOK
<1>7. \A k \in 0..slot_count : slot(read_idx' + k) = Place(k)
  BY <1>1 DEF Place
<1>8. Held'
  <2>1. ASSUME NEW v \in Holding
        PROVE  /\ \E k \in Slot : k < Taken' /\ idx'[v] = slot(read_idx' + k)
               /\ slots'[idx'[v]] = IF at'[v] = "taken" THEN "FREE" ELSE "BUSY"
    <3>1. PICK k \in Slot : k < Taken /\ idx[v] = Place(k)
      BY DEF IInv, Held
    <3>2. k \in 0..slot_count
      BY ConstantsAssumption DEF Slot
    <3>3. slots'[idx[v]] = IF at[v] = "taken" THEN "FREE" ELSE "BUSY"
      BY <1>5, <1>6 DEF IInv, Held
    <3> QED BY <1>4, <1>7, <3>1, <3>2, <3>3
  <2> QED BY <1>4, <2>1 DEF Held, Place
<1>9. Occupancy'
  <2>1. Taken' \in 0..slot_count /\ slot(write_idx') = slot(read_idx' + Taken')
    BY <1>1, <1>4 DEF IInv, Occupancy, Place
  <2>2. ASSUME NEW k \in Slot
        PROVE  slots'[Place(k)] = "FREE" <=>
                 \/ k >= Taken'
                 \/ \E v \in Writer : at'[v] = "taken" /\ idx'[v] = Place(k)
                 \/ k = 0 /\ rd' = "advance"
    <3>1. CASE k = 0
      BY <1>1, <1>2, <1>6, <3>1
    <3>2. CASE k # 0
      <4>1. Place(k) # slot(read_idx) /\ Place(k) \in Slot
        BY <1>2, <3>2, Places, ConstantsAssumption DEF IInv, Slot
      <4> QED BY <1>4, <1>6, <3>2, <4>1 DEF IInv, Occupancy
    <3> QED BY <3>1, <3>2
  <2>3. \A k \in Slot : slot(read_idx' + k) = Place(k)
    BY <1>7, ConstantsAssumption DEF Slot
  <2> QED BY <2>1, <2>2, <2>3 DEF Occupancy, Place
<1>10. SlotExclusive'
  BY <1>1, <1>4, <1>5 DEF IInv, SlotExclusive
<1>11. Reading' /\ Counting'
  <2>1. slot(read_idx' + 0) = slot(read_idx)
    BY <1>1, <1>2 DEF Place
  <2> QED BY <1>1, <1>4, <1>6, <2>1 DEF IInv, Reading, Counting, Place
<1> QED
  BY <1>3, <1>4, <1>8, <1>9, <1>10, <1>11 DEF IInv

\* Dequeueing: every place moves up by one, and the freed slot becomes the
\* last place.
LEMMA AdvanceStep ==
  ASSUME IInv, advance
  PROVE  /\ IInv' /\ Taken' = Taken - 1
         /\ \A k \in Slot : k + 1 \in 0..slot_count /\ slot(read_idx' + k) = Place(k + 1)
<1>1. /\ rd = "advance" /\ rd' = "return" /\ read_idx' = inc(read_idx)
      /\ UNCHANGED <<free_count, write_idx, slots, buffer_mem, failed_writes, writers, left, err, events, to>>
  BY DEF advance
<1>2. /\ slot(read_idx) \in Slot /\ Place(0) = slot(read_idx) /\ 0 \in Slot
      /\ Taken \in 1..slot_count /\ slots[Place(0)] = "FREE"
  BY <1>1, Places, Numbers DEF IInv, Slot, Reading
<1>3. inc(read_idx) \in Index /\ slot(inc(read_idx)) = Ring(slot(read_idx), 1)
  BY SlotOfInc DEF IInv, TypeOK
<1>4. TypeOK'
  BY <1>1, <1>3 DEF IInv, TypeOK, writers
<1>5. Taken' = Taken - 1 /\ Promised' /\ Holding' = Holding /\ at' = at /\ idx' = idx
  <2>1. Reserved' = Reserved /\ Failed' = Failed /\ Returning' = 1 /\ Returning = 0
    BY <1>1 DEF Reserved, Failed, Returning, writers
  <2>2. Cardinality(Reserved') = Cardinality(Reserved) /\ Cardinality(Failed') = Cardinality(Failed)
    BY <2>1
  <2>3. Taken' = Taken - 1
    BY <1>1, <2>1, <2>2, Numbers DEF Taken
  <2> QED BY <1>1, <1>2, <2>1, <2>2, <2>3 DEF IInv, Promised, Holding, writers
<1>6. \A k \in Slot : k + 1 \in 0..slot_count /\ slot(read_idx' + k) = Place(k + 1)
  <2>1. ASSUME NEW k \in Slot PROVE slot(read_idx' + k) = Place(k + 1) /\ k + 1 \in 0..slot_count
    <3>1. read_idx' \in Nat /\ k \in 0..slot_count /\ k + 1 \in 0..slot_count
      BY <1>1, <1>3, ConstantsAssumption DEF Slot, Index
    <3>2. slot(read_idx' + k) = Ring(slot(read_idx'), k)
      BY <3>1, RingOfIndex
    <3>3. Place(k + 1) = Ring(slot(read_idx), k + 1)
      BY <3>1, Places DEF IInv
    <3>4. Ring(Ring(slot(read_idx), 1), k) = Ring(slot(read_idx), k + 1)
      BY <1>2, ConstantsAssumption DEF Ring, Slot
    <3> QED BY <1>1, <1>3, <3>1, <3>2, <3>3, <3>4
  <2> QED BY <2>1
<1>7. Held'
  <2>1. ASSUME NEW v \in Holding
        PROVE  /\ \E k \in Slot : k < Taken' /\ idx'[v] = slot(read_idx' + k)
               /\ slots'[idx'[v]] = IF at'[v] = "taken" THEN "FREE" ELSE "BUSY"
    <3>1. PICK k \in Slot : k < Taken /\ idx[v] = Place(k)
      BY DEF IInv, Held
    <3>2. k # 0
      BY <1>1, <1>2, <3>1 DEF IInv, SlotExclusive
    <3>3. k - 1 \in Slot /\ k - 1 < Taken' /\ (k - 1) + 1 = k
      BY <1>2, <1>5, <3>1, <3>2, Numbers DEF Slot
    <3>4. idx'[v] = slot(read_idx' + (k - 1))
      BY <1>5, <1>6, <3>1, <3>3
    <3> QED BY <1>1, <1>5, <3>3, <3>4 DEF IInv, Held
  <2> QED BY <1>5, <2>1 DEF Held, Place
<1>8. Occupancy'
  <2>1. Taken' \in 0..slot_count /\ Taken' \in Slot
    BY <1>2, <1>5, ConstantsAssumption DEF Slot
  <2>2. slot(write_idx') = slot(read_idx' + Taken')
    <3>1. slot(read_idx' + Taken') = Place(Taken)
      BY <1>2, <1>5, <1>6, <2>1
    <3> QED BY <1>1, <3>1 DEF IInv, Occupancy
  <2>3. ASSUME NEW k \in Slot
        PROVE  slots'[slot(read_idx' + k)] = "FREE" <=>
                 \/ k >= Taken'
                 \/ \E v \in Writer : at'[v] = "taken" /\ idx'[v] = slot(read_idx' + k)
                 \/ k = 0 /\ rd' = "advance"
    <3>1. CASE k = slot_count - 1
      <4>1. slot(read_idx' + k) = Place(0)
        <5>1. k + 1 = slot_count
          BY <3>1, ConstantsAssumption
        <5> QED BY <1>6, <5>1, Places DEF IInv
      <4>2. k >= Taken'
        BY <1>2, <1>5, <3>1, ConstantsAssumption
      <4> QED BY <1>1, <1>2, <4>1, <4>2
    <3>2. CASE k # slot_count - 1
      <4>1. k + 1 \in Slot /\ k + 1 # 0 /\ (k + 1 >= Taken <=> k >= Taken')
        BY <1>2, <1>5, <3>2, ConstantsAssumption DEF Slot
      <4>2. slots[Place(k + 1)] = "FREE" <=>
              \/ k + 1 >= Taken
              \/ \E v \in Writer : at[v] = "taken" /\ idx[v] = Place(k + 1)
        BY <4>1 DEF IInv, Occupancy
      <4> QED BY <1>1, <1>5, <1>6, <4>1, <4>2
    <3> QED BY <3>1, <3>2
  <2> QED BY <2>1, <2>2, <2>3 DEF Occupancy, Place
<1>9. SlotExclusive' /\ Reading' /\ Counting'
  BY <1>1, <1>5 DEF IInv, SlotExclusive, Reading, Counting
<1> QED
  BY <1>4, <1>5, <1>6, <1>7, <1>8, <1>9 DEF IInv

-----------------------------------------------------------------------------
\* The initial state of init_ft_buffer() satisfies the invariant.
LEMMA InitInv == Init => IInv
<1> SUFFICES ASSUME Init PROVE IInv
  OBVIOUS
<1>1. slot_count \in Nat \ {0} /\ 0 \in Slot /\ 0 \in Index /\ 0 \in 0..(MaxEvents - 1) /\ 0 \in 0..MaxEvents
      /\ 0 \in 0..MaxRead
  BY ConstantsAssumption DEF Slot, Index, valid_slot_count
<1>2. TypeOK
  BY <1>1 DEF Init, TypeOK
<1>3. Reserved = {} /\ Failed = {} /\ Holding = {} /\ Returning = 0
  BY DEF Init, Reserved, Failed, Holding, Returning
<1>4. Taken = 0 /\ Promised
  BY <1>1, <1>3, FS_EmptySet DEF Taken, Promised, Init
<1>5. Occupancy
  <2>1. \A k \in Slot : Place(k) \in Slot /\ k >= 0
    BY <1>1, <1>2, Places DEF Slot
  <2> QED BY <1>1, <1>4, <2>1 DEF Init, Occupancy, Place
<1>6. SlotExclusive /\ Held /\ Reading /\ Counting
  BY <1>3 DEF Init, SlotExclusive, Held, Reading, Counting
<1> QED
  BY <1>2, <1>4, <1>5, <1>6 DEF IInv

\* Every step preserves the invariant.
LEMMA NextStep == IInv /\ [Next]_vars => IInv'
<1> SUFFICES ASSUME IInv, [Next]_vars PROVE IInv'
  OBVIOUS
<1>1. CASE UNCHANGED vars
  <2> USE <1>1 DEF vars, buffer, writers, reader
  <2>1. Reserved' = Reserved /\ Failed' = Failed /\ Holding' = Holding /\ Returning' = Returning
    BY DEF Reserved, Failed, Holding, Returning
  <2>2. Cardinality(Reserved') = Cardinality(Reserved) /\ Cardinality(Failed') = Cardinality(Failed)
    BY <2>1
  <2>3. Taken' = Taken
    BY <2>1, <2>2 DEF Taken
  <2>4. TypeOK' /\ Promised' /\ Counting'
    BY <2>2, <2>3 DEF IInv, TypeOK, Promised, Counting
  <2>5. Reading'
    BY <2>3 DEF IInv, Reading, Place
  <2> QED BY <2>1, <2>3, <2>4, <2>5, Quiet DEF IInv
<1>2. CASE Next
  <2>1. ASSUME NEW w \in Writer, save_timestamp(w) \/ WriterStep(w) PROVE IInv'
    BY <2>1, CounterStep, TakeSlotStep, MarkStep DEF WriterStep
  <2>2. CASE CopyStep
    BY <2>2, ReaderStep, FreeSlotStep, AdvanceStep DEF CopyStep
  <2>3. CASE \/ \E n \in 1..MaxRead, e \in BOOLEAN : ftdev_read(n, e)
             \/ \E n \in FaultBytes : page_fault(n)
             \/ timeout \/ signal
    BY <2>3, ReaderStep
  <2> QED BY <1>2, <2>1, <2>2, <2>3 DEF Next
<1> QED
  BY <1>1, <1>2

\* Invariance of the strengthening that the following theorems rest on.
THEOREM Invariance == Spec => []IInv
BY InitInv, NextStep, PTL DEF Spec

\* Types are preserved.
THEOREM TypeCorrectness == Spec => []TypeOK
<1>1. IInv => TypeOK
  BY DEF IInv
<1> QED BY <1>1, Invariance, PTL

\* No slot is ever shared by two writers, or by a writer and the reader,
\* whatever the number of contexts that interrupt each other between
\* ft_buffer_start_write() and ft_buffer_finish_write().
THEOREM Exclusion == Spec => []SlotExclusive
<1>1. IInv => SlotExclusive
  BY DEF IInv
<1> QED BY <1>1, Invariance, PTL

\* free_count, the indices and the markers agree: once the writers in flight
\* are discounted, free_count is the number of free slots, and it is never
\* exceeded, also after the indices have wrapped around.
THEOREM Accounting == Spec => []Occupancy
<1>1. IInv => Occupancy
  BY DEF IInv
<1> QED BY <1>1, Invariance, PTL

-----------------------------------------------------------------------------
(* The buffer implements a bounded queue                                   *)

\* A copy that fails is not taken for a success.
FaultsSeen == 1 \notin FaultBytes

-----------------------------------------------------------------------------
(* Sequences given by a function on 1..n.                                  *)

\* A function on 1..n is a sequence of length n.
LEMMA FunctionIsSeq ==
  ASSUME NEW n \in Nat, NEW S, NEW f \in [1..n -> S]
  PROVE  f \in Seq(S) /\ Len(f) = n /\ DOMAIN f = 1..n
OBVIOUS

\* Sequences are equal if they have the same elements.
LEMMA FunctionsEqual ==
  ASSUME NEW n \in Nat, NEW S, NEW f \in [1..n -> S], NEW s \in Seq(S), Len(s) = n,
         \A i \in 1..n : f[i] = s[i]
  PROVE  f = s
OBVIOUS

\* The abstract queue is a sequence of records and pending places.
QueueOK ==
  /\ Taken \in Nat /\ Taken <= slot_count
  /\ queue \in [1..Taken -> Record \cup {Nothing}]
  /\ queue \in Seq(Record \cup {Nothing}) /\ Len(queue) = Taken
  /\ \A k \in 1..Taken : Place(k - 1) \in Slot

\* It follows from what the markers say.
LEMMA QueueTyped == IInv /\ Contents => QueueOK
<1> SUFFICES ASSUME IInv, Contents PROVE QueueOK
  OBVIOUS
<1>1. Taken \in 0..slot_count /\ slot_count \in Nat
  BY Numbers
<1>2. \A k \in 1..Taken : k - 1 \in 0..slot_count
  BY <1>1
<1>3. \A k \in 1..Taken : Place(k - 1) \in Slot
  BY <1>2, Places DEF IInv
<1>4. \A k \in 1..Taken : k = 1 => k - 1 = 0
  BY <1>1
<1>5. queue \in [1..Taken -> Record \cup {Nothing}]
  BY <1>3, <1>4 DEF queue, Contents, IInv, TypeOK
<1> HIDE DEF queue
<1> QED
  BY <1>1, <1>3, <1>5, FunctionIsSeq DEF QueueOK

\* Before and after a step.
LEMMA QueueType == (IInv /\ Contents => QueueOK) /\ (IInv' /\ Contents' => QueueOK')
BY QueueTyped, PTL

-----------------------------------------------------------------------------
(* What the markers say about the contents of the slots.                   *)

\* Every step keeps them right.
LEMMA ContentsStep ==
  ASSUME IInv, Contents, Next
  PROVE  Contents'
<1> USE DEF Contents
<1>1. Place(0) = slot(read_idx) /\ slot(read_idx) \in Slot
  BY Places DEF IInv
<1>2. ASSUME NEW w \in Writer,
             save_timestamp(w) \/ start_write(w) \/ give_back(w) \/ count_failure(w)
               \/ take_slot(w) \/ mark_busy(w)
      PROVE  Contents'
  <2>1. /\ UNCHANGED <<buffer_mem, read_idx, rd, to>> /\ at'[w] # "filled"
        /\ \A v \in Writer : v # w => at'[v] = at[v] /\ idx'[v] = idx[v] /\ seq_no'[v] = seq_no[v]
        /\ \A s \in Slot : slots'[s] = "READY" => slots[s] = "READY"
    BY <1>2 DEF save_timestamp, start_write, give_back, count_failure, take_slot, mark_busy,
                return_from_event, buffer, reader, IInv, TypeOK
  <2> QED BY <2>1 DEF Place
<1>3. ASSUME NEW w \in Writer, fill(w)
      PROVE  Contents'
  <2>1. /\ at[w] = "busy" /\ w \in Holding /\ idx[w] \in Slot
        /\ buffer_mem' = [buffer_mem EXCEPT ![idx[w]] = [writer |-> w, seq_no |-> seq_no[w]]]
        /\ at' = [at EXCEPT ![w] = "filled"]
        /\ UNCHANGED <<slots, read_idx, seq_no, idx, rd, to>>
    BY <1>3 DEF fill, Holding, IInv, TypeOK, reader
  <2>2. slots[idx[w]] = "BUSY"
    BY <2>1 DEF IInv, Held
  <2>3. \A v \in Writer : v # w /\ at[v] = "filled" => idx[v] # idx[w] /\ idx[v] \in Slot
    BY <2>1 DEF IInv, SlotExclusive, Holding, TypeOK
  <2>4. rd \in {"free", "advance"} => idx[w] # Place(0)
    BY <1>1, <2>1 DEF IInv, SlotExclusive
  <2>5. \A s \in Slot : slots'[s] = "READY" => buffer_mem'[s] \in Record
    BY <2>1, <2>2 DEF IInv, TypeOK
  <2>6. \A v \in Writer : at'[v] = "filled" =>
           buffer_mem'[idx'[v]] = [writer |-> v, seq_no |-> seq_no'[v]]
    BY <2>1, <2>3 DEF IInv, TypeOK
  <2>7. slot(read_idx' + 0) = Place(0)
    BY <2>1 DEF Place
  <2>8. rd \in {"free", "advance"} => buffer_mem'[Place(0)] = buffer_mem[Place(0)]
    BY <1>1, <2>1, <2>4 DEF IInv, TypeOK
  <2> QED BY <2>1, <2>5, <2>6, <2>7, <2>8 DEF Place
<1>4. ASSUME NEW w \in Writer, finish_write(w)
      PROVE  Contents'
  <2>1. /\ at[w] = "filled" /\ slots' = [slots EXCEPT ![idx[w]] = "READY"]
        /\ at'[w] = "idle"
        /\ \A v \in Writer : v # w => at'[v] = at[v] /\ idx'[v] = idx[v] /\ seq_no'[v] = seq_no[v]
        /\ UNCHANGED <<buffer_mem, read_idx, rd, to>>
    BY <1>4 DEF finish_write, return_from_event, IInv, TypeOK, reader
  <2>2. [writer |-> w, seq_no |-> seq_no[w]] \in Record
    BY DEF IInv, TypeOK, Record
  <2>3. \A s \in Slot : slots'[s] = "READY" => s = idx[w] \/ slots[s] = "READY"
    BY <2>1 DEF IInv, TypeOK
  <2> QED BY <2>1, <2>2, <2>3 DEF Place
<1>5. CASE copy_to_user
  <2>1. /\ rd = "copy" /\ rd' = "free" /\ to' = Append(to, buffer_mem[slot(read_idx)])
        /\ UNCHANGED <<buffer_mem, slots, read_idx, at, seq_no, idx>>
    BY <1>5 DEF copy_to_user, buffer, writers
  <2>2. buffer_mem[Place(0)] \in Record
    BY <1>1, <2>1 DEF IInv, Reading
  <2>3. to' # << >> /\ to'[Len(to')] = buffer_mem[slot(read_idx)]
    <3>1. to \in Seq(Record \cup {Nothing, Damaged}) /\ buffer_mem[slot(read_idx)] \in Record \cup {Nothing, Damaged}
      BY <1>1 DEF IInv, TypeOK
    <3> HIDE DEF Record
    <3> QED BY <2>1, <3>1
  <2>4. slot(read_idx' + 0) = Place(0)
    BY <2>1 DEF Place
  <2> QED BY <1>1, <2>1, <2>2, <2>3, <2>4 DEF Place
<1>6. CASE free_slot
  <2>1. /\ rd = "free" /\ UNCHANGED <<buffer_mem, read_idx, at, seq_no, idx, to>>
        /\ \A s \in Slot : slots'[s] = "READY" => slots[s] = "READY"
    BY <1>6 DEF free_slot, writers, IInv, TypeOK
  <2> QED BY <2>1 DEF Place
<1>7. CASE \/ \E n \in 1..MaxRead, e \in BOOLEAN : ftdev_read(n, e)
           \/ check_empty \/ check_marker \/ advance \/ return_slot
           \/ \E n \in FaultBytes : page_fault(n)
           \/ timeout \/ signal
  <2>1. rd' \notin {"free", "advance"} /\ UNCHANGED <<buffer_mem, slots, at, seq_no, idx>>
    BY <1>7 DEF ftdev_read, check_empty, check_marker, advance, page_fault, return_slot, timeout,
                signal, after_copy, return_to_user, buffer, writers
  <2> QED BY <2>1
<1> QED
  BY <1>2, <1>3, <1>4, <1>5, <1>6, <1>7 DEF Next, WriterStep, CopyStep

-----------------------------------------------------------------------------
(* The refinement: what a step does to the abstract queue.                 *)

\* The record in place k is complete and not delivered yet.
Filled(k) == slots[Place(k)] = "READY" \/ (k = 0 /\ rd = "advance")

\* The elements of the abstract queue.
LEMMA QueueElement ==
  ASSUME IInv
  PROVE  \A k \in 1..Taken : queue[k] = IF Filled(k - 1) THEN buffer_mem[Place(k - 1)] ELSE Nothing
<1>1. \A k \in 1..Taken : k = 1 <=> k - 1 = 0
  BY Numbers
<1> QED BY <1>1 DEF queue, Filled

\* A step that neither fills nor frees a place nor changes a filled one.
LEMMA QueueUnchanged ==
  ASSUME IInv, IInv', Contents, Taken' = Taken, read_idx' = read_idx,
         \A k \in Slot : Filled(k)' <=> Filled(k),
         \A k \in Slot : Filled(k) => buffer_mem'[Place(k)] = buffer_mem[Place(k)]
  PROVE  queue' = queue
<1>1. \A k \in 1..Taken : k - 1 \in Slot
  BY Numbers DEF Slot
<1>2. \A k \in Slot : Place(k)' = Place(k)
  BY DEF Place
<1>3. \A k \in 1..Taken : (Filled(k - 1) <=> Filled(k - 1)') /\ Place(k - 1)' = Place(k - 1)
  BY <1>1, <1>2
<1>4. \A k \in 1..Taken : k = 1 <=> k - 1 = 0
  BY Numbers
<1> QED BY <1>1, <1>3, <1>4 DEF queue, Filled

\* Steps of a writer before it announces its record do not show, except that
\* it takes a place.
LEMMA WriterQuiet ==
  ASSUME IInv, IInv', Contents, NEW w \in Writer,
         save_timestamp(w) \/ start_write(w) \/ give_back(w) \/ count_failure(w) \/ fill(w)
           \/ mark_busy(w)
  PROVE  queue' = queue /\ Dequeued' = Dequeued
<1>1. /\ UNCHANGED <<read_idx, rd, to>>
      /\ idx[w] \in Slot
      /\ slots' = slots \/ (at[w] = "taken" /\ slots' = [slots EXCEPT ![idx[w]] = "BUSY"])
      /\ \/ buffer_mem' = buffer_mem
         \/ at[w] = "busy" /\ buffer_mem' = [buffer_mem EXCEPT ![idx[w]] = [writer |-> w, seq_no |-> seq_no[w]]]
  BY DEF save_timestamp, start_write, give_back, count_failure, fill, mark_busy, return_from_event,
         buffer, reader, IInv, TypeOK
<1>2. Taken' = Taken
  BY CounterStep, MarkStep
<1>3. \A k \in Slot : Place(k)' = Place(k) /\ Place(k) \in Slot
  BY <1>1, Places, Numbers DEF Place, Slot, IInv
<1>4. at[w] \in {"taken", "busy"} => ~(\E k \in Slot : Filled(k) /\ idx[w] = Place(k))
  <2> SUFFICES ASSUME at[w] \in {"taken", "busy"}, NEW k \in Slot, idx[w] = Place(k)
               PROVE  ~Filled(k)
    OBVIOUS
  <2>1. w \in Holding
    BY DEF Holding
  <2>2. slots[Place(k)] # "READY"
    BY <2>1 DEF IInv, Held
  <2>3. rd = "advance" => Place(k) # Place(0)
    BY <2>1, Places DEF IInv, SlotExclusive
  <2> QED BY <2>2, <2>3 DEF Filled
<1>5. ASSUME NEW k \in Slot
      PROVE  /\ Filled(k)' <=> Filled(k)
             /\ Filled(k) => buffer_mem'[Place(k)] = buffer_mem[Place(k)]
  <2>1. slots'[Place(k)] = "READY" <=> slots[Place(k)] = "READY"
    <3>1. CASE slots' = slots
      BY <3>1
    <3>2. CASE at[w] = "taken" /\ slots' = [slots EXCEPT ![idx[w]] = "BUSY"]
      <4>1. idx[w] = Place(k) => slots[Place(k)] # "READY"
        BY <1>4, <3>2 DEF Filled
      <4> QED BY <1>3, <3>2, <4>1 DEF IInv, TypeOK
    <3> QED BY <1>1, <3>1, <3>2
  <2>2. Filled(k) => buffer_mem'[Place(k)] = buffer_mem[Place(k)]
    BY <1>1, <1>3, <1>4 DEF IInv, TypeOK
  <2> QED BY <1>1, <1>3, <2>1, <2>2 DEF Filled
<1>6. queue' = queue
  BY <1>1, <1>2, <1>5, QueueUnchanged
<1> QED BY <1>1, <1>6 DEF Dequeued

\* Neither do the steps of the reader until it dequeues.
LEMMA ReaderQuiet ==
  ASSUME FaultsSeen, IInv, IInv', Contents,
         \/ \E n \in 1..MaxRead, e \in BOOLEAN : ftdev_read(n, e)
         \/ check_empty \/ check_marker \/ copy_to_user \/ free_slot
         \/ \E n \in FaultBytes : page_fault(n)
         \/ return_slot \/ timeout \/ signal
  PROVE  queue' = queue /\ Dequeued' = Dequeued
<1>1. /\ UNCHANGED <<read_idx, buffer_mem>>
      /\ rd # "advance"
      /\ \/ rd' # "advance" /\ slots' = slots
         \/ rd = "free" /\ rd' = "advance" /\ slots' = [slots EXCEPT ![slot(read_idx)] = "FREE"]
  BY DEF ftdev_read, check_empty, check_marker, copy_to_user, page_fault, return_slot, timeout,
         signal, after_copy, return_to_user, buffer, free_slot
<1>2. Taken' = Taken
  BY ReaderStep, FreeSlotStep
<1>3. /\ \A k \in Slot : slot(read_idx' + k) = Place(k) /\ Place(k) \in Slot
      /\ \A k \in Slot : k # 0 => Place(k) # slot(read_idx)
      /\ Place(0) = slot(read_idx) /\ 0 \in Slot
  BY <1>1, Places, Numbers DEF Place, Slot, IInv
<1>4. ASSUME NEW k \in Slot
      PROVE  Filled(k)' <=> Filled(k)
  <2>1. CASE rd' # "advance" /\ slots' = slots
    BY <1>1, <1>3, <2>1 DEF Filled, Place
  <2>2. CASE rd = "free" /\ rd' = "advance" /\ slots' = [slots EXCEPT ![slot(read_idx)] = "FREE"]
    <3>1. slots[Place(0)] = "READY"
      BY <2>2 DEF IInv, Reading
    <3>2. CASE k = 0
      BY <2>2, <3>1, <3>2 DEF Filled
    <3>3. CASE k # 0
      <4>1. slots'[Place(k)] = slots[Place(k)]
        BY <1>3, <2>2, <3>3 DEF IInv, TypeOK
      <4>2. slot(read_idx' + k) = Place(k)
        BY <1>3
      <4> QED BY <2>2, <3>3, <4>1, <4>2 DEF Filled, Place
    <3> QED BY <3>2, <3>3
  <2> QED BY <1>1, <2>1, <2>2
<1>5. queue' = queue
  BY <1>1, <1>2, <1>4, QueueUnchanged
<1>6. Dequeued' = Dequeued
  <2>1. CASE copy_to_user
    <3>1. rd = "copy" /\ rd' = "free" /\ to' = Append(to, buffer_mem[slot(read_idx)])
      BY <2>1 DEF copy_to_user
    <3>2. to \in Seq(Record \cup {Nothing, Damaged}) /\ buffer_mem[slot(read_idx)] \in Record \cup {Nothing, Damaged}
      BY <1>3 DEF IInv, TypeOK
    <3> HIDE DEF Record
    <3>3. SubSeq(to', 1, Len(to') - 1) = to
      BY <3>1, <3>2
    <3> QED BY <3>1, <3>3 DEF Dequeued
  <2>2. CASE free_slot
    BY <2>2 DEF free_slot, Dequeued
  <2>3. CASE ~copy_to_user /\ ~free_slot
    <3>1. to' = to /\ rd \notin {"free", "advance"} /\ rd' \notin {"free", "advance"}
      BY <2>3 DEF ftdev_read, check_empty, check_marker, page_fault, return_slot, timeout,
                  signal, after_copy, return_to_user, FaultsSeen
    <3> QED BY <3>1 DEF Dequeued
  <2> QED BY <2>1, <2>2, <2>3
<1> QED BY <1>5, <1>6

\* take_slot() takes the place behind the last one.
LEMMA TakeIsReserve ==
  ASSUME IInv, IInv', Contents, Contents', NEW w \in Writer, take_slot(w)
  PROVE  /\ queue' = Append(queue, Nothing) /\ Dequeued' = Dequeued
         /\ Taken < slot_count /\ Taken' = Taken + 1 /\ idx'[w] = Place(Taken)
         /\ \A k \in Slot : Place(k)' = Place(k)
<1>1. /\ UNCHANGED <<read_idx, slots, buffer_mem, rd, to>>
      /\ idx' = [idx EXCEPT ![w] = slot(write_idx)]
  BY DEF take_slot, reader
<1>2. Taken < slot_count /\ Taken' = Taken + 1 /\ Taken \in Nat
  BY TakeSlotStep, Numbers
<1>3. \A k \in Slot : Place(k)' = Place(k)
  BY <1>1 DEF Place
<1>4. Taken \in Slot /\ slots[Place(Taken)] = "FREE" /\ slot(write_idx) = Place(Taken)
  BY <1>2, Numbers DEF IInv, Occupancy, Slot
<1>5. ~Filled(Taken)
  BY <1>2, <1>4, Numbers DEF Filled, IInv, Reading
<1>6. \A k \in 1..Taken' : k - 1 \in Slot /\ (k # Taken' => k \in 1..Taken) /\ Taken' - 1 = Taken
  BY <1>2, Numbers DEF Slot
<1>7. \A k \in 1..Taken' : queue'[k] = IF Filled(k - 1) THEN buffer_mem[Place(k - 1)] ELSE Nothing
  <2>1. \A k \in 1..Taken' : k = 1 <=> k - 1 = 0
    BY <1>2
  <2> QED BY <1>1, <1>3, <1>6, <2>1 DEF queue, Filled
<1>8. \A k \in 1..Taken : queue'[k] = queue[k]
  BY <1>2, <1>7, QueueElement
<1>9. queue'[Taken'] = Nothing
  BY <1>2, <1>5, <1>6, <1>7
<1>10. /\ queue' \in [1..Taken' -> Record \cup {Nothing}] /\ queue \in Seq(Record \cup {Nothing})
       /\ Len(queue) = Taken /\ Taken' \in Nat
  BY <1>2, QueueType, FunctionIsSeq DEF QueueOK
<1>11. queue' = Append(queue, Nothing)
  <2> DEFINE S == Record \cup {Nothing}
             q == queue
             n == Taken'
             f == queue'
  <2>1. Append(q, Nothing) \in Seq(S) /\ Len(Append(q, Nothing)) = n
    BY <1>2, <1>10
  <2>2. \A i \in 1..n : f[i] = Append(q, Nothing)[i]
    BY <1>2, <1>8, <1>9, <1>10
  <2>3. f \in [1..n -> S] /\ n \in Nat
    BY <1>10
  <2> HIDE DEF S, q, n, f
  <2>4. f = Append(q, Nothing)
    BY <2>1, <2>2, <2>3, FunctionsEqual
  <2> QED BY <2>4 DEF q, f
<1> QED
  BY <1>1, <1>2, <1>3, <1>4, <1>11 DEF Dequeued, IInv, TypeOK

\* finish_write() fills the place that the writer has taken.
LEMMA FinishIsPublish ==
  ASSUME IInv, IInv', Contents, Contents', NEW w \in Writer, finish_write(w)
  PROVE  /\ Dequeued' = Dequeued /\ Taken' = Taken
         /\ \A k \in Slot : Place(k)' = Place(k)
         /\ \E k \in Slot : /\ k < Taken /\ idx[w] = Place(k) /\ queue[k + 1] = Nothing
                            /\ queue' = [queue EXCEPT ![k + 1] = [writer |-> w, seq_no |-> seq_no[w]]]
<1> DEFINE r == [writer |-> w, seq_no |-> seq_no[w]]
<1>1. /\ at[w] = "filled" /\ w \in Holding /\ slots' = [slots EXCEPT ![idx[w]] = "READY"]
      /\ idx[w] \in Slot /\ UNCHANGED <<read_idx, buffer_mem, rd, to>>
  BY DEF finish_write, reader, Holding, IInv, TypeOK
<1>2. Taken' = Taken /\ Taken \in Nat /\ Taken <= slot_count /\ slot_count \in Nat
  BY MarkStep, Numbers
<1>3. \A k \in Slot : Place(k)' = Place(k) /\ Place(k) \in Slot
  BY <1>1, <1>2, Places DEF Place, IInv, Slot
<1>4. PICK k \in Slot : k < Taken /\ idx[w] = Place(k)
  BY <1>1 DEF IInv, Held
<1>5. buffer_mem[Place(k)] = r /\ slots[Place(k)] = "BUSY"
  BY <1>1, <1>4 DEF Contents, IInv, Held
<1>6. k = 0 => rd # "advance"
  BY <1>1, <1>4, Places DEF IInv, SlotExclusive
<1>7. ~Filled(k) /\ Filled(k)'
  BY <1>1, <1>3, <1>4, <1>5, <1>6 DEF Filled, IInv, TypeOK
<1>8. ASSUME NEW j \in Slot, j # k PROVE Filled(j)' <=> Filled(j)
  <2>1. Place(j) # Place(k)
    BY <1>8, Places DEF IInv
  <2> QED BY <1>1, <1>3, <1>4, <2>1 DEF Filled, IInv, TypeOK
<1>9. \A i \in 1..Taken : i - 1 \in Slot /\ (i = 1 <=> i - 1 = 0) /\ (i = k + 1 <=> i - 1 = k)
  BY <1>2, <1>4 DEF Slot
<1>10. \A i \in 1..Taken : queue'[i] = IF Filled(i - 1)' THEN buffer_mem[Place(i - 1)] ELSE Nothing
  BY <1>1, <1>2, <1>3, <1>9 DEF queue, Filled
<1>11. k + 1 \in 1..Taken
  BY <1>2, <1>4 DEF Slot
<1>12. queue[k + 1] = Nothing /\ queue'[k + 1] = r
  BY <1>5, <1>7, <1>9, <1>10, <1>11, QueueElement
<1>13. \A i \in 1..Taken : i # k + 1 => queue'[i] = queue[i]
  BY <1>8, <1>9, <1>10, QueueElement
<1>14. queue \in [1..Taken -> Record \cup {Nothing}] /\ queue' \in [1..Taken -> Record \cup {Nothing}]
  BY <1>2, QueueType DEF QueueOK
<1>15. queue' = [queue EXCEPT ![k + 1] = r]
  BY <1>11, <1>12, <1>13, <1>14
<1> QED
  BY <1>1, <1>2, <1>3, <1>4, <1>12, <1>15 DEF Dequeued

\* Advancing read_idx delivers the oldest record.
LEMMA AdvanceIsDeliver ==
  ASSUME IInv, IInv', Contents, Contents', advance
  PROVE  /\ Taken >= 1 /\ Taken' = Taken - 1
         /\ queue # << >> /\ queue[1] \in Record /\ queue' = Tail(queue)
         /\ Dequeued' = Append(Dequeued, queue[1])
         /\ \A k \in Slot : slot(read_idx' + k) = Place(k + 1)
<1>1. rd = "advance" /\ rd' = "return" /\ UNCHANGED <<slots, buffer_mem, to>>
  BY DEF advance
<1>2. Taken >= 1 /\ Taken \in Nat /\ Taken <= slot_count /\ slot_count \in Nat /\ Taken' = Taken - 1
  BY <1>1, AdvanceStep, Numbers DEF IInv, Reading
<1>3. \A k \in Slot : slot(read_idx' + k) = Place(k + 1)
  BY AdvanceStep
<1>4. queue[1] = buffer_mem[Place(0)] /\ queue[1] \in Record
  <2>1. 1 \in 1..Taken /\ 1 - 1 = 0
    BY <1>2
  <2>2. Filled(0)
    BY <1>1 DEF Filled
  <2> QED BY <1>1, <2>1, <2>2, QueueElement DEF Contents
<1>5. /\ queue \in Seq(Record \cup {Nothing}) /\ Len(queue) = Taken
      /\ queue' \in [1..Taken' -> Record \cup {Nothing}] /\ Taken' \in Nat
  BY <1>2, QueueType DEF QueueOK
<1>6. \A k \in 1..Taken' : queue'[k] = queue[k + 1]
  <2> SUFFICES ASSUME NEW k \in 1..Taken' PROVE queue'[k] = queue[k + 1]
    OBVIOUS
  <2>1. k - 1 \in Slot /\ k + 1 \in 1..Taken /\ k \in Slot /\ k # 0 /\ (k - 1) + 1 = k /\ (k + 1) - 1 = k
    BY <1>2 DEF Slot
  <2>2. slot(read_idx' + (k - 1)) = Place(k)
    BY <1>3, <2>1
  <2>3. queue'[k] = IF slots[Place(k)] = "READY" THEN buffer_mem[Place(k)] ELSE Nothing
    BY <1>1, <2>2 DEF queue, Place
  <2>4. queue[k + 1] = IF Filled(k) THEN buffer_mem[Place(k)] ELSE Nothing
    BY <2>1, QueueElement
  <2> QED BY <2>1, <2>3, <2>4 DEF Filled
<1>7. queue # << >> /\ queue' = Tail(queue)
  <2> DEFINE S == Record \cup {Nothing}
             q == queue
             n == Taken'
             f == queue'
  <2>1. q \in Seq(S) /\ Len(q) = n + 1 /\ n \in Nat /\ f \in [1..n -> S]
    BY <1>2, <1>5
  <2>2. \A i \in 1..n : f[i] = q[i + 1]
    BY <1>6
  <2> HIDE DEF S, q, n, f
  <2>3. Tail(q) \in Seq(S) /\ Len(Tail(q)) = n /\ q # << >>
    BY <2>1
  <2>4. \A i \in 1..n : f[i] = Tail(q)[i]
    BY <2>1, <2>2
  <2>5. f = Tail(q)
    BY <2>1, <2>3, <2>4, FunctionsEqual
  <2> QED BY <2>3, <2>5 DEF q, f
<1>8. Dequeued' = Append(Dequeued, queue[1])
  <2> DEFINE S == Record \cup {Nothing, Damaged}
  <2>1. to \in Seq(S) /\ to # << >> /\ to[Len(to)] = queue[1]
    BY <1>1, <1>4 DEF IInv, TypeOK, Contents
  <2>2. Dequeued = SubSeq(to, 1, Len(to) - 1) /\ Dequeued' = to
    BY <1>1 DEF Dequeued
  <2> HIDE DEF S
  <2>3. to = Append(SubSeq(to, 1, Len(to) - 1), to[Len(to)])
    BY <2>1, SubSeqFull, SubSeqRecursiveSecond, LenProperties
  <2> QED BY <2>1, <2>2, <2>3
<1> QED
  BY <1>2, <1>3, <1>4, <1>7, <1>8

\* A step that changes nothing changes nothing in the abstract queue.
LEMMA Stuttering ==
  ASSUME UNCHANGED vars
  PROVE  Taken' = Taken /\ queue' = queue /\ Dequeued' = Dequeued
<1> USE DEF vars, buffer, writers, reader
<1>1. Reserved' = Reserved /\ Failed' = Failed /\ Returning' = Returning
  BY DEF Reserved, Failed, Returning
<1>2. Cardinality(Reserved') = Cardinality(Reserved) /\ Cardinality(Failed') = Cardinality(Failed)
  BY <1>1
<1>3. Taken' = Taken
  BY <1>1, <1>2 DEF Taken
<1>4. \A k \in 1..Taken : Place(k - 1)' = Place(k - 1)
  BY DEF Place
<1> QED BY <1>3, <1>4 DEF queue, Dequeued

\* Every step of the buffer is a step of the queue, or does not show.
LEMMA RefinementStep ==
  ASSUME FaultsSeen, IInv, IInv', Contents, Contents', [Next]_vars
  PROVE  [Abstract!Next]_(Abstract!fifo)
<1>1. CASE UNCHANGED vars
  BY <1>1, Stuttering DEF Abstract!fifo
<1>2. ASSUME NEW w \in Writer, take_slot(w)
      PROVE  Abstract!Reserve
  BY <1>2, TakeIsReserve, QueueType DEF Abstract!Reserve, QueueOK
<1>3. ASSUME NEW w \in Writer, finish_write(w)
      PROVE  Abstract!Publish
  <2>1. PICK k \in Slot : /\ k < Taken /\ queue[k + 1] = Nothing
                          /\ queue' = [queue EXCEPT ![k + 1] = [writer |-> w, seq_no |-> seq_no[w]]]
    BY <1>3, FinishIsPublish
  <2>2. k + 1 \in 1..Len(queue)
    BY <2>1, QueueType, Numbers DEF QueueOK, Slot
  <2>3. [writer |-> w, seq_no |-> seq_no[w]] \in Record
    BY DEF IInv, TypeOK, Record
  <2>4. Dequeued' = Dequeued
    BY <1>3, FinishIsPublish
  <2> QED BY <2>1, <2>2, <2>3, <2>4 DEF Abstract!Publish
<1>4. ASSUME advance
      PROVE  Abstract!Deliver
  BY <1>4, AdvanceIsDeliver, ConstantsAssumption DEF Abstract!Deliver
<1>5. ASSUME NEW w \in Writer, save_timestamp(w) \/ WriterStep(w)
      PROVE  [Abstract!Next]_(Abstract!fifo)
  BY <1>2, <1>3, <1>5, WriterQuiet DEF WriterStep, Abstract!Next, Abstract!fifo
<1>6. CASE CopyStep
  BY <1>4, <1>6, ReaderQuiet DEF CopyStep, Abstract!Next, Abstract!fifo
<1>7. CASE \/ \E n \in 1..MaxRead, e \in BOOLEAN : ftdev_read(n, e)
           \/ \E n \in FaultBytes : page_fault(n)
           \/ timeout \/ signal
  BY <1>7, ReaderQuiet DEF Abstract!fifo
<1> QED
  BY <1>1, <1>5, <1>6, <1>7 DEF Next

\* The contents of an empty buffer.
LEMMA InitContents ==
  ASSUME Init
  PROVE  Contents /\ Taken = 0 /\ queue = << >> /\ Dequeued = << >>
<1>1. Contents
  BY DEF Init, Contents
<1>2. Reserved = {} /\ Failed = {} /\ Returning = 0
  BY DEF Init, Reserved, Failed, Returning
<1>3. Taken = 0
  BY <1>2, FS_EmptySet, ConstantsAssumption DEF Taken, Init
<1>4. queue = << >>
  BY <1>3 DEF queue
<1> QED BY <1>1, <1>3, <1>4 DEF Init, Dequeued

\* The markers are right in every state.
LEMMA ContentsInvariance == Spec => [](IInv /\ Contents)
<1>1. Init => IInv /\ Contents
  BY InitInv, InitContents
<1>2. IInv /\ Contents /\ [Next]_vars => (IInv /\ Contents)'
  <2> SUFFICES ASSUME IInv, Contents, [Next]_vars PROVE IInv' /\ Contents'
    OBVIOUS
  <2>1. CASE UNCHANGED vars
    BY <2>1, NextStep DEF vars, buffer, writers, reader, Contents, Place
  <2> QED BY <2>1, NextStep, ContentsStep
<1> QED BY <1>1, <1>2, PTL DEF Spec

\* ft_buffer_start_write(), ft_buffer_finish_write() and
\* ft_buffer_copy_to_user() together implement a bounded queue, however many
\* contexts interrupt each other in them: places are handed out in order, no
\* record is lost, overwritten, delivered twice or before it is complete.
THEOREM Refinement ==
  ASSUME FaultsSeen
  PROVE  Spec => ImplementsFIFO
<1>1. Init => Abstract!Init
  BY InitContents DEF Abstract!Init
<1>2. (IInv /\ Contents) /\ (IInv /\ Contents)' /\ [Next]_vars => [Abstract!Next]_(Abstract!fifo)
  BY RefinementStep
<1> QED
  BY <1>1, <1>2, ContentsInvariance, PTL DEF Spec, ImplementsFIFO, Abstract!Spec

-----------------------------------------------------------------------------
(* Every event is accounted for.  Delivery does not change Log, so only    *)
(* take_slot() and finish_write() do.                                      *)

\* The elements of Log.
LogOK ==
  /\ Len(Dequeued) \in Nat /\ Taken \in Nat
  /\ Dequeued \in Seq(Record \cup {Nothing, Damaged})
  /\ DOMAIN Log = 1..(Len(Dequeued) + Taken)
  /\ \A i \in 1..(Len(Dequeued) + Taken) :
       Log[i] = IF i <= Len(Dequeued) THEN Dequeued[i] ELSE queue[i - Len(Dequeued)]

\* They are what was delivered and what is still in the queue.
LEMMA LogTyped == IInv /\ Contents => LogOK
<1> SUFFICES ASSUME IInv, Contents PROVE LogOK
  OBVIOUS
<1> DEFINE S == Record \cup {Nothing, Damaged}
<1>1. to \in Seq(S) /\ (rd \in {"free", "advance"} => to # << >>)
  BY DEF IInv, TypeOK, Contents
<1>2. Dequeued \in Seq(S)
  <2> HIDE DEF S
  <2>1. CASE rd \in {"free", "advance"}
    <3>1. SubSeq(to, 1, Len(to) - 1) \in Seq(S)
      BY <1>1, <2>1
    <3> QED BY <2>1, <3>1 DEF Dequeued
  <2>2. CASE rd \notin {"free", "advance"}
    BY <1>1, <2>2 DEF Dequeued
  <2> QED BY <2>1, <2>2
<1>3. Len(Dequeued) \in Nat
  <2> HIDE DEF S
  <2> QED BY <1>2
<1>4. Taken \in Nat
  BY Numbers
<1> QED BY <1>2, <1>3, <1>4 DEF LogOK, Log

\* Before and after a step.
LEMMA LogType == (IInv /\ Contents => LogOK) /\ (IInv' /\ Contents' => LogOK')
BY LogTyped, PTL

\* A place is added.
LEMMA LogTake ==
  ASSUME IInv, IInv', Contents, Contents', NEW w \in Writer, take_slot(w)
  PROVE  /\ DOMAIN Log' = 1..(Len(Dequeued) + Taken + 1)
         /\ \A i \in DOMAIN Log : i \in DOMAIN Log' /\ Log'[i] = Log[i]
         /\ Log'[Len(Dequeued) + Taken + 1] = Nothing
<1>1. queue' = Append(queue, Nothing) /\ Dequeued' = Dequeued /\ Taken' = Taken + 1
  BY TakeIsReserve
<1>2. LogOK /\ LogOK' /\ QueueOK
  BY LogType, QueueType
<1>3. Len(Dequeued') = Len(Dequeued)
  BY <1>1
<1>4. queue'[Taken + 1] = Nothing /\ \A k \in 1..Taken : queue'[k] = queue[k]
  <2> DEFINE S == Record \cup {Nothing}
             q == queue
  <2>1. q \in Seq(S) /\ Len(q) = Taken
    BY <1>2 DEF QueueOK
  <2> HIDE DEF S, q
  <2>2. Append(q, Nothing)[Len(q) + 1] = Nothing /\ \A k \in 1..Len(q) : Append(q, Nothing)[k] = q[k]
    BY <2>1
  <2> QED BY <1>1, <2>1, <2>2 DEF q
<1>5. DOMAIN Log' = 1..(Len(Dequeued) + (Taken + 1))
  BY <1>1, <1>2, <1>3 DEF LogOK
<1>6. ASSUME NEW i \in DOMAIN Log PROVE i \in DOMAIN Log' /\ Log'[i] = Log[i]
  <2> DEFINE d == Len(Dequeued)
  <2>1. i \in 1..(d + Taken) /\ d \in Nat /\ Taken \in Nat
    BY <1>2 DEF LogOK
  <2>2. i \in 1..(d + (Taken + 1)) /\ (i > d => i - d \in 1..Taken)
    BY <2>1
  <2>3. Log'[i] = IF i <= d THEN Dequeued'[i] ELSE queue'[i - d]
    BY <1>1, <1>2, <1>3, <2>2 DEF LogOK
  <2>4. Log[i] = IF i <= d THEN Dequeued[i] ELSE queue[i - d]
    BY <1>2, <2>1 DEF LogOK
  <2>5. CASE i <= d
    BY <1>1, <1>5, <2>2, <2>3, <2>4, <2>5
  <2>6. CASE ~(i <= d)
    BY <1>4, <1>5, <2>1, <2>2, <2>3, <2>4, <2>6
  <2> QED BY <2>5, <2>6
<1>7. Log'[Len(Dequeued) + (Taken + 1)] = Nothing
  <2> DEFINE d == Len(Dequeued)
             i == d + (Taken + 1)
  <2>1. d \in Nat /\ Taken \in Nat /\ i \in 1..(d + (Taken + 1)) /\ ~(i <= d) /\ i - d = Taken + 1
    BY <1>2 DEF LogOK
  <2>2. Log'[i] = queue'[i - d]
    BY <1>1, <1>2, <1>3, <2>1 DEF LogOK
  <2> QED BY <1>4, <2>1, <2>2
<1>8. Len(Dequeued) + (Taken + 1) = Len(Dequeued) + Taken + 1
  BY <1>2 DEF LogOK
<1> QED BY <1>5, <1>6, <1>7, <1>8

\* A place is filled.
LEMMA LogFinish ==
  ASSUME IInv, IInv', Contents, Contents', NEW w \in Writer, finish_write(w)
  PROVE  /\ DOMAIN Log' = DOMAIN Log
         /\ \E k \in 0..(Taken - 1) :
              LET p == Len(Dequeued) + k + 1
              IN /\ idx[w] = Place(k)
                 /\ p \in DOMAIN Log /\ Log[p] = Nothing
                 /\ Log'[p] = [writer |-> w, seq_no |-> seq_no[w]]
                 /\ \A i \in DOMAIN Log : i # p => Log'[i] = Log[i]
<1>1. Dequeued' = Dequeued /\ Taken' = Taken
  BY FinishIsPublish
<1>2. LogOK /\ LogOK' /\ QueueOK /\ Len(Dequeued') = Len(Dequeued)
  BY <1>1, LogType, QueueType
<1>3. PICK k \in Slot : /\ k < Taken /\ idx[w] = Place(k) /\ queue[k + 1] = Nothing
                        /\ queue' = [queue EXCEPT ![k + 1] = [writer |-> w, seq_no |-> seq_no[w]]]
  BY FinishIsPublish
<1> DEFINE d == Len(Dequeued)
           p == d + k + 1
<1>4. /\ d \in Nat /\ Taken \in Nat /\ k \in 0..(Taken - 1) /\ p \in 1..(d + Taken)
      /\ ~(p <= d) /\ p - d = k + 1 /\ k + 1 \in 1..Taken
  BY <1>2, <1>3, Numbers DEF LogOK, Slot
<1>5. DOMAIN Log' = 1..(d + Taken) /\ DOMAIN Log = 1..(d + Taken)
  BY <1>1, <1>2 DEF LogOK
<1>6. /\ \A i \in 1..(d + Taken) : Log[i] = IF i <= d THEN Dequeued[i] ELSE queue[i - d]
      /\ \A i \in 1..(d + Taken) : Log'[i] = IF i <= d THEN Dequeued[i] ELSE queue'[i - d]
  BY <1>1, <1>2 DEF LogOK
<1>7. queue'[k + 1] = [writer |-> w, seq_no |-> seq_no[w]] /\ \A j \in 1..Taken : j # k + 1 => queue'[j] = queue[j]
  BY <1>2, <1>3, <1>4 DEF QueueOK
<1>8. Log[p] = Nothing /\ Log'[p] = [writer |-> w, seq_no |-> seq_no[w]]
  BY <1>3, <1>4, <1>6, <1>7
<1>9. ASSUME NEW i \in 1..(d + Taken), i # p PROVE Log'[i] = Log[i]
  <2>1. i > d => i - d \in 1..Taken /\ i - d # k + 1
    BY <1>4, <1>9
  <2>2. CASE i <= d
    BY <1>6, <2>2
  <2>3. CASE ~(i <= d)
    <3>1. queue'[i - d] = queue[i - d]
      BY <1>4, <1>7, <2>1, <2>3
    <3> QED BY <1>6, <2>3, <3>1
  <2> QED BY <2>2, <2>3
<1> QED BY <1>3, <1>4, <1>5, <1>8, <1>9

\* A delivery moves the border between the two parts of Log.
LEMMA LogAdvance ==
  ASSUME IInv, IInv', Contents, Contents', advance
  PROVE  /\ DOMAIN Log' = DOMAIN Log /\ \A i \in DOMAIN Log : Log'[i] = Log[i]
         /\ Len(Dequeued') = Len(Dequeued) + 1
         /\ \A i \in 1..Len(Dequeued') : i <= Len(Dequeued) \/ Dequeued'[i] \in Record
         /\ \A i \in 1..Len(Dequeued) : Dequeued'[i] = Dequeued[i]
<1>1. LogOK /\ LogOK' /\ QueueOK
  BY LogType, QueueType
<1>2. Taken >= 1 /\ Taken' = Taken - 1 /\ queue[1] \in Record /\ queue' = Tail(queue) /\ Dequeued' = Append(Dequeued, queue[1])
  BY AdvanceIsDeliver
<1> DEFINE d == Len(Dequeued)
           D == Dequeued
           q == queue
           S == Record \cup {Nothing, Damaged}
           T == Record \cup {Nothing}
<1>3. D \in Seq(S) /\ q \in Seq(T) /\ Len(q) = Taken /\ q[1] \in S /\ d = Len(D)
  BY <1>1, <1>2 DEF LogOK, QueueOK
<1> HIDE DEF S, T, D, q
<1>4. Len(Append(D, q[1])) = d + 1 /\ Append(D, q[1])[d + 1] = q[1] /\ \A i \in 1..d : Append(D, q[1])[i] = D[i]
  BY <1>3
<1>5. \A i \in 1..(Taken - 1) : Tail(q)[i] = q[i + 1]
  BY <1>2, <1>3
<1>6. Len(Dequeued') = d + 1 /\ Dequeued'[d + 1] = queue[1] /\ \A i \in 1..d : Dequeued'[i] = Dequeued[i]
  BY <1>2, <1>4 DEF D, q
<1>7. \A i \in 1..(Taken - 1) : queue'[i] = queue[i + 1]
  BY <1>2, <1>5 DEF q
<1>8. d \in Nat /\ Taken \in Nat /\ (d + 1) + (Taken - 1) = d + Taken
  BY <1>1 DEF LogOK
<1>9. DOMAIN Log' = 1..(d + Taken) /\ DOMAIN Log = 1..(d + Taken)
  <2>1. DOMAIN Log' = 1..((d + 1) + (Taken - 1))
    BY <1>1, <1>2, <1>6 DEF LogOK
  <2> QED BY <1>1, <1>8, <2>1 DEF LogOK
<1>10. ASSUME NEW i \in 1..(d + Taken) PROVE Log'[i] = Log[i]
  <2>1. Log'[i] = IF i <= d + 1 THEN Dequeued'[i] ELSE queue'[i - (d + 1)]
    <3>1. i \in 1..((d + 1) + (Taken - 1))
      BY <1>8
    <3> QED BY <1>1, <1>2, <1>6, <3>1 DEF LogOK
  <2>2. Log[i] = IF i <= d THEN Dequeued[i] ELSE queue[i - d]
    BY <1>1 DEF LogOK
  <2>3. CASE i <= d
    BY <1>6, <1>8, <2>1, <2>2, <2>3
  <2>4. CASE i = d + 1
    BY <1>6, <1>8, <2>1, <2>2, <2>4
  <2>5. CASE i > d + 1
    <3>1. i - (d + 1) \in 1..(Taken - 1) /\ (i - (d + 1)) + 1 = i - d /\ ~(i <= d + 1) /\ ~(i <= d)
      BY <1>8, <2>5
    <3> QED BY <1>7, <2>1, <2>2, <3>1
  <2> QED BY <1>8, <2>3, <2>4, <2>5
<1>11. \A i \in 1..(d + 1) : i <= d \/ i = d + 1
  BY <1>8
<1> QED BY <1>2, <1>6, <1>9, <1>10, <1>11

\* Steps that do not change Log.
LEMMA NumberedKept ==
  ASSUME IInv, IInv', LogOK, Numbered, Log' = Log, Dequeued' = Dequeued, Taken' = Taken,
         read_idx' = read_idx, ts_seq_no' >= ts_seq_no,
         \A v \in Active' : \/ v \in Active /\ seq_no'[v] = seq_no[v]
                            \/ v \notin Active /\ seq_no'[v] = ts_seq_no /\ ts_seq_no < ts_seq_no',
         \A u, v \in Active' \ Active : u = v,
         \A v \in Holding' : v \in Holding /\ idx'[v] = idx[v]
  PROVE  Numbered'
<1>1. ts_seq_no \in Nat /\ ts_seq_no' \in Nat /\ MaxEvents \in Nat
  BY ConstantsAssumption DEF IInv, TypeOK
<1>2. \A v \in Writer : seq_no[v] \in Int /\ seq_no'[v] \in Int
  BY <1>1 DEF IInv, TypeOK
<1>3. \A v \in Active' : seq_no'[v] < ts_seq_no'
  BY <1>1, <1>2 DEF Numbered, Active
<1>4. ASSUME NEW u \in Active', NEW v \in Active', u # v PROVE seq_no'[u] # seq_no'[v]
  <2>3. \A x \in Active : seq_no[x] < ts_seq_no /\ seq_no[x] \in Int
    BY <1>2 DEF Numbered, Active
  <2>4. CASE u \in Active /\ v \in Active
    BY <1>1, <1>4, <2>3, <2>4 DEF Numbered
  <2>5. CASE u \in Active /\ v \notin Active
    BY <1>1, <2>3, <2>5
  <2>6. CASE u \notin Active /\ v \in Active
    BY <1>1, <2>3, <2>6
  <2> QED BY <1>4, <2>4, <2>5, <2>6
<1>5. ASSUME NEW i \in DOMAIN Log, Log[i] # Nothing PROVE Older(i)'
  <2>1. Older(i)
    BY <1>5 DEF Numbered
  <2>2. Log[i].seq_no \in Int
    BY <1>1, <2>1 DEF Older, Record
  <2>3. Log'[i].seq_no < ts_seq_no'
    BY <1>1, <2>1, <2>2 DEF Older
  <2>4. \A v \in Active' : Log'[i].seq_no # seq_no'[v] /\ (Log'[i].writer = v => Log'[i].seq_no < seq_no'[v])
    BY <1>1, <1>2, <2>1, <2>2 DEF Older
  <2>5. \A v \in Holding', k \in 0..(Taken' - 1) :
           Log'[i].writer = v /\ idx'[v] = Place(k)' => i <= Len(Dequeued') + k
    BY <2>1 DEF Older, Place
  <2> QED BY <2>1, <2>3, <2>4, <2>5 DEF Older
<1>6. \A i \in 1..Len(Dequeued') : Dequeued'[i] # Nothing
  BY DEF Numbered
<1>7. \A i, j \in DOMAIN Log' : i < j /\ Log'[i] # Nothing /\ Log'[j] # Nothing =>
       /\ Log'[i].seq_no # Log'[j].seq_no
       /\ Log'[i].writer = Log'[j].writer => Log'[i].seq_no < Log'[j].seq_no
  BY DEF Numbered
<1> QED BY <1>3, <1>4, <1>5, <1>6, <1>7 DEF Numbered

\* Sequence numbers stay unique and ordered.
LEMMA NumberedStep ==
  ASSUME FaultsSeen, IInv, IInv', Contents, Contents', Numbered, Next
  PROVE  Numbered'
<1>1. LogOK /\ LogOK'
  BY LogType
<1>2. ASSUME queue' = queue, Dequeued' = Dequeued, Taken' = Taken PROVE Log' = Log
  BY <1>2 DEF Log
<1>3. ts_seq_no \in Nat /\ MaxEvents \in Nat
  BY ConstantsAssumption DEF IInv, TypeOK
<1>4. ASSUME NEW w \in Writer,
             save_timestamp(w) \/ start_write(w) \/ give_back(w) \/ count_failure(w) \/ fill(w)
               \/ mark_busy(w)
      PROVE  Numbered'
  <2>1. queue' = queue /\ Dequeued' = Dequeued /\ Taken' = Taken
    BY <1>4, WriterQuiet, CounterStep, MarkStep
  <2>2. /\ read_idx' = read_idx /\ ts_seq_no' >= ts_seq_no
        /\ \A v \in Active' : \/ v \in Active /\ seq_no'[v] = seq_no[v]
                              \/ v \notin Active /\ seq_no'[v] = ts_seq_no /\ ts_seq_no < ts_seq_no'
        /\ \A v \in Active' \ Active : v = w
        /\ \A v \in Holding' : v \in Holding /\ idx'[v] = idx[v]
    <3>1. at \in [Writer -> {"idle", "start_write", "failed", "dropped", "reserved", "taken", "busy", "filled"}]
          /\ seq_no \in [Writer -> 0..(MaxEvents - 1)] /\ idx \in [Writer -> Slot]
      BY DEF IInv, TypeOK
    <3>2. CASE save_timestamp(w)
      BY <1>3, <3>1, <3>2 DEF save_timestamp, buffer, Active, Holding
    <3>3. CASE start_write(w) \/ give_back(w) \/ fill(w) \/ mark_busy(w)
      BY <1>3, <3>1, <3>3 DEF start_write, give_back, fill, mark_busy, Active, Holding
    <3>4. CASE count_failure(w)
      BY <1>3, <3>1, <3>4 DEF count_failure, return_from_event, Active, Holding
    <3> QED BY <1>4, <3>2, <3>3, <3>4
  <2> QED BY <1>1, <1>2, <2>1, <2>2, NumberedKept
<1>5. ASSUME \/ \E n \in 1..MaxRead, e \in BOOLEAN : ftdev_read(n, e)
             \/ check_empty \/ check_marker \/ copy_to_user \/ free_slot
             \/ \E n \in FaultBytes : page_fault(n)
             \/ return_slot \/ timeout \/ signal
      PROVE  Numbered'
  <2>1. queue' = queue /\ Dequeued' = Dequeued /\ Taken' = Taken
    BY <1>5, ReaderQuiet, ReaderStep, FreeSlotStep
  <2>2. read_idx' = read_idx /\ UNCHANGED writers
    BY <1>5 DEF ftdev_read, check_empty, check_marker, copy_to_user, free_slot, page_fault,
                return_slot, timeout, signal, buffer
  <2>3. ts_seq_no' >= ts_seq_no /\ Active' = Active /\ Holding' = Holding /\ seq_no' = seq_no /\ idx' = idx
    BY <1>3, <2>2 DEF writers, Active, Holding
  <2> QED BY <1>1, <1>2, <2>1, <2>2, <2>3, NumberedKept
<1>6. ASSUME NEW w \in Writer, take_slot(w)
      PROVE  Numbered'
  <2> DEFINE d == Len(Dequeued)
  <2>1. /\ DOMAIN Log' = 1..(d + Taken + 1) /\ DOMAIN Log = 1..(d + Taken)
        /\ \A i \in DOMAIN Log : i \in DOMAIN Log' /\ Log'[i] = Log[i]
        /\ Log'[d + Taken + 1] = Nothing /\ d \in Nat /\ Taken \in Nat
    BY <1>1, <1>6, LogTake DEF LogOK
  <2>2. /\ Dequeued' = Dequeued /\ Taken < slot_count /\ Taken' = Taken + 1 /\ idx'[w] = Place(Taken)
        /\ \A k \in Slot : Place(k)' = Place(k)
    BY <1>6, TakeIsReserve
  <2>3. /\ UNCHANGED <<seq_no, ts_seq_no>> /\ Active' = Active
        /\ \A v \in Holding' : v = w \/ (v \in Holding /\ idx'[v] = idx[v])
    BY <1>6 DEF take_slot, Active, Holding, IInv, TypeOK
  <2>4. \A i \in DOMAIN Log' : Log'[i] # Nothing => i \in DOMAIN Log
    BY <2>1
  <2>5. ASSUME NEW i \in DOMAIN Log', Log'[i] # Nothing PROVE Older(i)'
    <3>1. i \in DOMAIN Log /\ Log'[i] = Log[i] /\ Older(i) /\ i <= d + Taken
      BY <2>1, <2>4, <2>5 DEF Numbered
    <3>2. ASSUME NEW v \in Holding', NEW k \in 0..(Taken' - 1), Log'[i].writer = v, idx'[v] = Place(k)'
          PROVE  i <= d + k
      <4>1. k \in Slot /\ Taken \in Slot /\ (k # Taken => k \in 0..(Taken - 1))
        BY <2>1, <2>2, Numbers DEF Slot
      <4>2. Place(k)' = Place(k)
        BY <2>2, <4>1
      <4>3. CASE v = w
        <5>1. k = Taken
          BY <2>2, <3>2, <4>1, <4>2, <4>3, Places DEF IInv
        <5> QED BY <3>1, <5>1
      <4>4. CASE v # w /\ k # Taken
        BY <2>3, <3>1, <3>2, <4>1, <4>2, <4>4 DEF Older
      <4>5. CASE k = Taken
        BY <3>1, <4>5
      <4> QED BY <4>3, <4>4, <4>5
    <3> QED BY <2>2, <2>3, <3>1, <3>2 DEF Older
  <2>6. ASSUME NEW i \in DOMAIN Log', NEW j \in DOMAIN Log', i < j, Log'[i] # Nothing, Log'[j] # Nothing
        PROVE  /\ Log'[i].seq_no # Log'[j].seq_no
               /\ Log'[i].writer = Log'[j].writer => Log'[i].seq_no < Log'[j].seq_no
    BY <2>1, <2>4, <2>6 DEF Numbered
  <2> QED BY <2>2, <2>3, <2>5, <2>6 DEF Numbered
<1>7. ASSUME NEW w \in Writer, finish_write(w)
      PROVE  Numbered'
  <2> DEFINE d == Len(Dequeued)
             r == [writer |-> w, seq_no |-> seq_no[w]]
  <2>1. PICK k \in 0..(Taken - 1) :
          /\ idx[w] = Place(k)
          /\ d + k + 1 \in DOMAIN Log /\ Log[d + k + 1] = Nothing
          /\ Log'[d + k + 1] = r
          /\ \A i \in DOMAIN Log : i # d + k + 1 => Log'[i] = Log[i]
    BY <1>7, LogFinish
  <2> DEFINE p == d + k + 1
  <2>2. DOMAIN Log' = DOMAIN Log /\ DOMAIN Log = 1..(d + Taken) /\ d \in Nat /\ Taken \in Nat
    BY <1>1, <1>7, LogFinish DEF LogOK
  <2>3. Dequeued' = Dequeued /\ Taken' = Taken /\ \A j \in Slot : Place(j)' = Place(j)
    BY <1>7, FinishIsPublish
  <2>4. /\ ts_seq_no' = ts_seq_no /\ w \in Active /\ w \in Holding
        /\ \A v \in Active' : v \in Active /\ v # w /\ seq_no'[v] = seq_no[v]
        /\ \A v \in Holding' : v \in Holding /\ v # w /\ idx'[v] = idx[v]
    BY <1>7 DEF finish_write, return_from_event, Active, Holding, IInv, TypeOK
  <2>5. r \in Record /\ r # Nothing /\ r.seq_no = seq_no[w] /\ r.writer = w
    BY ConstantsAssumption DEF IInv, TypeOK, Record
  <2> HIDE DEF r
  <2>6. \A v \in Holding' : v \in Active' /\ v \in Writer
    BY DEF Holding, Active
  <2>7. ASSUME NEW i \in DOMAIN Log, i = p PROVE Older(i)'
    <3>1. r.seq_no < ts_seq_no' /\ \A v \in Active' : r.seq_no # seq_no'[v] /\ r.writer # v
      BY <2>4, <2>5 DEF Numbered
    <3>2. \A v \in Holding' : r.writer # v
      BY <2>4, <2>5
    <3>3. Log'[i] = r
      BY <2>1, <2>7
    <3> QED BY <2>5, <3>1, <3>2, <3>3 DEF Older
  <2>8. ASSUME NEW i \in DOMAIN Log, i # p, Log'[i] # Nothing PROVE Older(i)'
    <3>1. Log'[i] = Log[i] /\ Older(i)
      BY <2>1, <2>8 DEF Numbered
    <3>2. \A v \in Holding', j \in 0..(Taken' - 1) : Log'[i].writer = v /\ idx'[v] = Place(j)' => i <= d + j
      <4>1. \A j \in 0..(Taken' - 1) : j \in Slot
        BY <2>2, <2>3, Numbers DEF Slot
      <4> QED BY <2>3, <2>4, <3>1, <4>1 DEF Older
    <3> QED BY <2>3, <2>4, <3>1, <3>2 DEF Older
  <2>9. ASSUME NEW i \in DOMAIN Log', NEW j \in DOMAIN Log', i < j, Log'[i] # Nothing, Log'[j] # Nothing
        PROVE  /\ Log'[i].seq_no # Log'[j].seq_no
               /\ Log'[i].writer = Log'[j].writer => Log'[i].seq_no < Log'[j].seq_no
    <3>1. \A n \in DOMAIN Log : n # p /\ Log'[n] # Nothing =>
             /\ Log'[n].seq_no # r.seq_no
             /\ Log'[n].writer = w => Log'[n].seq_no < r.seq_no /\ n < p
      <4> SUFFICES ASSUME NEW n \in DOMAIN Log, n # p, Log'[n] # Nothing
                   PROVE  /\ Log'[n].seq_no # r.seq_no
                          /\ Log'[n].writer = w => Log'[n].seq_no < r.seq_no /\ n < p
        OBVIOUS
      <4>1. Log'[n] = Log[n] /\ Older(n)
        BY <2>1 DEF Numbered
      <4>2. Log[n].writer = w => n <= d + k
        BY <2>1, <2>4, <4>1 DEF Older
      <4>3. n \in Int /\ k \in Int
        BY <2>2
      <4> QED BY <2>2, <2>4, <2>5, <4>1, <4>2, <4>3 DEF Older
    <3>2. CASE i # p /\ j # p
      BY <2>1, <2>2, <2>9, <3>2 DEF Numbered
    <3>3. CASE i = p
      <4>1. j # p /\ ~(j < p)
        BY <2>2, <2>9, <3>3
      <4> QED BY <2>1, <2>2, <2>5, <2>9, <3>1, <3>3, <4>1
    <3>4. CASE j = p
      <4>1. i # p
        BY <2>2, <2>9, <3>4
      <4> QED BY <2>1, <2>2, <2>5, <2>9, <3>1, <3>4, <4>1
    <3> QED BY <3>2, <3>3, <3>4
  <2>10. \A u, v \in Active' : u # v => seq_no'[u] # seq_no'[v]
    BY <2>4 DEF Numbered
  <2>11. \A v \in Active' : seq_no'[v] < ts_seq_no'
    BY <2>4 DEF Numbered
  <2> QED BY <2>2, <2>3, <2>7, <2>8, <2>9, <2>10, <2>11 DEF Numbered
<1>8. ASSUME advance
      PROVE  Numbered'
  <2> DEFINE d == Len(Dequeued)
  <2>1. /\ DOMAIN Log' = DOMAIN Log /\ \A i \in DOMAIN Log : Log'[i] = Log[i]
        /\ Len(Dequeued') = d + 1
        /\ \A i \in 1..Len(Dequeued') : i <= d \/ Dequeued'[i] \in Record
        /\ \A i \in 1..d : Dequeued'[i] = Dequeued[i]
    BY <1>8, LogAdvance
  <2>2. Taken >= 1 /\ Taken' = Taken - 1 /\ \A k \in Slot : slot(read_idx' + k) = Place(k + 1)
    BY <1>8, AdvanceIsDeliver
  <2>3. UNCHANGED <<ts_seq_no, seq_no, idx, at>> /\ Active' = Active /\ Holding' = Holding
    BY <1>8 DEF advance, writers, Active, Holding
  <2>4. d \in Nat /\ Taken \in Nat /\ DOMAIN Log = 1..(d + Taken)
    BY <1>1 DEF LogOK
  <2>5. ASSUME NEW i \in DOMAIN Log, Log[i] # Nothing PROVE Older(i)'
    <3>1. Older(i)
      BY <2>5 DEF Numbered
    <3>2. ASSUME NEW v \in Holding, NEW k \in 0..(Taken' - 1), Log[i].writer = v, idx[v] = slot(read_idx' + k)
          PROVE  i <= (d + 1) + k
      <4>1. k \in Slot /\ k + 1 \in 0..(Taken - 1)
        BY <2>2, <2>4, Numbers DEF Slot
      <4>2. i <= d + (k + 1)
        BY <2>2, <3>1, <3>2, <4>1 DEF Older
      <4> QED BY <2>4, <4>1, <4>2
    <3> QED BY <2>1, <2>3, <3>1, <3>2 DEF Older, Place
  <2>6. \A i \in 1..Len(Dequeued') : Dequeued'[i] # Nothing
    <3>1. \A i \in 1..(d + 1) : i <= d => i \in 1..d
      BY <2>4
    <3> QED BY <2>1, <3>1, ConstantsAssumption DEF Numbered
  <2>7. ASSUME NEW i \in DOMAIN Log', NEW j \in DOMAIN Log', i < j, Log'[i] # Nothing, Log'[j] # Nothing
        PROVE  /\ Log'[i].seq_no # Log'[j].seq_no
               /\ Log'[i].writer = Log'[j].writer => Log'[i].seq_no < Log'[j].seq_no
    BY <2>1, <2>7 DEF Numbered
  <2> QED BY <2>1, <2>3, <2>5, <2>6, <2>7 DEF Numbered
<1> QED
  BY <1>4, <1>5, <1>6, <1>7, <1>8 DEF Next, WriterStep, CopyStep

-----------------------------------------------------------------------------
(* Every number that was drawn is counted.                                 *)

\* The counter of dropped events has not wrapped around yet.
NoWrap == MaxEvents <= UINT_MAX

Dropped == {w \in Writer : at[w] = "dropped"}

\* Does a writer at x count as recording, or as having dropped its event?
Works(x) == IF x \in {"idle", "dropped"} THEN 0 ELSE 1
Drops(x) == IF x = "dropped" THEN 1 ELSE 0

\* There are finitely many records.
LEMMA RecordsFinite == IsFiniteSet(Record)
<1> DEFINE N == 0..(MaxEvents - 1)
           P == Writer \X N
           f == [x \in P |-> [writer |-> x[1], seq_no |-> x[2]]]
<1>1. IsFiniteSet(N)
  BY ConstantsAssumption, FS_Interval
<1>2. IsFiniteSet(P)
  BY <1>1, ConstantsAssumption, FS_Product
<1>3. f \in [P -> Record]
  BY DEF Record
<1>4. ASSUME NEW r \in Record PROVE \E x \in P : f[x] = r
  <2>1. <<r.writer, r.seq_no>> \in P /\ f[<<r.writer, r.seq_no>>] = r
    BY DEF Record
  <2> QED BY <2>1
<1>5. f \in Surjection(P, Record)
  BY <1>3, <1>4 DEF Surjection
<1> QED BY <1>2, <1>5, FS_Surjection

\* What a writer's step does to the numbers of writers at work and of events
\* about to be counted as dropped.
LEMMA MoveOn ==
  ASSUME TypeOK, NEW w \in Writer, NEW x, at' = [at EXCEPT ![w] = x]
  PROVE  /\ Cardinality(Recording) \in Nat /\ Cardinality(Dropped) \in Nat
         /\ Cardinality(Recording') = Cardinality(Recording) + Works(x) - Works(at[w])
         /\ Cardinality(Dropped') = Cardinality(Dropped) + Drops(x) - Drops(at[w])
<1>1. ASSUME NEW S \in SUBSET Writer
      PROVE  /\ Cardinality(S) \in Nat
             /\ Cardinality(S \cup {w}) = IF w \in S THEN Cardinality(S) ELSE Cardinality(S) + 1
             /\ Cardinality(S \ {w}) = IF w \in S THEN Cardinality(S) - 1 ELSE Cardinality(S)
  <2>1. IsFiniteSet(S)
    BY ConstantsAssumption, FS_Subset
  <2> QED
    BY <2>1, FS_CardinalityType, FS_AddElement, FS_RemoveElement
<1>2. Recording \in SUBSET Writer /\ Dropped \in SUBSET Writer
  BY DEF Recording, Dropped
<1>3. /\ w \in Recording <=> at[w] \notin {"idle", "dropped"}
      /\ w \in Dropped <=> at[w] = "dropped"
  BY DEF Recording, Dropped
<1>4. /\ Recording' = IF x \in {"idle", "dropped"} THEN Recording \ {w} ELSE Recording \cup {w}
      /\ Dropped' = IF x = "dropped" THEN Dropped \cup {w} ELSE Dropped \ {w}
  BY DEF Recording, Dropped, TypeOK
<1> HIDE DEF Recording, Dropped
<1>5. /\ Cardinality(Recording) \in Nat
      /\ Cardinality(Recording \cup {w}) = IF w \in Recording THEN Cardinality(Recording) ELSE Cardinality(Recording) + 1
      /\ Cardinality(Recording \ {w}) = IF w \in Recording THEN Cardinality(Recording) - 1 ELSE Cardinality(Recording)
  BY <1>1, <1>2
<1>6. /\ Cardinality(Dropped) \in Nat
      /\ Cardinality(Dropped \cup {w}) = IF w \in Dropped THEN Cardinality(Dropped) ELSE Cardinality(Dropped) + 1
      /\ Cardinality(Dropped \ {w}) = IF w \in Dropped THEN Cardinality(Dropped) - 1 ELSE Cardinality(Dropped)
  BY <1>1, <1>2
<1>7. Cardinality(Recording') = Cardinality(Recording) + Works(x) - Works(at[w])
  <2>1. CASE x \in {"idle", "dropped"}
    BY <1>3, <1>4, <1>5, <2>1 DEF Works
  <2>2. CASE x \notin {"idle", "dropped"}
    BY <1>3, <1>4, <1>5, <2>2 DEF Works
  <2> QED BY <2>1, <2>2
<1>8. Cardinality(Dropped') = Cardinality(Dropped) + Drops(x) - Drops(at[w])
  <2>1. CASE x = "dropped"
    BY <1>3, <1>4, <1>6, <2>1 DEF Drops
  <2>2. CASE x # "dropped"
    BY <1>3, <1>4, <1>6, <2>2 DEF Drops
  <2> QED BY <2>1, <2>2
<1> QED BY <1>5, <1>6, <1>7, <1>8

\* The set of records in Log.
LEMMA RecordedSet ==
  ASSUME IInv, Numbered
  PROVE  IsFiniteSet(Recorded) /\ Cardinality(Recorded) \in Nat /\ Recorded \subseteq Record
<1>1. Recorded \subseteq Record
  BY DEF Recorded, Numbered, Older
<1> HIDE DEF Recorded
<1> QED BY <1>1, RecordsFinite, FS_Subset, FS_CardinalityType

\* The count stays exact.
LEMMA CountedStep ==
  ASSUME FaultsSeen, NoWrap, IInv, IInv', Contents, Contents', Numbered, Counted, Next
  PROVE  Counted'
<1> DEFINE R == Cardinality(Recorded)
           A == Cardinality(Recording)
           D == Cardinality(Dropped)
<1>1. /\ R \in Nat /\ A \in Nat /\ D \in Nat
      /\ ts_seq_no \in Nat /\ ts_seq_no <= MaxEvents /\ failed_writes \in Nat
      /\ MaxEvents \in Nat /\ UINT_MAX \in Nat
  <2>1. Recording \subseteq Writer /\ Dropped \subseteq Writer
    BY DEF Recording, Dropped
  <2>2. A \in Nat /\ D \in Nat
    BY <2>1, ConstantsAssumption, FS_Subset, FS_CardinalityType
  <2> QED BY <2>2, RecordedSet, ConstantsAssumption, SMTT(30) DEF IInv, TypeOK, Index
<1>2. R + A + D + failed_writes = ts_seq_no
  BY DEF Counted, Dropped
<1>3. SUFFICES Cardinality(Recorded') + Cardinality(Recording') + Cardinality(Dropped') + failed_writes' = ts_seq_no'
  BY DEF Counted, Dropped
<1>4. LogOK /\ LogOK' /\ TypeOK
  BY LogType DEF IInv
<1>5. ASSUME queue' = queue, Dequeued' = Dequeued, Taken' = Taken PROVE Recorded' = Recorded
  BY <1>5 DEF Log, Recorded
<1> HIDE DEF R, A, D
<1>6. CASE \E w \in Writer : save_timestamp(w) \/ start_write(w) \/ give_back(w) \/ fill(w) \/ mark_busy(w) \/ count_failure(w)
  <2> PICK w \in Writer : save_timestamp(w) \/ start_write(w) \/ give_back(w) \/ fill(w) \/ mark_busy(w) \/ count_failure(w)
    BY <1>6
  <2>1. Recorded' = Recorded
    BY <1>5, WriterQuiet, CounterStep, MarkStep
  <2>2. Cardinality(Recorded') = R
    BY <2>1 DEF R
  <2>3. CASE save_timestamp(w)
    <3>1. at[w] = "idle" /\ at' = [at EXCEPT ![w] = "start_write"] /\ ts_seq_no' = ts_seq_no + 1 /\ failed_writes' = failed_writes
      BY <2>3 DEF save_timestamp, buffer
    <3>2. Cardinality(Recording') = A + 1 /\ Cardinality(Dropped') = D
      <4>1. /\ Cardinality(Recording') = A + Works("start_write") - Works(at[w])
            /\ Cardinality(Dropped') = D + Drops("start_write") - Drops(at[w])
        BY <1>4, <3>1, MoveOn DEF A, D
      <4> QED BY <1>1, <3>1, <4>1 DEF Works, Drops
    <3> QED BY <1>1, <1>2, <2>2, <3>1, <3>2
  <2>4. CASE start_write(w) \/ fill(w) \/ mark_busy(w)
    <3>1. /\ ts_seq_no' = ts_seq_no /\ failed_writes' = failed_writes /\ at[w] \in {"start_write", "taken", "busy"}
          /\ \E x \in {"reserved", "failed", "busy", "filled"} : at' = [at EXCEPT ![w] = x]
      BY <2>4 DEF start_write, fill, mark_busy
    <3>2. Cardinality(Recording') = A /\ Cardinality(Dropped') = D
      <4> PICK x \in {"reserved", "failed", "busy", "filled"} : at' = [at EXCEPT ![w] = x]
        BY <3>1
      <4>1. /\ Cardinality(Recording') = A + Works(x) - Works(at[w])
            /\ Cardinality(Dropped') = D + Drops(x) - Drops(at[w])
        BY <1>4, <3>1, MoveOn DEF A, D
      <4> QED BY <1>1, <3>1, <4>1 DEF Works, Drops
    <3> QED BY <1>2, <2>2, <3>1, <3>2
  <2>5. CASE give_back(w)
    <3>1. at[w] = "failed" /\ at' = [at EXCEPT ![w] = "dropped"] /\ ts_seq_no' = ts_seq_no /\ failed_writes' = failed_writes
      BY <2>5 DEF give_back
    <3>2. Cardinality(Recording') = A - 1 /\ Cardinality(Dropped') = D + 1
      <4>1. /\ Cardinality(Recording') = A + Works("dropped") - Works(at[w])
            /\ Cardinality(Dropped') = D + Drops("dropped") - Drops(at[w])
        BY <1>4, <3>1, MoveOn DEF A, D
      <4> QED BY <1>1, <3>1, <4>1 DEF Works, Drops
    <3> QED BY <1>1, <1>2, <2>2, <3>1, <3>2
  <2>6. CASE count_failure(w)
    <3>1. at[w] = "dropped" /\ at' = [at EXCEPT ![w] = "idle"] /\ ts_seq_no' = ts_seq_no /\ failed_writes' = inc(failed_writes)
      BY <2>6 DEF count_failure, return_from_event
    <3>2. Cardinality(Recording') = A /\ Cardinality(Dropped') = D - 1 /\ Cardinality(Dropped') \in Nat
      <4>1. Cardinality(Recording') = A /\ Cardinality(Dropped') = D - 1
        <5>1. /\ Cardinality(Recording') = A + Works("idle") - Works(at[w])
              /\ Cardinality(Dropped') = D + Drops("idle") - Drops(at[w])
          BY <1>4, <3>1, MoveOn DEF A, D
        <5> QED BY <1>1, <3>1, <5>1 DEF Works, Drops
      <4>2. Dropped' \subseteq Writer
        BY DEF Dropped
      <4>3. Cardinality(Dropped') \in Nat
        BY <4>2, ConstantsAssumption, FS_Subset, FS_CardinalityType
      <4> QED BY <4>1, <4>3
    <3>3. failed_writes + 1 \in 0..UINT_MAX
      BY <1>1, <1>2, <3>2 DEF NoWrap
    <3>4. ASSUME NEW n \in Nat \ {0}, NEW a \in 0..(n - 1) PROVE a % n = a
      OBVIOUS
    <3>5. inc(failed_writes) = failed_writes + 1
      BY <1>1, <3>3, <3>4 DEF inc
    <3> QED BY <1>1, <1>2, <2>2, <3>1, <3>2, <3>5
  <2> QED BY <2>3, <2>4, <2>5, <2>6
<1>7. CASE \E w \in Writer : take_slot(w)
  <2> PICK w \in Writer : take_slot(w)
    BY <1>7
  <2>1. Recorded' = Recorded
    <3> DEFINE p == Len(Dequeued) + Taken + 1
    <3>1. /\ DOMAIN Log' = 1..p /\ DOMAIN Log = 1..(Len(Dequeued) + Taken)
          /\ \A i \in DOMAIN Log : i \in DOMAIN Log' /\ Log'[i] = Log[i]
          /\ Log'[p] = Nothing /\ Len(Dequeued) \in Nat /\ Taken \in Nat
      BY <1>4, LogTake DEF LogOK
    <3>2. \A i \in DOMAIN Log' : i \in DOMAIN Log \/ Log'[i] = Nothing
      BY <3>1
    <3> HIDE DEF p
    <3> QED BY <3>1, <3>2 DEF Recorded
  <2>2. at[w] = "reserved" /\ at' = [at EXCEPT ![w] = "taken"] /\ ts_seq_no' = ts_seq_no /\ failed_writes' = failed_writes
    BY DEF take_slot
  <2>3. Cardinality(Recording') = A /\ Cardinality(Dropped') = D
    <3>1. /\ Cardinality(Recording') = A + Works("taken") - Works(at[w])
          /\ Cardinality(Dropped') = D + Drops("taken") - Drops(at[w])
      BY <1>4, <2>2, MoveOn DEF A, D
    <3> QED BY <1>1, <2>2, <3>1 DEF Works, Drops
  <2>4. Cardinality(Recorded') = R
    BY <2>1 DEF R
  <2> QED BY <1>2, <2>2, <2>3, <2>4
<1>8. CASE \E w \in Writer : finish_write(w)
  <2> PICK w \in Writer : finish_write(w)
    BY <1>8
  <2> DEFINE r == [writer |-> w, seq_no |-> seq_no[w]]
  <2>1. PICK p \in DOMAIN Log : /\ DOMAIN Log' = DOMAIN Log
                                /\ Log[p] = Nothing /\ Log'[p] = r
                                /\ \A i \in DOMAIN Log : i # p => Log'[i] = Log[i]
    BY LogFinish
  <2>2. r # Nothing /\ r.seq_no = seq_no[w]
    BY ConstantsAssumption DEF IInv, TypeOK, Record
  <2>3. w \in Active
    BY DEF finish_write, Active
  <2> HIDE DEF r
  <2>4. Recorded' = Recorded \cup {r}
    BY <2>1, <2>2 DEF Recorded
  <2>5. r \notin Recorded
    <3> SUFFICES ASSUME NEW i \in DOMAIN Log, Log[i] = r PROVE FALSE
      BY DEF Recorded
    <3> QED BY <2>2, <2>3 DEF Numbered, Older
  <2>6. Cardinality(Recorded') = R + 1
    BY <2>4, <2>5, RecordedSet, FS_AddElement DEF R
  <2>7. at[w] = "filled" /\ at' = [at EXCEPT ![w] = "idle"] /\ ts_seq_no' = ts_seq_no /\ failed_writes' = failed_writes
    BY DEF finish_write, return_from_event
  <2>8. Cardinality(Recording') = A - 1 /\ Cardinality(Dropped') = D
    <3>1. /\ Cardinality(Recording') = A + Works("idle") - Works(at[w])
          /\ Cardinality(Dropped') = D + Drops("idle") - Drops(at[w])
      BY <1>4, <2>7, MoveOn DEF A, D
    <3> QED BY <1>1, <2>7, <3>1 DEF Works, Drops
  <2> QED BY <1>1, <1>2, <2>6, <2>7, <2>8
<1>9. CASE \/ \E n \in 1..MaxRead, e \in BOOLEAN : ftdev_read(n, e)
           \/ check_empty \/ check_marker \/ copy_to_user \/ free_slot \/ advance
           \/ \E n \in FaultBytes : page_fault(n)
           \/ return_slot \/ timeout \/ signal
  <2>1. Recorded' = Recorded
    <3>1. CASE advance
      BY <3>1, LogAdvance DEF Recorded
    <3>2. CASE ~advance
      BY <1>5, <1>9, <3>2, ReaderQuiet, ReaderStep, FreeSlotStep
    <3> QED BY <3>1, <3>2
  <2>2. UNCHANGED <<ts_seq_no, at, failed_writes>>
    BY <1>9 DEF ftdev_read, check_empty, check_marker, copy_to_user, free_slot, page_fault, advance,
                return_slot, timeout, signal, buffer, writers
  <2>3. Recording' = Recording /\ Dropped' = Dropped
    BY <2>2 DEF Recording, Dropped
  <2> QED BY <1>2, <2>1, <2>2, <2>3 DEF R, A, D
<1> QED
  BY <1>6, <1>7, <1>8, <1>9 DEF Next, WriterStep, CopyStep

-----------------------------------------------------------------------------
(* What the user has received is the beginning of Log.                     *)

\* The records of the user, and those that wait for him, in Log.
LEMMA LogPrefix ==
  ASSUME IInv, Contents, Numbered
  PROVE  /\ \A i \in 1..Len(to) : i \in DOMAIN Log /\ to[i] = Log[i] /\ Log[i] # Nothing
         /\ Delivered = {Log[i] : i \in 1..Len(Dequeued)}
         /\ Unread \cup Leaving = {Log[i] : i \in (Len(Dequeued) + 1)..(Len(Dequeued) + Taken)} \ {Nothing}
<1> DEFINE d == Len(Dequeued)
           t == to
           S == Record \cup {Nothing, Damaged}
           Rest == (d + 1)..(d + Taken)
<1>1. LogOK /\ QueueOK /\ slot_count \in Nat
  BY LogType, QueueType, Numbers
<1>2. d \in Nat /\ Taken \in Nat /\ DOMAIN Log = 1..(d + Taken)
  BY <1>1 DEF LogOK
<1>3. t \in Seq(S)
  BY DEF IInv, TypeOK
<1>4. /\ \A i \in 1..d : i \in DOMAIN Log /\ Log[i] = Dequeued[i]
      /\ \A i \in Rest : i \in DOMAIN Log /\ Log[i] = queue[i - d] /\ i - d \in 1..Taken
  BY <1>1, <1>2 DEF LogOK
<1>5. Delivered = {Log[i] : i \in 1..d}
  BY <1>4 DEF Delivered
<1>6. \A k \in 1..Taken : Place(k - 1) \in Slot /\ k - 1 \in 0..(Taken - 1) /\ (k = 1 => k - 1 = 0)
  BY <1>1, <1>2 DEF QueueOK
<1>7. \A k \in 1..Taken : queue[k] = IF slots[Place(k - 1)] = "READY" \/ (k = 1 /\ rd = "advance")
                                     THEN buffer_mem[Place(k - 1)] ELSE Nothing
  BY DEF queue
<1>8. \A s \in Slot : slots[s] = "READY" => buffer_mem[s] # Nothing
  BY ConstantsAssumption DEF Contents
<1>9. rd \in {"free", "advance"} =>
         /\ d + 1 = Len(t) /\ \A i \in 1..d : t[i] = Dequeued[i]
         /\ d + 1 \in Rest /\ t[Len(t)] = Log[d + 1] /\ Log[d + 1] # Nothing
  <2> SUFFICES ASSUME rd \in {"free", "advance"}
               PROVE  /\ d + 1 = Len(t) /\ \A i \in 1..d : t[i] = Dequeued[i]
                      /\ d + 1 \in Rest /\ t[Len(t)] = Log[d + 1] /\ Log[d + 1] # Nothing
    OBVIOUS
  <2>1. t # << >> /\ t[Len(t)] = buffer_mem[Place(0)] /\ buffer_mem[Place(0)] # Nothing
    BY ConstantsAssumption DEF Contents
  <2>2. Taken >= 1 /\ (slots[Place(0)] = "READY" \/ rd = "advance")
    BY DEF IInv, Reading
  <2>3. 1 \in 1..Taken /\ 1 - 1 = 0 /\ d + 1 \in Rest /\ (d + 1) - d = 1
    BY <1>2, <2>2
  <2>4. queue[1] = buffer_mem[Place(0)]
    BY <1>7, <2>2, <2>3
  <2>5. Log[d + 1] = buffer_mem[Place(0)]
    BY <1>4, <2>3, <2>4
  <2>6. Dequeued = SubSeq(t, 1, Len(t) - 1)
    BY DEF Dequeued
  <2>7. Len(t) >= 1 /\ Len(SubSeq(t, 1, Len(t) - 1)) = Len(t) - 1
        /\ \A i \in 1..(Len(t) - 1) : SubSeq(t, 1, Len(t) - 1)[i] = t[i]
    <3> HIDE DEF t, S
    <3>1. Len(t) >= 1
      BY <1>3, <2>1
    <3>2. Len(t) - 1 <= Len(t) /\ Len(t) \in Nat
      BY <1>3
    <3>3. t = Append(SubSeq(t, 1, Len(t) - 1), t[Len(t)])
      BY <1>3, <2>1, SubSeqFull, SubSeqRecursiveSecond, LenProperties
    <3>4. SubSeq(t, 1, Len(t) - 1) \in Seq(S) /\ t[Len(t)] \in S
      BY <1>3, <3>1, <3>2
    <3>5. ASSUME NEW q \in Seq(S), NEW x \in S, t = Append(q, x)
          PROVE  Len(q) = Len(t) - 1 /\ \A i \in 1..(Len(t) - 1) : q[i] = t[i]
      BY <3>5
    <3> QED BY <3>1, <3>3, <3>4, <3>5
  <2>8. d = Len(t) - 1 /\ \A i \in 1..d : t[i] = Dequeued[i]
    BY <2>6, <2>7
  <2>9. d + 1 = Len(t)
    BY <1>2, <2>7, <2>8
  <2> QED BY <2>1, <2>3, <2>5, <2>8, <2>9
<1>10. rd \notin {"free", "advance"} => Dequeued = t
  BY DEF Dequeued
<1>11. ASSUME NEW i \in 1..Len(t) PROVE i \in DOMAIN Log /\ t[i] = Log[i] /\ Log[i] # Nothing
  <2>1. CASE rd \in {"free", "advance"}
    <3>1. i \in 1..d \/ i = d + 1
      BY <1>2, <1>9, <2>1
    <3> QED BY <1>4, <1>9, <2>1, <3>1 DEF Numbered
  <2>2. CASE rd \notin {"free", "advance"}
    BY <1>4, <1>10, <2>2 DEF Numbered
  <2> QED BY <2>1, <2>2
<1>12. Leaving = IF rd = "advance" THEN {Log[d + 1]} ELSE {}
  BY <1>9 DEF Leaving
<1>13. ASSUME NEW i \in Rest, Log[i] # Nothing PROVE Log[i] \in Unread \cup Leaving
  <2>1. i - d \in 1..Taken /\ Log[i] = queue[i - d] /\ (i - d = 1 => i = d + 1)
    BY <1>2, <1>4
  <2>2. CASE slots[Place((i - d) - 1)] = "READY"
    BY <1>6, <1>7, <2>1, <2>2 DEF Unread
  <2>3. CASE i - d = 1 /\ rd = "advance"
    BY <1>12, <2>1, <2>3
  <2> QED BY <1>7, <1>13, <2>1, <2>2, <2>3
<1>14. ASSUME NEW r \in Unread PROVE r # Nothing /\ \E i \in Rest : Log[i] = r
  <2>1. PICK k \in 0..(Taken - 1) : Place(k) \in Slot /\ slots[Place(k)] = "READY" /\ r = buffer_mem[Place(k)]
    BY DEF Unread
  <2>2. /\ k + 1 \in 1..Taken /\ (k + 1) - 1 = k
        /\ d + (k + 1) \in Rest /\ (d + (k + 1)) - d = k + 1
    BY <1>2
  <2>3. queue[k + 1] = r
    BY <1>7, <2>1, <2>2
  <2>4. Log[d + (k + 1)] = queue[k + 1]
    BY <1>4, <2>2
  <2> QED BY <1>8, <2>1, <2>2, <2>3, <2>4
<1>15. Unread \cup Leaving = {Log[i] : i \in Rest} \ {Nothing}
  <2>1. Leaving \subseteq {Log[i] : i \in Rest} \ {Nothing}
    BY <1>9, <1>12
  <2> HIDE DEF Rest, d
  <2> QED BY <1>13, <1>14, <2>1
<1> QED BY <1>5, <1>11, <1>15

\* The invariants say what Accounted asks for.
LEMMA NumbersAccount == IInv /\ Contents /\ Numbered /\ Counted => Accounted
<1> SUFFICES ASSUME IInv, Contents, Numbered, Counted PROVE Accounted
  OBVIOUS
<1> DEFINE d == Len(Dequeued)
           Rest == (d + 1)..(d + Taken)
<1>1. LogOK /\ d \in Nat /\ Taken \in Nat /\ DOMAIN Log = 1..(d + Taken)
  BY LogType DEF LogOK
<1>2. /\ \A i \in 1..Len(to) : i \in DOMAIN Log /\ to[i] = Log[i] /\ Log[i] # Nothing
      /\ Delivered = {Log[i] : i \in 1..d}
      /\ Unread \cup Leaving = {Log[i] : i \in Rest} \ {Nothing}
  BY LogPrefix
<1>3. ASSUME NEW i \in 1..Len(to), NEW j \in 1..Len(to), i < j
      PROVE  /\ to[i].seq_no # to[j].seq_no
             /\ to[i].writer = to[j].writer => to[i].seq_no < to[j].seq_no
  BY <1>2, <1>3 DEF Numbered
<1>4. ASSUME NEW i \in 1..Len(to), NEW j \in 1..Len(to), i # j
      PROVE  to[i].seq_no # to[j].seq_no
  <2>1. i \in Int /\ j \in Int
    OBVIOUS
  <2> QED BY <1>3, <1>4, <2>1
<1>5. Delivered \cap Unread = {}
  <2> SUFFICES ASSUME NEW i \in 1..d, NEW j \in Rest, Log[i] = Log[j], Log[j] # Nothing PROVE FALSE
    BY <1>2
  <2>1. i \in DOMAIN Log /\ j \in DOMAIN Log /\ i < j
    BY <1>1
  <2> QED BY <2>1 DEF Numbered
<1>6. Delivered \cup Unread \cup Leaving = Recorded
  <2>1. \A i \in DOMAIN Log : i \in 1..d \/ i \in Rest
    BY <1>1
  <2>2. \A i \in 1..d : i \in DOMAIN Log
    BY <1>1
  <2>3. \A i \in Rest : i \in DOMAIN Log
    BY <1>1
  <2>4. \A i \in 1..d : Log[i] # Nothing
    BY <1>1 DEF LogOK, Numbered
  <2> HIDE DEF d, Rest
  <2>5. Recorded = Delivered \cup (Unread \cup Leaving)
    BY <1>2, <2>1, <2>2, <2>3, <2>4 DEF Recorded
  <2> QED BY <2>5
<1>7. Cardinality(Delivered \cup Unread \cup Leaving)
       + Cardinality(Recording)
       + Cardinality({w \in Writer : at[w] = "dropped"}) + failed_writes = ts_seq_no
  BY <1>6 DEF Counted
<1> QED BY <1>3, <1>4, <1>5, <1>7 DEF Accounted

\* No event was recorded yet.
LEMMA InitNumbered == Init => Numbered /\ Counted
<1> SUFFICES ASSUME Init PROVE Numbered /\ Counted
  OBVIOUS
<1>1. Taken = 0 /\ Dequeued = << >>
  BY InitContents
<1>2. DOMAIN Log = {}
  <2>1. Len(Dequeued) + Taken = 0
    BY <1>1
  <2> QED BY <2>1 DEF Log
<1>3. Active = {} /\ Recording = {} /\ Recorded = {} /\ {w \in Writer : at[w] = "dropped"} = {}
  BY <1>2 DEF Init, Active, Recording, Recorded
<1>4. Numbered
  BY <1>1, <1>2, <1>3 DEF Numbered
<1>5. Counted
  <2>1. Cardinality(Recorded) = 0 /\ Cardinality(Recording) = 0 /\ Cardinality({w \in Writer : at[w] = "dropped"}) = 0
    BY <1>3, FS_EmptySet, Zenon
  <2>2. failed_writes = 0 /\ ts_seq_no = 0
    BY DEF Init
  <2> QED BY <2>1, <2>2 DEF Counted
<1> QED BY <1>4, <1>5

\* Both are kept when nothing happens.
LEMMA NumberedStutter ==
  ASSUME IInv, IInv', Contents, Numbered, Counted, UNCHANGED vars
  PROVE  Numbered' /\ Counted'
<1>1. Taken' = Taken /\ queue' = queue /\ Dequeued' = Dequeued
  BY Stuttering
<1>2. Log' = Log
  BY <1>1 DEF Log
<1>3. UNCHANGED <<ts_seq_no, at, seq_no, idx, read_idx, failed_writes>> /\ ts_seq_no \in Nat
  BY DEF vars, buffer, writers, IInv, TypeOK
<1>4. Active' = Active /\ Holding' = Holding /\ Recording' = Recording /\ Recorded' = Recorded
  BY <1>2, <1>3 DEF Active, Holding, Recording, Recorded
<1>5. Numbered'
  BY <1>1, <1>2, <1>3, <1>4, LogType, NumberedKept
<1>6. Counted'
  BY <1>3, <1>4 DEF Counted
<1> QED BY <1>5, <1>6

\* No event is lost without being counted, no record is invented or read
\* twice, and the records of one context reach the user in the order of its
\* events, for any number of contexts and however they interrupt each other.
THEOREM Accountability ==
  ASSUME FaultsSeen, NoWrap
  PROVE  Spec => []Accounted
<1>1. Init => Numbered /\ Counted
  BY InitNumbered
<1>2. (IInv /\ Contents) /\ (IInv /\ Contents)' /\ (Numbered /\ Counted) /\ [Next]_vars => (Numbered /\ Counted)'
  BY NumberedStep, CountedStep, NumberedStutter
<1>3. IInv /\ Contents /\ Numbered /\ Counted => Accounted
  BY NumbersAccount
<1> QED BY <1>1, <1>2, <1>3, ContentsInvariance, PTL DEF Spec
=============================================================================
