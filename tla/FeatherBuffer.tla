---------------------------- MODULE FeatherBuffer ---------------------------
(***************************************************************************)
(* The wait-free buffer of Feather-Trace (include/litmus/feather_buffer.h) *)
(* with its writers, the timestamp callbacks of litmus/trace.c, and its    *)
(* reader, the read() of litmus/ftdev.c.                                   *)
(*                                                                         *)
(* A writer is an execution context (a task, an interrupt) that records    *)
(* events; contexts interrupt each other anywhere and run on any           *)
(* processor.  Every access to the shared words is a step of its own.  The *)
(* reader is exclusive: ftdev_read() holds the mutex of the minor device.  *)
(* The model is sequentially consistent: fetch_and_inc() and               *)
(* fetch_and_dec() are locked instructions that order memory, and x86      *)
(* keeps stores in order.                                                  *)
(*                                                                         *)
(* A record stands for a struct timestamp: who wrote it and its seq_no.    *)
(***************************************************************************)
EXTENDS Integers, Sequences, FiniteSets

CONSTANTS
  Writer,      \* contexts that record events
  slot_count,  \* size of the buffer
  UINT_MAX,    \* write_idx and read_idx wrap around after this value
  MaxEvents,   \* bound: number of events recorded
  MaxRead,     \* bound: records requested by one read()
  FaultBytes,  \* how many bytes a faulting copy_to_user() leaves uncopied
  Nothing,     \* the contents of a slot that was never filled
  Damaged      \* a record of which the user has received only a part

Slot == 0..(slot_count - 1)
Index == 0..UINT_MAX
Record == [writer : Writer, seq_no : 0..(MaxEvents - 1)]

\* The slot counts that init_ft_buffer() accepts.
valid_slot_count == slot_count # 0 /\ UINT_MAX % slot_count = slot_count - 1

ASSUME ConstantsAssumption ==
  /\ IsFiniteSet(Writer)
  /\ slot_count \in Nat /\ UINT_MAX \in Nat /\ valid_slot_count
  /\ MaxEvents \in Nat \ {0} /\ MaxRead \in Nat
  /\ FaultBytes \subseteq Nat \ {0}
  /\ Nothing \notin Record /\ Damaged \notin Record

VARIABLES
  free_count,     \* slots not taken, less the writers about to give up
  write_idx,      \* next slot to take, modulo UINT_MAX + 1
  read_idx,       \* next slot to read, modulo UINT_MAX + 1
  slots,          \* the marker of every slot
  buffer_mem,     \* the contents of every slot
  failed_writes,  \* events dropped
  ts_seq_no,      \* next sequence number
  at,             \* at[w]: what writer w does next
  seq_no,         \* seq_no[w]: sequence number of w's current event
  idx,            \* idx[w]: the slot w has taken
  rd,             \* what the reader does next
  left,           \* records the current read() may still copy
  err,            \* records the current read() has counted as copied
  events,         \* does the minor device have enabled events?
  to              \* what read() has put into the user's memory

buffer == <<free_count, write_idx, read_idx, slots, buffer_mem, failed_writes>>
writers == <<ts_seq_no, at, seq_no, idx>>
reader == <<rd, left, err, events, to>>
vars == <<buffer, writers, reader>>

\* Unsigned increment.
inc(i) == (i + 1) % (UINT_MAX + 1)

slot(i) == i % slot_count

Init ==
  /\ free_count = slot_count
  /\ write_idx = 0 /\ read_idx = 0 /\ failed_writes = 0
  /\ slots = [s \in Slot |-> "FREE"]
  /\ buffer_mem = [s \in Slot |-> Nothing]
  /\ ts_seq_no = 0
  /\ at = [w \in Writer |-> "idle"]
  /\ seq_no = [w \in Writer |-> 0]
  /\ idx = [w \in Writer |-> 0]
  /\ rd = "idle" /\ left = 0 /\ err = 0 /\ events = FALSE /\ to = << >>

-----------------------------------------------------------------------------
(* A writer.                                                               *)

\* An event fires; its callback draws a sequence number.
save_timestamp(w) ==
  /\ at[w] = "idle"
  /\ ts_seq_no < MaxEvents
  /\ seq_no' = [seq_no EXCEPT ![w] = ts_seq_no]
  /\ ts_seq_no' = ts_seq_no + 1
  /\ at' = [at EXCEPT ![w] = "start_write"]
  /\ UNCHANGED <<buffer, idx, reader>>

\* The callback returns; its local variables are gone.
return_from_event(w) ==
  /\ at' = [at EXCEPT ![w] = "idle"]
  /\ seq_no' = [seq_no EXCEPT ![w] = 0]
  /\ idx' = [idx EXCEPT ![w] = 0]

\* Mutant: off by one.
available_zero(free) == free >= 0

\* The test of start_write(): is there a free slot?
available(free) == free > 0

start_write(w) ==
  /\ at[w] = "start_write"
  /\ free_count' = free_count - 1
  /\ at' = [at EXCEPT ![w] = IF available(free_count) THEN "reserved" ELSE "failed"]
  /\ UNCHANGED <<write_idx, read_idx, slots, buffer_mem, failed_writes>>
  /\ UNCHANGED <<ts_seq_no, seq_no, idx, reader>>

\* Mutant: the writer that gives up keeps its decrement.
give_back_forgotten(w) ==
  /\ at[w] = "failed"
  /\ at' = [at EXCEPT ![w] = "dropped"]
  /\ UNCHANGED <<buffer, ts_seq_no, seq_no, idx, reader>>

give_back(w) ==
  /\ at[w] = "failed"
  /\ free_count' = free_count + 1
  /\ at' = [at EXCEPT ![w] = "dropped"]
  /\ UNCHANGED <<write_idx, read_idx, slots, buffer_mem, failed_writes>>
  /\ UNCHANGED <<ts_seq_no, seq_no, idx, reader>>

count_failure(w) ==
  /\ at[w] = "dropped"
  /\ failed_writes' = inc(failed_writes)
  /\ return_from_event(w)
  /\ UNCHANGED <<free_count, write_idx, read_idx, slots, buffer_mem>>
  /\ UNCHANGED <<ts_seq_no, reader>>

take_slot(w) ==
  /\ at[w] = "reserved"
  /\ idx' = [idx EXCEPT ![w] = slot(write_idx)]
  /\ write_idx' = inc(write_idx)
  /\ at' = [at EXCEPT ![w] = "taken"]
  /\ UNCHANGED <<free_count, read_idx, slots, buffer_mem, failed_writes>>
  /\ UNCHANGED <<ts_seq_no, seq_no, reader>>

\* Mutant: the slot is announced before it is filled.
mark_busy_ready(w) ==
  /\ at[w] = "taken"
  /\ slots' = [slots EXCEPT ![idx[w]] = "READY"]
  /\ at' = [at EXCEPT ![w] = "busy"]
  /\ UNCHANGED <<free_count, write_idx, read_idx, buffer_mem, failed_writes>>
  /\ UNCHANGED <<ts_seq_no, seq_no, idx, reader>>

mark_busy(w) ==
  /\ at[w] = "taken"
  /\ slots' = [slots EXCEPT ![idx[w]] = "BUSY"]
  /\ at' = [at EXCEPT ![w] = "busy"]
  /\ UNCHANGED <<free_count, write_idx, read_idx, buffer_mem, failed_writes>>
  /\ UNCHANGED <<ts_seq_no, seq_no, idx, reader>>

fill(w) ==
  /\ at[w] = "busy"
  /\ buffer_mem' = [buffer_mem EXCEPT ![idx[w]] = [writer |-> w, seq_no |-> seq_no[w]]]
  /\ at' = [at EXCEPT ![w] = "filled"]
  /\ UNCHANGED <<free_count, write_idx, read_idx, slots, failed_writes>>
  /\ UNCHANGED <<ts_seq_no, seq_no, idx, reader>>

finish_write(w) ==
  /\ at[w] = "filled"
  /\ slots' = [slots EXCEPT ![idx[w]] = "READY"]
  /\ return_from_event(w)
  /\ UNCHANGED <<free_count, write_idx, read_idx, buffer_mem, failed_writes>>
  /\ UNCHANGED <<ts_seq_no, reader>>

-----------------------------------------------------------------------------
(* The reader.                                                             *)

\* read() of n records, with the mutex taken; the events that are enabled
\* cannot change before it returns.
ftdev_read(n, e) ==
  /\ rd = "idle"
  /\ rd' = "check" /\ left' = n /\ err' = 0 /\ events' = e
  /\ UNCHANGED <<buffer, writers, to>>

\* read() returns; its local variables are gone.
return_to_user == rd' = "idle" /\ left' = 0 /\ err' = 0 /\ events' = FALSE

\* What ftdev_read() does when ft_buffer_copy_to_user() returns `copied'.
after_copy(copied) ==
  \/ /\ copied = 1 /\ left > 1
     /\ rd' = "check" /\ left' = left - 1 /\ err' = err + 1 /\ UNCHANGED events
  \/ /\ copied = 0 /\ err = 0 /\ events
     /\ rd' = "wait" /\ UNCHANGED <<left, err, events>>
  \/ /\ IF copied = 1 THEN left = 1 ELSE ~(copied = 0 /\ err = 0 /\ events)
     /\ return_to_user

\* Mutant: off by one.
seems_empty_early == free_count >= slot_count - 1

\* free_count says that the buffer is empty.
seems_empty == free_count = slot_count

check_empty ==
  /\ rd = "check"
  /\ IF seems_empty
     THEN after_copy(0)
     ELSE rd' = "marker" /\ UNCHANGED <<left, err, events>>
  /\ UNCHANGED <<buffer, writers, to>>

check_marker ==
  /\ rd = "marker"
  /\ IF slots[slot(read_idx)] = "READY"
     THEN rd' = "copy" /\ UNCHANGED <<left, err, events>>
     ELSE after_copy(0)
  /\ UNCHANGED <<buffer, writers, to>>

copy_to_user ==
  /\ rd = "copy"
  /\ to' = Append(to, buffer_mem[slot(read_idx)])
  /\ rd' = "free"
  /\ UNCHANGED <<buffer, writers, left, err, events>>

\* copy_to_user() leaves n bytes uncopied and returns n.  With n = 1 the
\* caller takes that for success, and the user finds a damaged record and
\* later the same record again.
page_fault(n) ==
  /\ rd = "copy"
  /\ after_copy(n)
  /\ to' = IF n = 1 THEN Append(to, Damaged) ELSE to
  /\ UNCHANGED <<buffer, writers>>

\* Mutant: the marker of a slot that was read stays READY.
free_slot_unmarked ==
  /\ rd = "free"
  /\ rd' = "advance"
  /\ UNCHANGED <<buffer, writers, left, err, events, to>>

free_slot ==
  /\ rd = "free"
  /\ slots' = [slots EXCEPT ![slot(read_idx)] = "FREE"]
  /\ rd' = "advance"
  /\ UNCHANGED <<free_count, write_idx, read_idx, buffer_mem, failed_writes>>
  /\ UNCHANGED <<writers, left, err, events, to>>

advance ==
  /\ rd = "advance"
  /\ read_idx' = inc(read_idx)
  /\ rd' = "return"
  /\ UNCHANGED <<free_count, write_idx, slots, buffer_mem, failed_writes>>
  /\ UNCHANGED <<writers, left, err, events, to>>

return_slot ==
  /\ rd = "return"
  /\ free_count' = free_count + 1
  /\ after_copy(1)
  /\ UNCHANGED <<write_idx, read_idx, slots, buffer_mem, failed_writes>>
  /\ UNCHANGED <<writers, to>>

\* The reader sleeps for 50 ticks and tries again, or a signal ends the call.
timeout ==
  /\ rd = "wait"
  /\ rd' = "check"
  /\ UNCHANGED <<buffer, writers, left, err, events, to>>

signal ==
  /\ rd = "wait"
  /\ return_to_user
  /\ UNCHANGED <<buffer, writers, to>>

-----------------------------------------------------------------------------
WriterStep(w) ==
  \/ start_write(w) \/ give_back(w) \/ count_failure(w)
  \/ take_slot(w) \/ mark_busy(w) \/ fill(w) \/ finish_write(w)

CopyStep ==
  \/ check_empty \/ check_marker \/ copy_to_user
  \/ free_slot \/ advance \/ return_slot

Next ==
  \/ \E w \in Writer : save_timestamp(w) \/ WriterStep(w)
  \/ \E n \in 1..MaxRead, e \in BOOLEAN : ftdev_read(n, e)
  \/ CopyStep
  \/ \E n \in FaultBytes : page_fault(n)
  \/ timeout \/ signal

Spec == Init /\ [][Next]_vars

\* Contexts that have begun to record an event go on, the user keeps calling
\* read(), and read() itself goes on: its steps do not wait for anybody.  A
\* copy that is tried again and again does not always fault.
FairSpec ==
  /\ Spec
  /\ \A w \in Writer : WF_vars(WriterStep(w))
  /\ WF_vars(\E n \in 1..MaxRead, e \in BOOLEAN : ftdev_read(n, e))
  /\ WF_vars(CopyStep) /\ WF_vars(timeout) /\ SF_vars(copy_to_user)

-----------------------------------------------------------------------------
(* Properties.                                                             *)

TypeOK ==
  /\ free_count \in Int
  /\ write_idx \in Index /\ read_idx \in Index /\ failed_writes \in Index
  /\ slots \in [Slot -> {"FREE", "BUSY", "READY"}]
  /\ buffer_mem \in [Slot -> Record \cup {Nothing}]
  /\ ts_seq_no \in 0..MaxEvents
  /\ at \in [Writer -> {"idle", "start_write", "failed", "dropped",
                        "reserved", "taken", "busy", "filled"}]
  /\ seq_no \in [Writer -> 0..(MaxEvents - 1)]
  /\ idx \in [Writer -> Slot]
  /\ rd \in {"idle", "check", "marker", "copy", "free", "advance", "return", "wait"}
  /\ left \in 0..MaxRead /\ err \in 0..MaxRead /\ events \in BOOLEAN
  /\ to \in Seq(Record \cup {Nothing, Damaged})

\* Writers whose decrement of free_count does not stand for a slot in use
\* yet, or never will.
Reserved == {w \in Writer : at[w] = "reserved"}
Failed == {w \in Writer : at[w] = "failed"}

\* Writers between start_write() and finish_write() that hold a slot.
Holding == {w \in Writer : at[w] \in {"taken", "busy", "filled"}}

\* The reader has dequeued a slot but not counted it yet.
Returning == IF rd = "return" THEN 1 ELSE 0

\* Number of slots between read_idx and write_idx.
Taken == slot_count - free_count - Cardinality(Reserved) - Cardinality(Failed) - Returning

\* The slot `k' places behind the oldest one.
Place(k) == slot(read_idx + k)

\* A slot belongs to one writer, or to the reader, or to nobody: no context
\* writes a slot between the start_write() and the finish_write() of another
\* one, nor while ft_buffer_copy_to_user() copies it or marks it free.
SlotExclusive ==
  /\ \A v, w \in Holding : v # w => idx[v] # idx[w]
  /\ rd \in {"copy", "free", "advance"} => \A w \in Holding : idx[w] # slot(read_idx)

\* free_count is exact once the writers in flight are discounted: the slots
\* it does not count as free are those from read_idx to write_idx, never
\* more than there are, with the unread ones marked and the others FREE.
Occupancy ==
  /\ Taken \in 0..slot_count
  /\ slot(write_idx) = Place(Taken)
  /\ \A k \in Slot :
       slots[Place(k)] = "FREE" <=>
         \/ k >= Taken
         \/ \E w \in Writer : at[w] = "taken" /\ idx[w] = Place(k)
         \/ k = 0 /\ rd = "advance"

\* The records that wait in the buffer to be read.
Unread == {buffer_mem[s] : s \in {Place(k) : k \in 0..(Taken - 1)} \cap {s \in Slot : slots[s] = "READY"}}

\* What the user has received, without the record the reader still has to
\* dequeue.
Dequeued == IF rd \in {"free", "advance"} THEN SubSeq(to, 1, Len(to) - 1) ELSE to
Delivered == {Dequeued[i] : i \in 1..Len(Dequeued)}

\* The record that has been copied but is still in the buffer.
Leaving == IF rd = "advance" THEN {to[Len(to)]} ELSE {}

\* Writers whose event is neither dropped nor published yet.
Recording == {w \in Writer : at[w] \notin {"idle", "dropped"}}

\* Every sequence number that was drawn is accounted for exactly once: its
\* record was delivered, or waits in the buffer, or its writer is at it, or
\* failed_writes counts it.  No record is lost, invented or read twice, and
\* the records of one context reach the user in the order of its events.
Accounted ==
  /\ \A i, j \in 1..Len(to) : i # j => to[i].seq_no # to[j].seq_no
  /\ Delivered \cap Unread = {}
  /\ Cardinality(Delivered \cup Unread \cup Leaving)
       + Cardinality(Recording)
       + Cardinality({w \in Writer : at[w] = "dropped"}) + failed_writes = ts_seq_no
  /\ \A i, j \in 1..Len(to) :
       i < j /\ to[i].writer = to[j].writer => to[i].seq_no < to[j].seq_no

\* The buffer implements a bounded queue.
queue == [k \in 1..Taken |->
            IF slots[Place(k - 1)] = "READY" \/ (k = 1 /\ rd = "advance")
            THEN buffer_mem[Place(k - 1)] ELSE Nothing]

Abstract == INSTANCE TraceFIFO WITH
  Pending <- Nothing, Capacity <- slot_count, delivered <- Dequeued

\* ft_buffer_start_write(), ft_buffer_finish_write() and
\* ft_buffer_copy_to_user() together behave like a bounded queue whose order
\* is fixed when a slot is taken.
ImplementsFIFO == Abstract!Spec

\* As long as the user keeps reading, every slot a writer has filled is
\* emptied, although free_count may be too low while writers give up.
Drained == \A s \in Slot : slots[s] = "READY" ~> slots[s] # "READY"

-----------------------------------------------------------------------------
(* The inductive invariant behind SlotExclusive and Occupancy.             *)

\* The writers that were promised a slot will find one.
Promised == Taken >= 0 /\ free_count + Cardinality(Failed) >= 0

\* Every slot that is held lies between read_idx and write_idx and carries
\* the marker its holder has set.
Held ==
  \A w \in Holding :
    /\ \E k \in Slot : k < Taken /\ idx[w] = Place(k)
    /\ slots[idx[w]] = IF at[w] = "taken" THEN "FREE" ELSE "BUSY"

\* The slot being read was filled and not dequeued yet.
Reading ==
  /\ rd \in {"copy", "free"} => Taken >= 1 /\ slots[Place(0)] = "READY"
  /\ rd = "advance" => Taken >= 1 /\ slots[Place(0)] = "FREE"

\* read() never counts more than it was asked for.
Counting ==
  /\ rd = "idle" => left = 0 /\ err = 0
  /\ rd # "idle" => left >= 1 /\ left + err <= MaxRead

IInv == TypeOK /\ Promised /\ Occupancy /\ SlotExclusive /\ Held /\ Reading /\ Counting

-----------------------------------------------------------------------------
(* The invariants behind ImplementsFIFO and Accounted, if copy_to_user()   *)
(* never leaves exactly one byte uncopied.                                 *)

\* A marker READY, a finished fill() and a finished copy can be relied upon.
Contents ==
  /\ \A s \in Slot : slots[s] = "READY" => buffer_mem[s] \in Record
  /\ \A w \in Writer : at[w] = "filled" =>
       buffer_mem[idx[w]] = [writer |-> w, seq_no |-> seq_no[w]]
  /\ rd \in {"free", "advance"} =>
       /\ to # << >> /\ to[Len(to)] = buffer_mem[Place(0)]
       /\ buffer_mem[Place(0)] \in Record

\* All places that were ever taken, oldest first.
Log == [i \in 1..(Len(Dequeued) + Taken) |->
          IF i <= Len(Dequeued) THEN Dequeued[i] ELSE queue[i - Len(Dequeued)]]

Active == {w \in Writer : at[w] # "idle"}

\* The record in place i is older than what a writer is at, and before it.
Older(i) ==
  /\ Log[i] \in Record /\ Log[i].seq_no < ts_seq_no
  /\ \A w \in Active : Log[i].seq_no # seq_no[w]
  /\ \A w \in Active : Log[i].writer = w => Log[i].seq_no < seq_no[w]
  /\ \A w \in Holding, k \in 0..(Taken - 1) :
       Log[i].writer = w /\ idx[w] = Place(k) => i <= Len(Dequeued) + k

\* A sequence number is used once, by a record or by a writer, and the records
\* of one writer are in order.
Numbered ==
  /\ \A w \in Active : seq_no[w] < ts_seq_no
  /\ \A v, w \in Active : v # w => seq_no[v] # seq_no[w]
  /\ \A i \in 1..Len(Dequeued) : Dequeued[i] # Nothing
  /\ \A i \in DOMAIN Log : Log[i] # Nothing => Older(i)
  /\ \A i, j \in DOMAIN Log : i < j /\ Log[i] # Nothing /\ Log[j] # Nothing =>
       /\ Log[i].seq_no # Log[j].seq_no
       /\ Log[i].writer = Log[j].writer => Log[i].seq_no < Log[j].seq_no

\* Every number that was drawn is that of a record, or of a writer, or of an
\* event that was dropped.
Recorded == {Log[i] : i \in DOMAIN Log} \ {Nothing}
Counted ==
  Cardinality(Recorded) + Cardinality(Recording)
    + Cardinality({w \in Writer : at[w] = "dropped"}) + failed_writes = ts_seq_no
=============================================================================
