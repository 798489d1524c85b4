------------------------------ MODULE TraceFIFO -----------------------------
(***************************************************************************)
(* What a Feather-Trace buffer promises to its writers and its reader: a   *)
(* bounded queue.  A writer either takes the next place of the queue, and  *)
(* fills it later, or its record is dropped; the reader receives the       *)
(* records in the order of their places, each of them once.                *)
(***************************************************************************)
EXTENDS Naturals, Sequences

CONSTANTS
  Record,    \* what may be recorded
  Pending,   \* a place that was taken but is not filled yet
  Capacity   \* number of places

VARIABLES
  queue,     \* the places in use, oldest first
  delivered  \* what the reader has received

fifo == <<queue, delivered>>

Init == queue = << >> /\ delivered = << >>

Reserve == /\ Len(queue) < Capacity
           /\ queue' = Append(queue, Pending)
           /\ UNCHANGED delivered

Publish == /\ \E i \in 1..Len(queue), r \in Record :
                /\ queue[i] = Pending
                /\ queue' = [queue EXCEPT ![i] = r]
           /\ UNCHANGED delivered

Deliver == /\ queue # << >>
           /\ queue[1] # Pending
           /\ delivered' = Append(delivered, queue[1])
           /\ queue' = Tail(queue)

Next == Reserve \/ Publish \/ Deliver

Spec == Init /\ [][Next]_fifo
=============================================================================
