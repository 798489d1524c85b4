------------------------------ MODULE FIFOLock ------------------------------
(***************************************************************************)
(* What an FMLP semaphore promises: tasks get it one at a time and in the  *)
(* order of their requests.                                                *)
(***************************************************************************)
EXTENDS Sequences, Functions

CONSTANT Client

VARIABLES
  queue,   \* clients that have asked and not released, oldest first
  inside   \* clients in their critical section

Init == queue = <<>> /\ inside = {}

\* A client asks for the lock; it may get it at once.
Request(t) ==
  /\ t \notin Range(queue)
  /\ queue' = Append(queue, t)
  /\ inside' = inside \/ (queue = <<>> /\ inside' = {t})

\* The oldest client enters.
Enter(t) ==
  /\ queue # <<>> /\ Head(queue) = t /\ t \notin inside
  /\ inside' = inside \cup {t}
  /\ UNCHANGED queue

Release(t) ==
  /\ t \in inside /\ Head(queue) = t
  /\ queue' = Tail(queue)
  /\ inside' = inside \ {t}

Next == \E t \in Client : Request(t) \/ Enter(t) \/ Release(t)

Spec == Init /\ [][Next]_<<queue, inside>>
=============================================================================
