----------------------------- MODULE BoundedFifo -----------------------------
(***************************************************************************)
(* What LockFreeQueue promises to its two threads, without any index: a    *)
(* first-in first-out queue that holds at most Bound items.  A rejected    *)
(* enqueue() and an empty dequeue() leave it as it is (stuttering steps).  *)
(***************************************************************************)
EXTENDS Naturals, Sequences

CONSTANTS Items,   \* what the producer may hand over
          Bound    \* capacity(), the most items held at once

VARIABLES queue,      \* accepted and not yet taken, oldest first
          delivered   \* what the last successful dequeue() gave its caller

Put(x) ==
  /\ Len(queue) < Bound
  /\ queue' = Append(queue, x)
  /\ UNCHANGED delivered

Take ==
  /\ queue # << >>
  /\ delivered' = Head(queue)
  /\ queue' = Tail(queue)

Next == Take \/ \E x \in Items : Put(x)

Spec == queue = << >> /\ [][Next]_<<queue, delivered>>
==============================================================================
