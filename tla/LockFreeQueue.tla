---------------------------- MODULE LockFreeQueue ----------------------------
(***************************************************************************)
(* The single-producer single-consumer ring buffer of                      *)
(* inc/cabl/threading/LockFreeQueue.h, one action per shared memory access *)
(* of enqueue() and dequeue().                                             *)
(*                                                                         *)
(* A thread's relaxed load of its own index returns what it stored last.   *)
(* Its acquire load of the other index may be late: it returns any value   *)
(* that index has had since the last one this thread saw.  pHead and cTail *)
(* are those last seen values.  Slots are plain memory: an access to one   *)
(* lasts from the state that enables it to the step that ends it, and two  *)
(* overlapping accesses to one slot are a data race.                       *)
(***************************************************************************)
EXTENDS Naturals, Sequences

CONSTANTS Capacity,   \* slots of m_buffer; one of them always stays empty
          Items,      \* what the producer may enqueue
          Nothing     \* the content of a slot or a variable never written

ASSUME CapacityAssumption == Capacity \in Nat \ {0}
ASSUME NothingAssumption  == Nothing \notin Items

VARIABLES m_buffer, m_head, m_tail,
          pPc, pItem, pHead,    \* the producer: control, item_, last seen m_head
          cPc, cItem, cTail,    \* the consumer: control, item_, last seen m_tail
          delivered             \* item_ of the last dequeue() that returned true

producer == <<pPc, pItem, pHead>>
consumer == <<cPc, cItem, cTail>>
vars     == <<m_buffer, m_head, m_tail, producer, consumer, delivered>>

Index == 0 .. Capacity - 1

SuccNoWrap(i) == i + 1   \* mutant: the index is not wrapped
Succ(i)       == (i + 1) % Capacity

\* size(): the distance from a head to a tail index around the ring.
Size(head, tail) ==
  IF tail >= head THEN tail - head ELSE Capacity - head + tail

\* The values an index that was `seen` and is `now` has had in between.
Between(seen, now) == {i \in Index : Size(seen, i) <= Size(seen, now)}

FullNever(head) == FALSE   \* mutant: no check before the write
Full(head)      == Succ(m_tail) = head

EmptyNever(tail) == FALSE   \* mutant: no check before the read
Empty(tail)      == m_head = tail

Init ==
  /\ m_buffer = [i \in Index |-> Nothing]
  /\ m_head = 0 /\ m_tail = 0
  /\ pPc = "idle" /\ pItem = Nothing /\ pHead = 0
  /\ cPc = "idle" /\ cItem = Nothing /\ cTail = 0
  /\ delivered = Nothing

\* enqueue(item): load m_head; give up when the ring looks full.
EnqueueCheck(item) ==
  /\ pPc = "idle"
  /\ pItem' = item
  /\ pHead' \in Between(pHead, m_head)
  /\ pPc' = IF Full(pHead') THEN "idle" ELSE "write"
  /\ UNCHANGED <<m_buffer, m_head, m_tail, consumer, delivered>>

EnqueueWriteNext ==   \* mutant: m_buffer[nextTail] = item_
  /\ pPc = "write"
  /\ m_buffer' = [m_buffer EXCEPT ![Succ(m_tail)] = pItem]
  /\ pPc' = "publish"
  /\ UNCHANGED <<m_head, m_tail, pItem, pHead, consumer, delivered>>

\* m_buffer[currentTail] = item_
EnqueueWrite ==
  /\ pPc = "write"
  /\ m_buffer' = [m_buffer EXCEPT ![m_tail] = pItem]
  /\ pPc' = "publish"
  /\ UNCHANGED <<m_head, m_tail, pItem, pHead, consumer, delivered>>

\* m_tail.store(nextTail, release)
EnqueuePublish ==
  /\ pPc = "publish"
  /\ m_tail' = Succ(m_tail)
  /\ pPc' = "idle"
  /\ UNCHANGED <<m_buffer, m_head, pItem, pHead, consumer, delivered>>

\* dequeue(): load m_tail; give up when the ring looks empty.
DequeueCheck(tail) ==
  /\ cPc = "idle"
  /\ cTail' = tail
  /\ cPc' = IF Empty(tail) THEN "idle" ELSE "read"
  /\ UNCHANGED <<m_buffer, m_head, m_tail, cItem, producer, delivered>>

\* item_ = m_buffer[currentHead]
DequeueRead ==
  /\ cPc = "read"
  /\ cItem' = m_buffer[m_head]
  /\ cPc' = "release"
  /\ UNCHANGED <<m_buffer, m_head, m_tail, cTail, producer, delivered>>

DequeueReleaseKept ==   \* mutant: the slot is not given back
  /\ cPc = "release"
  /\ delivered' = cItem
  /\ cPc' = "idle"
  /\ UNCHANGED <<m_buffer, m_head, m_tail, cItem, cTail, producer>>

\* m_head.store(currentHead + 1, release); the call returns true.
DequeueRelease ==
  /\ cPc = "release"
  /\ m_head' = Succ(m_head)
  /\ delivered' = cItem
  /\ cPc' = "idle"
  /\ UNCHANGED <<m_buffer, m_tail, cItem, cTail, producer>>

\* size() called by the producer loads m_head, by the consumer m_tail.
ProducerSize ==
  /\ pPc = "idle"
  /\ pHead' \in Between(pHead, m_head)
  /\ UNCHANGED <<m_buffer, m_head, m_tail, pPc, pItem, consumer, delivered>>

ConsumerSize ==
  /\ cPc = "idle"
  /\ cTail' \in Between(cTail, m_tail)
  /\ UNCHANGED <<m_buffer, m_head, m_tail, cPc, cItem, producer, delivered>>

Enqueue == EnqueueWrite \/ EnqueuePublish \/ \E x \in Items : EnqueueCheck(x)
Dequeue == DequeueRead \/ DequeueRelease
             \/ \E t \in Between(cTail, m_tail) : DequeueCheck(t)

Next == Enqueue \/ Dequeue \/ ProducerSize \/ ConsumerSize

Spec == Init /\ [][Next]_vars

(***************************************************************************)
(* The producer finishes a call it started; the consumer keeps polling and *)
(* a store becomes visible to its loads in finite time ([atomics.order]).  *)
(***************************************************************************)
Fairness ==
  /\ WF_vars(EnqueueWrite \/ EnqueuePublish)
  /\ WF_vars(DequeueRead \/ DequeueRelease \/ DequeueCheck(m_tail))

FairSpec == Spec /\ Fairness
------------------------------------------------------------------------------
\* Every variable has its type.
TypeOK ==
  /\ m_buffer \in [Index -> Items \cup {Nothing}]
  /\ m_head \in Index /\ m_tail \in Index
  /\ pPc \in {"idle", "write", "publish"}
  /\ cPc \in {"idle", "read", "release"}
  /\ pItem \in Items \cup {Nothing} /\ pHead \in Index
  /\ cItem \in Items \cup {Nothing} /\ cTail \in Index
  /\ delivered \in Items \cup {Nothing}

\* enqueue() and dequeue() never access one slot at the same time, although
\* neither waits for the other and both decide on late values of the indices.
NoSlotRace ==
  pPc = "write" /\ cPc = "read" => m_tail # m_head

\* size() as the two threads see it brackets the true number of items: the
\* producer's answer is never too low, the consumer's never too high.
SizeBrackets ==
  /\ Size(m_head, cTail) <= Size(m_head, m_tail)
  /\ Size(m_head, m_tail) <= Size(pHead, m_tail)

\* A thread that was let past its check still has its slot when it gets there:
\* the producer a free one, the consumer a filled one.
CheckStaysValid ==
  /\ pPc \in {"write", "publish"} => Size(m_head, m_tail) < Capacity - 1
  /\ cPc \in {"read", "release"} => Size(m_head, m_tail) > 0
  /\ pPc = "publish" => m_buffer[m_tail] = pItem
  /\ cPc = "release" => cItem = m_buffer[m_head]

\* The slots between the indices, oldest first, are the abstract queue.
Contents ==
  [k \in 1 .. Size(m_head, m_tail) |-> m_buffer[(m_head + k - 1) % Capacity]]

Fifo == INSTANCE BoundedFifo
          WITH Bound <- Capacity - 1, queue <- Contents, delivered <- delivered

\* The ring is a bounded FIFO: nothing accepted is lost, overwritten,
\* delivered twice or out of order, and at most capacity() items are held.
ImplementsFifo == Fifo!Spec

\* An item that enqueue() accepted is eventually handed to the consumer.
AcceptedIsDelivered ==
  \A x \in Items :
    (\E k \in DOMAIN Contents : Contents[k] = x) ~> (delivered = x)
==============================================================================
