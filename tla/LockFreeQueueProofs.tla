------------------------- MODULE LockFreeQueueProofs -------------------------
(***************************************************************************)
(* Proofs about LockFreeQueue for every Capacity and every set of items.   *)
(* All index arithmetic is done once, in the lemmas on Succ, Size and      *)
(* Between; the invariance proofs then reason about distances only.        *)
(***************************************************************************)
EXTENDS LockFreeQueue, TLAPS

\* Wrapping a number below twice the capacity subtracts the capacity once.
LEMMA Wrap ==
  ASSUME NEW n \in Nat, n < 2 * Capacity
  PROVE  n % Capacity = IF n < Capacity THEN n ELSE n - Capacity
BY CapacityAssumption

\* Succ steps to the next index and from the last one back to the first.
LEMMA SuccValue ==
  ASSUME NEW i \in Index
  PROVE  /\ Succ(i) \in Index
         /\ Succ(i) = IF i = Capacity - 1 THEN 0 ELSE i + 1
BY CapacityAssumption, Wrap DEF Index, Succ

\* Size is a distance below Capacity, and zero only from an index to itself.
LEMMA SizeRange ==
  ASSUME NEW i \in Index, NEW j \in Index
  PROVE  /\ Size(i, j) \in 0 .. Capacity - 1
         /\ Size(i, j) = 0 <=> i = j
BY CapacityAssumption DEF Index, Size

\* Moving the tail of a ring that is not full makes it one longer; the ring is
\* full exactly when the next tail would be the head.
LEMMA SizeSuccTail ==
  ASSUME NEW i \in Index, NEW j \in Index
  PROVE  /\ Succ(j) = i <=> Size(i, j) = Capacity - 1
         /\ Size(i, j) < Capacity - 1 => Size(i, Succ(j)) = Size(i, j) + 1
BY CapacityAssumption, SuccValue DEF Index, Size

\* Moving the head of a ring that is not empty makes it one shorter.
LEMMA SizeSuccHead ==
  ASSUME NEW i \in Index, NEW j \in Index, Size(i, j) > 0
  PROVE  Size(Succ(i), j) = Size(i, j) - 1
BY CapacityAssumption, SuccValue DEF Index, Size

\* Distances along the ring add up: j lies on the way from i to k.
LEMMA SizeSplit ==
  ASSUME NEW i \in Index, NEW j \in Index, NEW k \in Index,
         Size(i, j) <= Size(i, k)
  PROVE  Size(j, k) = Size(i, k) - Size(i, j)
BY CapacityAssumption DEF Index, Size

\* A late load of the head moves the producer's view towards the head.
LEMMA LateHead ==
  ASSUME NEW seen \in Index, NEW head \in Index, NEW tail \in Index,
         Size(seen, head) <= Size(seen, tail), NEW h \in Between(seen, head)
  PROVE  Size(h, head) <= Size(h, tail)
BY CapacityAssumption DEF Index, Size, Between

\* A late load of the tail does not move the consumer's view past the tail.
LEMMA LateTail ==
  ASSUME NEW head \in Index, NEW seen \in Index, NEW tail \in Index,
         Size(head, seen) <= Size(head, tail), NEW t \in Between(seen, tail)
  PROVE  Size(head, t) <= Size(head, tail)
BY CapacityAssumption DEF Index, Size, Between
------------------------------------------------------------------------------
(***************************************************************************)
(* The inductive invariant.  What a thread last saw of the other one's     *)
(* index lies behind that index and not behind its own; from that alone a  *)
(* thread may conclude that its slot is still its own.                     *)
(***************************************************************************)
SeenHeadInv ==
  /\ Size(pHead, m_head) <= Size(pHead, m_tail)
  /\ pPc \in {"write", "publish"} => Size(pHead, m_tail) < Capacity - 1

SeenTailInv ==
  /\ Size(m_head, cTail) <= Size(m_head, m_tail)
  /\ cPc \in {"read", "release"} => Size(m_head, cTail) > 0

SlotInv ==
  /\ pPc \in {"write", "publish"} => pItem \in Items
  /\ pPc = "publish" => m_buffer[m_tail] = pItem
  /\ cPc = "release" => cItem = m_buffer[m_head]

IInv == TypeOK /\ SeenHeadInv /\ SeenTailInv /\ SlotInv

\* The invariant holds at the start, when nothing has been loaded or stored.
LEMMA InitIInv == Init => IInv
BY CapacityAssumption
   DEF Init, IInv, TypeOK, SeenHeadInv, SeenTailInv, SlotInv, Index, Size

\* The type part of the invariant, kept by every step on its own.
LEMMA TypeStep == TypeOK /\ [Next]_vars => TypeOK'
<1> SUFFICES ASSUME TypeOK, [Next]_vars PROVE TypeOK'
  OBVIOUS
<1> USE SuccValue DEF TypeOK, Between
<1>1. ASSUME NEW x \in Items, EnqueueCheck(x) PROVE TypeOK'
  BY <1>1 DEF EnqueueCheck, consumer
<1>2. CASE EnqueueWrite
  BY <1>2 DEF EnqueueWrite, consumer
<1>3. CASE EnqueuePublish
  BY <1>3 DEF EnqueuePublish, consumer
<1>4. ASSUME NEW t \in Between(cTail, m_tail), DequeueCheck(t) PROVE TypeOK'
  BY <1>4 DEF DequeueCheck, producer
<1>5. CASE DequeueRead
  BY <1>5 DEF DequeueRead, producer
<1>6. CASE DequeueRelease
  BY <1>6 DEF DequeueRelease, producer
<1>7. CASE ProducerSize
  BY <1>7 DEF ProducerSize, consumer
<1>8. CASE ConsumerSize
  BY <1>8 DEF ConsumerSize, producer
<1>9. CASE UNCHANGED vars
  BY <1>9 DEF vars, producer, consumer
<1>10. QED
  BY <1>1, <1>2, <1>3, <1>4, <1>5, <1>6, <1>7, <1>8, <1>9
     DEF Next, Enqueue, Dequeue

\* Every step keeps the invariant.
LEMMA NextIInv == IInv /\ [Next]_vars => IInv'
<1> SUFFICES ASSUME IInv, [Next]_vars PROVE IInv'
  OBVIOUS
<1>0. TypeOK'
  BY TypeStep DEF IInv
<1> USE DEF TypeOK
\* A producer that gets past the check saw a ring that was not full.
<1>1. ASSUME NEW x \in Items, EnqueueCheck(x) PROVE IInv'
  <2> USE <1>1 DEF EnqueueCheck, consumer
  <2>1. Size(pHead', m_head) <= Size(pHead', m_tail)
    BY LateHead DEF IInv, SeenHeadInv
  <2>2. pHead' \in Index
    BY DEF Between
  <2>3. Size(pHead', m_tail) \in 0 .. Capacity - 1
    BY <2>2, SizeRange DEF IInv
  <2>4. pPc' = "write" => Succ(m_tail) # pHead'
    BY DEF Full
  <2>5. pPc' = "write" => Size(pHead', m_tail) < Capacity - 1
    BY <2>2, <2>3, <2>4, SizeSuccTail, CapacityAssumption DEF IInv
  <2>6. SeenHeadInv'
    BY <2>1, <2>5 DEF IInv, SeenHeadInv, Size
  <2> QED
    BY <1>0, <2>6 DEF IInv, SeenTailInv, SlotInv, Size
<1>2. CASE EnqueueWrite
  <2> USE <1>2 DEF EnqueueWrite, consumer, IInv
  <2>1. SeenHeadInv' /\ SeenTailInv'
    BY DEF SeenHeadInv, SeenTailInv, Size
  \* The slot written is not the one the consumer has read or is reading.
  <2>2. cPc = "release" => m_tail # m_head
    BY SizeRange DEF SeenTailInv
  <2>3. SlotInv'
    BY <2>2 DEF SlotInv
  <2> QED
    BY <1>0, <2>1, <2>3
<1>3. CASE EnqueuePublish
  <2> USE <1>3 DEF EnqueuePublish, consumer, IInv
  <2>1. Size(m_head, m_tail) = Size(pHead, m_tail) - Size(pHead, m_head)
    BY SizeSplit DEF SeenHeadInv
  <2>2. Size(m_head, m_tail) < Capacity - 1
    BY <2>1, SizeRange, CapacityAssumption DEF SeenHeadInv
  <2>3. /\ Size(pHead, m_tail') = Size(pHead, m_tail) + 1
        /\ Size(m_head, m_tail') = Size(m_head, m_tail) + 1
    BY <2>2, SizeSuccTail DEF SeenHeadInv
  <2>4. SeenHeadInv' /\ SeenTailInv'
    BY <2>3, SizeRange DEF SeenHeadInv, SeenTailInv, Size
  <2> QED
    BY <1>0, <2>4 DEF SlotInv
\* A consumer that gets past the check saw a ring that was not empty.
<1>4. ASSUME NEW t \in Between(cTail, m_tail), DequeueCheck(t) PROVE IInv'
  <2> USE <1>4 DEF DequeueCheck, producer, IInv
  <2>1. Size(m_head, t) <= Size(m_head, m_tail)
    BY LateTail DEF SeenTailInv
  <2>2. SeenTailInv'
    BY <2>1, SizeRange DEF SeenTailInv, Empty, Between, Size
  <2> QED
    BY <1>0, <2>2 DEF SeenHeadInv, SlotInv, Size
<1>5. CASE DequeueRead
  BY <1>0, <1>5
     DEF DequeueRead, producer, IInv, SeenHeadInv, SeenTailInv, SlotInv, Size
<1>6. CASE DequeueRelease
  <2> USE <1>6 DEF DequeueRelease, producer, IInv
  <2>1. /\ Size(m_head', cTail) = Size(m_head, cTail) - 1
        /\ Size(m_head', m_tail) = Size(m_head, m_tail) - 1
    BY SizeSuccHead, SizeRange DEF SeenTailInv
  <2>2. Size(m_head, m_tail) = Size(pHead, m_tail) - Size(pHead, m_head)
    BY SizeSplit DEF SeenHeadInv
  <2>3. Size(pHead, m_head) < Capacity - 1
    BY <2>2, SizeRange, CapacityAssumption DEF SeenTailInv
  <2>4. Size(pHead, m_head') = Size(pHead, m_head) + 1
    BY <2>3, SizeSuccTail
  <2>5. SeenHeadInv' /\ SeenTailInv'
    BY <2>1, <2>4, SizeSplit, SizeRange DEF SeenHeadInv, SeenTailInv, Size
  <2> QED
    BY <1>0, <2>5 DEF SlotInv
<1>7. CASE ProducerSize
  <2> USE <1>7 DEF ProducerSize, consumer, IInv
  <2>1. Size(pHead', m_head) <= Size(pHead', m_tail)
    BY LateHead DEF SeenHeadInv
  <2> QED
    BY <1>0, <2>1 DEF SeenHeadInv, SeenTailInv, SlotInv, Size
<1>8. CASE ConsumerSize
  <2> USE <1>8 DEF ConsumerSize, producer, IInv
  <2>1. Size(m_head, cTail') <= Size(m_head, m_tail)
    BY LateTail DEF SeenTailInv
  <2> QED
    BY <1>0, <2>1 DEF SeenHeadInv, SeenTailInv, SlotInv, Size
<1>9. CASE UNCHANGED vars
  BY <1>9 DEF vars, producer, consumer, IInv, SeenHeadInv, SeenTailInv,
              SlotInv, Size, Index
<1>10. QED
  BY <1>1, <1>2, <1>3, <1>4, <1>5, <1>6, <1>7, <1>8, <1>9
     DEF Next, Enqueue, Dequeue

\* The inductive invariant holds in every reachable state.
THEOREM Invariance == Spec => []IInv
<1>1. IInv /\ [Next]_vars => IInv'
  BY NextIInv
<1> QED
  BY <1>1, InitIInv, PTL DEF Spec

\* Every variable keeps its type, for every Capacity and every set of items.
THEOREM TypeCorrect == Spec => []TypeOK
<1>1. IInv => TypeOK
  BY DEF IInv
<1> QED
  BY <1>1, Invariance, PTL

\* enqueue() and dequeue() never touch one slot at the same time.
THEOREM RaceFree == Spec => []NoSlotRace
<1>1. IInv => NoSlotRace
  BY SizeRange DEF IInv, TypeOK, SeenTailInv, NoSlotRace
<1> QED
  BY <1>1, Invariance, PTL

\* size() never underestimates for the producer nor overestimates for the
\* consumer, however late the loads are.
THEOREM SizeIsBracketed == Spec => []SizeBrackets
<1>1. ASSUME IInv PROVE SizeBrackets
  <2>1. Size(m_head, m_tail) = Size(pHead, m_tail) - Size(pHead, m_head)
    BY <1>1, SizeSplit DEF IInv, TypeOK, SeenHeadInv
  <2>2. Size(pHead, m_head) \in Nat /\ Size(pHead, m_tail) \in Nat
    BY <1>1, SizeRange, CapacityAssumption DEF IInv, TypeOK
  <2> QED
    BY <1>1, <2>1, <2>2 DEF IInv, SeenTailInv, SizeBrackets
<1> QED
  BY <1>1, Invariance, PTL

\* What a thread concluded from its check still holds when it uses its slot.
THEOREM ChecksStayValid == Spec => []CheckStaysValid
<1>1. ASSUME IInv PROVE CheckStaysValid
  <2>1. Size(m_head, m_tail) = Size(pHead, m_tail) - Size(pHead, m_head)
    BY <1>1, SizeSplit DEF IInv, TypeOK, SeenHeadInv
  <2>2. /\ Size(pHead, m_head) \in Nat /\ Size(pHead, m_tail) \in Nat
        /\ Size(m_head, cTail) \in Nat /\ Size(m_head, m_tail) \in Nat
    BY <1>1, SizeRange, CapacityAssumption DEF IInv, TypeOK
  <2> QED
    BY <1>1, <2>1, <2>2, CapacityAssumption
       DEF IInv, SeenHeadInv, SeenTailInv, SlotInv, CheckStaysValid
<1> QED
  BY <1>1, Invariance, PTL
------------------------------------------------------------------------------
(***************************************************************************)
(* The ring implements the bounded FIFO.  Only two steps move the abstract *)
(* queue: EnqueuePublish, where the new item becomes visible, and          *)
(* DequeueRelease, where its slot is given back.                           *)
(***************************************************************************)
Slot(k) == (m_head + k - 1) % Capacity

\* The k-th abstract item lies in a slot of the ring; only the one after the
\* last lies in the slot the tail points to.
LEMMA SlotValue ==
  ASSUME TypeOK, NEW k \in 1 .. Capacity
  PROVE  /\ Slot(k) \in Index
         /\ Slot(k) = IF m_head + k - 1 < Capacity
                        THEN m_head + k - 1 ELSE m_head + k - 1 - Capacity
         /\ k = Size(m_head, m_tail) + 1 => Slot(k) = m_tail
         /\ k <= Size(m_head, m_tail) => Slot(k) # m_tail
<1>1. m_head + k - 1 \in Nat /\ m_head + k - 1 < 2 * Capacity
  BY CapacityAssumption DEF TypeOK, Index
<1>2. PICK n \in Nat : n = m_head + k - 1
  BY <1>1
<1>3. n % Capacity = IF n < Capacity THEN n ELSE n - Capacity
  BY <1>1, <1>2, Wrap
<1> QED
  BY <1>2, <1>3, CapacityAssumption DEF TypeOK, Index, Size, Slot

LEMMA ContentsType ==
  ASSUME TypeOK
  PROVE  /\ Contents \in Seq(Items \cup {Nothing})
         /\ Len(Contents) = Size(m_head, m_tail)
<1>1. Size(m_head, m_tail) \in Nat /\ Size(m_head, m_tail) <= Capacity
  BY SizeRange, CapacityAssumption DEF TypeOK
<1>2. \A k \in 1 .. Size(m_head, m_tail) : m_buffer[Slot(k)] \in Items \cup {Nothing}
  BY <1>1, SlotValue, CapacityAssumption DEF TypeOK
<1>3. Contents = [k \in 1 .. Size(m_head, m_tail) |-> m_buffer[Slot(k)]]
  BY DEF Contents, Slot
<1> QED
  BY <1>1, <1>2, <1>3

\* A step that keeps both indices and the filled slots keeps the queue.
LEMMA ContentsKept ==
  ASSUME TypeOK, m_head' = m_head, m_tail' = m_tail, 
         \A i \in Index : i # m_tail => m_buffer'[i] = m_buffer[i]
  PROVE  Contents' = Contents
<1>1. Size(m_head, m_tail)' = Size(m_head, m_tail)
  BY DEF Size
<1>2. Size(m_head, m_tail) \in Nat /\ Size(m_head, m_tail) <= Capacity
  BY SizeRange, CapacityAssumption DEF TypeOK
<1>3. \A k \in 1 .. Size(m_head, m_tail) :
        m_buffer'[(m_head + k - 1) % Capacity] = m_buffer[(m_head + k - 1) % Capacity]
  BY <1>2, SlotValue, CapacityAssumption DEF Slot
<1> QED
  BY <1>1, <1>3 DEF Contents

\* Publishing appends the item that was written: enqueue() takes effect.
LEMMA PublishPuts ==
  ASSUME IInv, EnqueuePublish
  PROVE  Fifo!Put(pItem)
<1> DEFINE n == Size(m_head, m_tail)
<1>1. n \in Nat /\ n < Capacity - 1
  <2>1. n = Size(pHead, m_tail) - Size(pHead, m_head)
    BY SizeSplit DEF IInv, TypeOK, SeenHeadInv
  <2>2. /\ Size(pHead, m_head) \in Nat /\ Size(pHead, m_tail) \in Nat
        /\ n \in Nat
    BY SizeRange, CapacityAssumption DEF IInv, TypeOK
  <2> QED
    BY <2>1, <2>2, CapacityAssumption DEF IInv, SeenHeadInv, EnqueuePublish
<1>2. Size(m_head, m_tail)' = n + 1
  BY <1>1, SizeSuccTail, CapacityAssumption
     DEF EnqueuePublish, IInv, TypeOK, Size
<1>3. m_buffer[Slot(n + 1)] = pItem
  BY <1>1, SlotValue, CapacityAssumption DEF IInv, SlotInv, EnqueuePublish
<1>4. Contents' = [k \in 1 .. n + 1 |-> m_buffer[Slot(k)]]
  BY <1>2 DEF Contents, Slot, EnqueuePublish
<1>5. Contents = [k \in 1 .. n |-> m_buffer[Slot(k)]]
  BY DEF Contents, Slot
<1>6. Contents \in Seq(Items \cup {Nothing}) /\ Len(Contents) = n
  BY ContentsType DEF IInv
<1> HIDE DEF n
<1>7. Contents' = Append(Contents, pItem)
  BY <1>1, <1>3, <1>4, <1>5, <1>6
<1> QED
  BY <1>1, <1>6, <1>7 DEF Fifo!Put, EnqueuePublish

\* Releasing removes the oldest item, and it is the one the caller received.
LEMMA ReleaseTakes ==
  ASSUME IInv, DequeueRelease
  PROVE  Fifo!Take
<1> DEFINE n == Size(m_head, m_tail)
<1>1. n \in Nat /\ n > 0 /\ n < Capacity
  BY SizeRange, CapacityAssumption
     DEF IInv, TypeOK, SeenTailInv, DequeueRelease
<1>2. Size(m_head, m_tail)' = n - 1
  BY <1>1, SizeSuccHead DEF DequeueRelease, IInv, TypeOK, Size
<1>3. \A k \in 1 .. n - 1 : Slot(k)' = Slot(k + 1)
  <2> TAKE k \in 1 .. n - 1
  <2>1. m_head \in Index /\ k \in Nat /\ k < n
    BY <1>1 DEF IInv, TypeOK
  <2>2. m_head' \in Index /\ m_head' = IF m_head = Capacity - 1 THEN 0 ELSE m_head + 1
    BY SuccValue DEF DequeueRelease, IInv, TypeOK
  <2>3. PICK a \in Nat : a = m_head' + k - 1
    BY <2>2, CapacityAssumption DEF Index
  <2>4. PICK b \in Nat : b = m_head + (k + 1) - 1
    BY CapacityAssumption DEF Index, IInv, TypeOK
  <2>5. a % Capacity = IF a < Capacity THEN a ELSE a - Capacity
    BY <1>1, <2>2, <2>3, Wrap, CapacityAssumption DEF Index
  <2>6. b < 2 * Capacity
    BY <1>1, <2>1, <2>4, CapacityAssumption DEF Index
  <2>7. b % Capacity = IF b < Capacity THEN b ELSE b - Capacity
    BY <2>6, Wrap
  <2> QED
    BY <1>1, <2>2, <2>3, <2>4, <2>5, <2>7, CapacityAssumption
       DEF Slot, Index, IInv, TypeOK
<1>4. Contents' = [k \in 1 .. n - 1 |-> m_buffer[Slot(k)']]
  BY <1>2 DEF Contents, Slot, DequeueRelease
<1>5. Contents = [k \in 1 .. n |-> m_buffer[Slot(k)]]
  BY DEF Contents, Slot
<1>6. Contents \in Seq(Items \cup {Nothing}) /\ Len(Contents) = n
  BY ContentsType DEF IInv
<1>7. Slot(1) = m_head
  BY <1>1, SlotValue, CapacityAssumption DEF IInv, TypeOK, Index
<1> HIDE DEF n
<1>8. Contents # << >> /\ Head(Contents) = m_buffer[m_head]
  BY <1>1, <1>5, <1>6, <1>7
<1>9. Contents' = Tail(Contents)
  BY <1>1, <1>3, <1>4, <1>5, <1>6
<1> QED
  BY <1>8, <1>9 DEF Fifo!Take, IInv, SlotInv, DequeueRelease

\* Every step of the ring is a step of the FIFO or leaves it alone.
LEMMA StepSimulation ==
  IInv /\ [Next]_vars => [Fifo!Next]_<<Contents, delivered>>
<1> SUFFICES ASSUME IInv, [Next]_vars
             PROVE  [Fifo!Next]_<<Contents, delivered>>
  OBVIOUS
<1>1. CASE EnqueuePublish
  BY <1>1, PublishPuts DEF IInv, SlotInv, EnqueuePublish, Fifo!Next
<1>2. CASE DequeueRelease
  BY <1>2, ReleaseTakes DEF Fifo!Next
<1>3. CASE EnqueueWrite
  <2>1. Contents' = Contents
    BY <1>3, ContentsKept DEF EnqueueWrite, IInv, TypeOK
  <2> QED
    BY <1>3, <2>1 DEF EnqueueWrite
<1>4. ASSUME NEW x \in Items, EnqueueCheck(x)
      PROVE  UNCHANGED <<Contents, delivered>>
  BY <1>4 DEF EnqueueCheck, Contents, Size
<1>5. ASSUME NEW t \in Between(cTail, m_tail), DequeueCheck(t)
      PROVE  UNCHANGED <<Contents, delivered>>
  BY <1>5 DEF DequeueCheck, Contents, Size
<1>6. CASE DequeueRead
  BY <1>6 DEF DequeueRead, Contents, Size
<1>7. CASE ProducerSize
  BY <1>7 DEF ProducerSize, Contents, Size
<1>8. CASE ConsumerSize
  BY <1>8 DEF ConsumerSize, Contents, Size
<1>9. CASE UNCHANGED vars
  BY <1>9 DEF vars, Contents, Size
<1>10. QED
  BY <1>1, <1>2, <1>3, <1>4, <1>5, <1>6, <1>7, <1>8, <1>9
     DEF Next, Enqueue, Dequeue

\* LockFreeQueue implements BoundedFifo with Bound = Capacity - 1: nothing
\* accepted is lost, repeated, overwritten or reordered.
THEOREM Refinement == Spec => ImplementsFifo
<1>1. Init => Contents = << >>
  BY CapacityAssumption DEF Init, Contents, Size
<1>2. IInv /\ [Next]_vars => [Fifo!Next]_<<Contents, delivered>>
  BY StepSimulation
<1> QED
  BY <1>1, <1>2, Invariance, PTL DEF Spec, ImplementsFifo, Fifo!Spec
==============================================================================
