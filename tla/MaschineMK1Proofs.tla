--------------------------- MODULE MaschineMK1Proofs ---------------------------
(***************************************************************************)
(* Proofs about what MaschineMK1 sends: its MIDI, for every capacity of    *)
(* the queue and any number of messages, failures and reconnections, and   *)
(* its displays and LEDs, any number of them and of pieces they are sent in.*)
(***************************************************************************)
EXTENDS MaschineMK1, SequenceTheorems, TLAPS

In(q)    == {q[i] : i \in 1 .. Len(q)}
Chain(q) == \A i, j \in 1 .. Len(q) : i < j => q[i] < q[j]

\* Two messages of the client, or two of applications.
Same(m, n) == m \in taken <=> n \in taken

Waiting == In(m_midiOutQueue) \cup In(port)
InHand  == IF fast = "write" THEN {midiMsg_} ELSE {}

(***************************************************************************)
(* The inductive invariant: of one sender, what was sent is older than     *)
(* what is in the fast thread's hands, and this than what waits.           *)
(***************************************************************************)
MidiTypes ==
  /\ ops \in Nat /\ midiMsg_ \in Nat /\ fast \in {"idle", "next", "write"}
  /\ m_midiOutQueue \in Seq(Nat) /\ port \in Seq(Nat) /\ sent \in Seq(Nat)
  /\ taken \subseteq 1 .. ops /\ ported \subseteq 1 .. ops /\ taken \cap ported = {}

QueuesInOrder == /\ In(m_midiOutQueue) \subseteq taken /\ In(port) \subseteq ported
                 /\ Chain(m_midiOutQueue) /\ Chain(port)
InHandBeforeWaiting ==
  \A n \in InHand : /\ n \in taken \cup ported
                    /\ \A m \in Waiting : Same(n, m) => n < m
SentBeforeRest ==
  \A n \in In(sent) : /\ n \in taken \cup ported
                      /\ \A m \in Waiting \cup InHand : Same(n, m) => n < m
SentInOrder ==
  \A j, k \in 1 .. Len(sent) : j < k /\ Same(sent[j], sent[k]) => sent[j] < sent[k]
NoneMissing == (taken \cup ported) \ lost \subseteq In(sent) \cup Waiting \cup InHand

MInv == /\ MidiTypes /\ QueuesInOrder /\ InHandBeforeWaiting /\ SentBeforeRest
        /\ SentInOrder /\ NoneMissing

\* What a message at the end of a queue adds to it.
LEMMA AppendIn ==
  ASSUME NEW q \in Seq(Nat), NEW e \in Nat
  PROVE  /\ Append(q, e) \in Seq(Nat)
         /\ In(Append(q, e)) = In(q) \cup {e} /\ In(q) \subseteq Nat
         /\ Chain(q) /\ (\A m \in In(q) : m < e) => Chain(Append(q, e))
<1>1. /\ Append(q, e) \in Seq(Nat) /\ Len(Append(q, e)) = Len(q) + 1
      /\ \A i \in 1 .. Len(q) : Append(q, e)[i] = q[i]
      /\ Append(q, e)[Len(q) + 1] = e
  BY AppendProperties
<1>2. Len(q) \in Nat /\ \A i \in 1 .. Len(q) : q[i] \in Nat
  BY LenProperties, ElementOfSeq
<1>3. 1 .. Len(q) + 1 = 1 .. Len(q) \cup {Len(q) + 1}
  BY <1>2
<1>4. In(Append(q, e)) = In(q) \cup {e}
  BY <1>1, <1>3 DEF In
<1>5. ASSUME Chain(q), \A m \in In(q) : m < e PROVE Chain(Append(q, e))
  <2> SUFFICES ASSUME NEW i \in 1 .. Len(q) + 1, NEW j \in 1 .. Len(q) + 1, i < j
               PROVE  Append(q, e)[i] < Append(q, e)[j]
    BY <1>1 DEF Chain
  <2>1. i \in 1 .. Len(q)
    BY <1>2
  <2>2. CASE j = Len(q) + 1
    BY <1>1, <1>5, <2>1, <2>2 DEF In
  <2>3. CASE j \in 1 .. Len(q)
    BY <1>1, <1>5, <2>1, <2>3 DEF Chain
  <2>4. QED
    BY <1>2, <2>2, <2>3
<1>6. In(q) \subseteq Nat
  BY <1>2 DEF In
<1>7. QED
  BY <1>1, <1>4, <1>5, <1>6

\* The first message of a queue is its oldest.
LEMMA TakeFirst ==
  ASSUME NEW q \in Seq(Nat), q # << >>, Chain(q)
  PROVE  /\ Head(q) \in Nat /\ Tail(q) \in Seq(Nat) /\ Chain(Tail(q))
         /\ In(q) = In(Tail(q)) \cup {Head(q)}
         /\ \A m \in In(Tail(q)) : Head(q) < m
<1>1. /\ Head(q) \in Nat /\ Tail(q) \in Seq(Nat) /\ Head(q) = q[1]
      /\ Len(Tail(q)) = Len(q) - 1
      /\ \A i \in 1 .. Len(Tail(q)) : Tail(q)[i] = q[i + 1]
  BY HeadTailProperties, ElementOfSeq, EmptySeq
<1>2. Len(q) \in Nat /\ Len(q) >= 1
  BY EmptySeq, LenProperties
<1>3. \A i \in 1 .. Len(Tail(q)) : i + 1 \in 1 .. Len(q) /\ 1 < i + 1
  BY <1>1, <1>2
<1>4. \A i \in 1 .. Len(q) : i = 1 \/ (i - 1 \in 1 .. Len(Tail(q)) /\ (i - 1) + 1 = i)
  BY <1>1, <1>2
<1>5. Chain(Tail(q))
  BY <1>1, <1>2, <1>3 DEF Chain
<1>6. \A m \in In(Tail(q)) : Head(q) < m
  BY <1>1, <1>2, <1>3 DEF Chain, In
<1>7. In(q) \subseteq In(Tail(q)) \cup {Head(q)}
  <2> SUFFICES ASSUME NEW i \in 1 .. Len(q) PROVE q[i] \in In(Tail(q)) \cup {Head(q)}
    BY DEF In
  <2>1. CASE i = 1
    BY <1>1, <2>1
  <2>2. CASE i # 1
    <3>1. i - 1 \in 1 .. Len(Tail(q)) /\ (i - 1) + 1 = i
      BY <1>4, <2>2
    <3>2. Tail(q)[i - 1] = q[i]
      BY <1>1, <3>1
    <3>3. QED
      BY <3>1, <3>2 DEF In
  <2>3. QED
    BY <2>1, <2>2
<1>8. In(Tail(q)) \cup {Head(q)} \subseteq In(q)
  BY <1>1, <1>2, <1>3 DEF In
<1>9. QED
  BY <1>1, <1>5, <1>6, <1>7, <1>8

\* The invariant holds at the start, when there are no messages.
LEMMA InitMInv == Init => MInv
<1> SUFFICES ASSUME Init PROVE MInv
  OBVIOUS
<1>1. /\ m_midiOutQueue = << >> /\ port = << >> /\ sent = << >> /\ fast = "idle"
      /\ taken = {} /\ ported = {} /\ ops = 0 /\ midiMsg_ = 0
  BY DEF Init
<1>2. << >> \in Seq(Nat) /\ Len(<< >>) = 0
  BY EmptySeq
<1>3. In(<< >>) = {} /\ Chain(<< >>)
  BY <1>2 DEF In, Chain
<1>4. QED
  BY <1>1, <1>2, <1>3
     DEF MInv, MidiTypes, QueuesInOrder, InHandBeforeWaiting, SentBeforeRest, SentInOrder,
         NoneMissing, Waiting, InHand

\* A new message is newer than all that there are.
LEMMA NewIsNewer ==
  ASSUME MInv
  PROVE  /\ ops + 1 \in Nat /\ ops + 1 \notin taken \cup ported
         /\ \A m \in taken \cup ported : m \in Nat /\ m < ops + 1
         /\ Waiting \cup InHand \cup In(sent) \subseteq taken \cup ported
<1>1. /\ ops + 1 \in Nat /\ ops + 1 \notin taken \cup ported
      /\ \A m \in taken \cup ported : m \in Nat /\ m < ops + 1
  BY DEF MInv, MidiTypes
<1>2. Waiting \cup InHand \cup In(sent) \subseteq taken \cup ported
  BY DEF MInv, QueuesInOrder, InHandBeforeWaiting, SentBeforeRest, Waiting
<1>3. QED
  BY <1>1, <1>2

\* A message is accepted, from the client or from an application.
LEMMA Accept ==
  ASSUME MInv, ops' = ops + 1, UNCHANGED <<fast, midiMsg_, sent, lost>>,
         \/ /\ m_midiOutQueue' = Append(m_midiOutQueue, ops + 1)
            /\ taken' = taken \cup {ops + 1} /\ UNCHANGED <<port, ported>>
         \/ /\ port' = Append(port, ops + 1)
            /\ ported' = ported \cup {ops + 1} /\ UNCHANGED <<m_midiOutQueue, taken>>
  PROVE  MInv'
<1>0. /\ MidiTypes /\ QueuesInOrder /\ InHandBeforeWaiting /\ SentBeforeRest
      /\ SentInOrder /\ NoneMissing
  BY DEF MInv
<1>1. /\ ops + 1 \in Nat /\ ops + 1 \notin taken \cup ported
      /\ \A m \in taken \cup ported : m \in Nat /\ m < ops + 1
      /\ Waiting \cup InHand \cup In(sent) \subseteq taken \cup ported
  BY NewIsNewer
<1>2. In(m_midiOutQueue) \subseteq taken /\ In(port) \subseteq ported
  BY <1>0 DEF QueuesInOrder
<1>3. /\ m_midiOutQueue' \in Seq(Nat) /\ port' \in Seq(Nat)
      /\ Chain(m_midiOutQueue)' /\ Chain(port)'
      /\ In(m_midiOutQueue)' \subseteq taken' /\ In(port)' \subseteq ported'
      /\ Waiting' = Waiting \cup {ops + 1}
  <2>1. m_midiOutQueue \in Seq(Nat) /\ port \in Seq(Nat)
    BY <1>0 DEF MidiTypes
  <2>2. Chain(m_midiOutQueue) /\ Chain(port)
    BY <1>0 DEF QueuesInOrder
  <2>3. CASE /\ m_midiOutQueue' = Append(m_midiOutQueue, ops + 1)
             /\ taken' = taken \cup {ops + 1} /\ UNCHANGED <<port, ported>>
    <3>1. /\ m_midiOutQueue' \in Seq(Nat) /\ Chain(m_midiOutQueue')
          /\ In(m_midiOutQueue') = In(m_midiOutQueue) \cup {ops + 1}
      BY <1>1, <1>2, <2>1, <2>2, <2>3, AppendIn
    <3>2. QED
      BY <1>2, <2>1, <2>2, <2>3, <3>1 DEF Waiting
  <2>4. CASE /\ port' = Append(port, ops + 1)
             /\ ported' = ported \cup {ops + 1} /\ UNCHANGED <<m_midiOutQueue, taken>>
    <3>1. /\ port' \in Seq(Nat) /\ Chain(port')
          /\ In(port') = In(port) \cup {ops + 1}
      BY <1>1, <1>2, <2>1, <2>2, <2>4, AppendIn
    <3>2. QED
      BY <1>2, <2>1, <2>2, <2>4, <3>1 DEF Waiting
  <2>5. QED
    BY <2>3, <2>4
<1>4. InHand' = InHand /\ In(sent)' = In(sent)
  BY DEF InHand, In
<1>5. /\ taken' \cup ported' = taken \cup ported \cup {ops + 1}
      /\ \A m, n \in taken \cup ported : Same(m, n)' <=> Same(m, n)
  BY <1>1 DEF Same
<1>6. MidiTypes'
  <2>1. taken' \subseteq 1 .. ops + 1 /\ ported' \subseteq 1 .. ops + 1
    <3>1. ops + 1 \in 1 .. ops + 1 /\ \A n \in 1 .. ops : n \in 1 .. ops + 1
      BY <1>0 DEF MidiTypes
    <3>2. taken \subseteq 1 .. ops /\ ported \subseteq 1 .. ops
      BY <1>0 DEF MidiTypes
    <3>3. QED
      BY <3>1, <3>2
  <2>2. taken' \cap ported' = {}
    BY <1>0, <1>1 DEF MidiTypes
  <2>3. QED
    BY <1>0, <1>1, <1>3, <2>1, <2>2 DEF MidiTypes
<1>7. QueuesInOrder'
  BY <1>3 DEF QueuesInOrder
<1>8. InHandBeforeWaiting'
  <2> SUFFICES ASSUME NEW n \in InHand
               PROVE  /\ n \in taken' \cup ported'
                      /\ \A m \in Waiting \cup {ops + 1} : Same(n, m)' => n < m
    BY <1>3, <1>4 DEF InHandBeforeWaiting
  <2>1. n \in taken \cup ported /\ n < ops + 1
    BY <1>1
  <2>2. \A m \in Waiting : Same(n, m)' => n < m
    BY <1>0, <1>1, <1>5, <2>1 DEF InHandBeforeWaiting
  <2>3. QED
    BY <1>5, <2>1, <2>2
<1>9. SentBeforeRest'
  <2> SUFFICES ASSUME NEW n \in In(sent)
               PROVE  /\ n \in taken' \cup ported'
                      /\ \A m \in Waiting \cup {ops + 1} \cup InHand : Same(n, m)' => n < m
    BY <1>3, <1>4 DEF SentBeforeRest
  <2>1. n \in taken \cup ported /\ n < ops + 1
    BY <1>1
  <2>2. \A m \in Waiting \cup InHand : Same(n, m)' => n < m
    BY <1>0, <1>1, <1>5, <2>1 DEF SentBeforeRest
  <2>3. QED
    BY <1>5, <2>1, <2>2
<1>10. SentInOrder'
  <2>1. \A k \in 1 .. Len(sent) : sent[k] \in taken \cup ported
    BY <1>1 DEF In
  <2>2. QED
    BY <1>0, <1>5, <2>1 DEF SentInOrder
<1>11. NoneMissing'
  BY <1>0, <1>3, <1>4, <1>5 DEF NoneMissing
<1>12. QED
  BY <1>6, <1>7, <1>8, <1>9, <1>10, <1>11 DEF MInv

\* The fast thread takes a message in its hands.
LEMMA TakeUp ==
  ASSUME MInv, InHand = {}, fast' = "write", UNCHANGED <<ops, taken, ported, sent, lost>>,
         \/ /\ m_midiOutQueue # << >> /\ midiMsg_' = Head(m_midiOutQueue)
            /\ m_midiOutQueue' = Tail(m_midiOutQueue) /\ UNCHANGED port
         \/ /\ port # << >> /\ midiMsg_' = Head(port)
            /\ port' = Tail(port) /\ UNCHANGED m_midiOutQueue
  PROVE  MInv'
<1>0. /\ MidiTypes /\ QueuesInOrder /\ SentBeforeRest /\ SentInOrder /\ NoneMissing
      /\ m_midiOutQueue \in Seq(Nat) /\ port \in Seq(Nat)
      /\ Chain(m_midiOutQueue) /\ Chain(port)
      /\ In(m_midiOutQueue) \subseteq taken /\ In(port) \subseteq ported
      /\ taken \cap ported = {}
  BY DEF MInv, MidiTypes, QueuesInOrder
<1>1. InHand' = {midiMsg_'} /\ In(sent)' = In(sent)
  BY DEF InHand, In
<1>2. /\ midiMsg_' \in Nat /\ m_midiOutQueue' \in Seq(Nat) /\ port' \in Seq(Nat)
      /\ Chain(m_midiOutQueue)' /\ Chain(port)'
      /\ In(m_midiOutQueue)' \subseteq In(m_midiOutQueue) /\ In(port)' \subseteq In(port)
      /\ Waiting = Waiting' \cup {midiMsg_'}
      /\ \A m \in Waiting' : Same(midiMsg_', m) => midiMsg_' < m
  <2>1. CASE /\ m_midiOutQueue # << >> /\ midiMsg_' = Head(m_midiOutQueue)
             /\ m_midiOutQueue' = Tail(m_midiOutQueue) /\ UNCHANGED port
    <3>1. /\ midiMsg_' \in Nat /\ m_midiOutQueue' \in Seq(Nat) /\ Chain(m_midiOutQueue')
          /\ In(m_midiOutQueue) = In(m_midiOutQueue') \cup {midiMsg_'}
          /\ \A m \in In(m_midiOutQueue') : midiMsg_' < m
      BY <1>0, <2>1, TakeFirst
    <3>2. \A m \in In(port) : ~Same(midiMsg_', m)
      BY <1>0, <3>1 DEF Same
    <3>3. QED
      BY <1>0, <2>1, <3>1, <3>2 DEF Waiting
  <2>2. CASE /\ port # << >> /\ midiMsg_' = Head(port)
             /\ port' = Tail(port) /\ UNCHANGED m_midiOutQueue
    <3>1. /\ midiMsg_' \in Nat /\ port' \in Seq(Nat) /\ Chain(port')
          /\ In(port) = In(port') \cup {midiMsg_'}
          /\ \A m \in In(port') : midiMsg_' < m
      BY <1>0, <2>2, TakeFirst
    <3>2. \A m \in In(m_midiOutQueue) : ~Same(midiMsg_', m)
      BY <1>0, <3>1 DEF Same
    <3>3. QED
      BY <1>0, <2>2, <3>1, <3>2 DEF Waiting
  <2>3. QED
    BY <2>1, <2>2
<1>3. \A m, n : Same(m, n)' <=> Same(m, n)
  BY DEF Same
<1>4. MidiTypes'
  BY <1>0, <1>2 DEF MidiTypes
<1>5. QueuesInOrder'
  BY <1>0, <1>2 DEF QueuesInOrder
<1>6. midiMsg_' \in taken \cup ported
  BY <1>0, <1>2 DEF Waiting
<1>7. InHandBeforeWaiting'
  BY <1>1, <1>2, <1>3, <1>6 DEF InHandBeforeWaiting
<1>8. SentBeforeRest'
  <2>1. (Waiting \cup InHand)' = Waiting \cup InHand
    BY <1>1, <1>2
  <2>2. QED
    BY <1>0, <1>1, <1>3, <2>1 DEF SentBeforeRest
<1>9. SentInOrder'
  BY <1>0, <1>3 DEF SentInOrder
<1>10. NoneMissing'
  BY <1>0, <1>1, <1>2 DEF NoneMissing
<1>11. QED
  BY <1>4, <1>5, <1>7, <1>8, <1>9, <1>10 DEF MInv

\* The message is out of its hands: written, or failed.
LEMMA LetGo ==
  ASSUME MInv, fast = "write", fast' \in {"idle", "next"},
         UNCHANGED <<ops, taken, ported, m_midiOutQueue, port, midiMsg_>>,
         \/ sent' = Append(sent, midiMsg_) /\ UNCHANGED lost
         \/ UNCHANGED sent /\ lost' = lost \cup {midiMsg_}
  PROVE  MInv'
<1>0. /\ MidiTypes /\ QueuesInOrder /\ InHandBeforeWaiting /\ SentBeforeRest
      /\ SentInOrder /\ NoneMissing /\ sent \in Seq(Nat) /\ midiMsg_ \in Nat
  BY DEF MInv, MidiTypes
<1>1. /\ InHand = {midiMsg_} /\ InHand' = {} /\ Waiting' = Waiting
      /\ In(m_midiOutQueue)' = In(m_midiOutQueue) /\ In(port)' = In(port)
      /\ Chain(m_midiOutQueue)' = Chain(m_midiOutQueue) /\ Chain(port)' = Chain(port)
  BY DEF InHand, Waiting, In, Chain
<1>2. \A m, n : Same(m, n)' <=> Same(m, n)
  BY DEF Same
<1>3. InHandBeforeWaiting' /\ QueuesInOrder'
  BY <1>0, <1>1 DEF InHandBeforeWaiting, QueuesInOrder
<1>4. CASE UNCHANGED sent /\ lost' = lost \cup {midiMsg_}
  <2>1. In(sent)' = In(sent)
    BY <1>4 DEF In
  <2>2. MidiTypes'
    BY <1>0, <1>4 DEF MidiTypes
  <2>3. SentBeforeRest'
    BY <1>0, <1>1, <1>2, <2>1 DEF SentBeforeRest
  <2>4. SentInOrder'
    BY <1>0, <1>2, <1>4 DEF SentInOrder
  <2>5. NoneMissing'
    BY <1>0, <1>1, <1>4, <2>1 DEF NoneMissing
  <2>6. QED
    BY <1>3, <2>2, <2>3, <2>4, <2>5 DEF MInv
<1>5. CASE sent' = Append(sent, midiMsg_) /\ UNCHANGED lost
  <2>1. sent' \in Seq(Nat) /\ In(sent)' = In(sent) \cup {midiMsg_}
    BY <1>0, <1>5, AppendIn DEF In
  <2>2. MidiTypes'
    BY <1>0, <2>1 DEF MidiTypes
  <2>3. SentBeforeRest'
    <3> SUFFICES ASSUME NEW n \in In(sent) \cup {midiMsg_}
                 PROVE  n \in taken \cup ported /\ \A m \in Waiting : Same(n, m) => n < m
      BY <1>1, <1>2, <2>1 DEF SentBeforeRest
    <3>1. CASE n \in In(sent)
      BY <1>0, <3>1 DEF SentBeforeRest
    <3>2. CASE n = midiMsg_
      BY <1>0, <1>1, <3>2 DEF InHandBeforeWaiting
    <3>3. QED
      BY <3>1, <3>2
  <2>4. SentInOrder'
    <3>1. /\ Len(sent') = Len(sent) + 1 /\ Len(sent) \in Nat
          /\ \A i \in 1 .. Len(sent) : sent'[i] = sent[i]
          /\ sent'[Len(sent) + 1] = midiMsg_
      BY <1>0, <1>5, AppendProperties, LenProperties
    <3> SUFFICES ASSUME NEW j \in 1 .. Len(sent) + 1, NEW k \in 1 .. Len(sent) + 1,
                        j < k, Same(sent'[j], sent'[k])
                 PROVE  sent'[j] < sent'[k]
      BY <1>2, <3>1 DEF SentInOrder
    <3>2. j \in 1 .. Len(sent)
      BY <3>1
    <3>3. CASE k \in 1 .. Len(sent)
      BY <1>0, <3>1, <3>2, <3>3 DEF SentInOrder
    <3>4. CASE k = Len(sent) + 1
      <4>1. sent[j] \in In(sent) /\ Same(sent[j], midiMsg_)
        BY <3>1, <3>2, <3>4 DEF In
      <4>2. sent[j] < midiMsg_
        BY <1>0, <1>1, <4>1 DEF SentBeforeRest
      <4>3. QED
        BY <3>1, <3>2, <3>4, <4>2
    <3>5. QED
      BY <3>1, <3>3, <3>4
  <2>5. NoneMissing'
    BY <1>0, <1>1, <1>5, <2>1 DEF NoneMissing
  <2>6. QED
    BY <1>3, <2>2, <2>3, <2>4, <2>5 DEF MInv
<1>6. QED
  BY <1>4, <1>5

\* Nothing else has to do with messages.
LEMMA Apart ==
  ASSUME MInv, UNCHANGED <<taken, ported, sent, lost, m_midiOutQueue, port, midiMsg_>>,
         ops' \in {ops, ops + 1}, fast' = fast \/ {fast, fast'} \subseteq {"idle", "next"}
  PROVE  MInv'
<1>1. /\ Waiting' = Waiting /\ InHand' = InHand /\ In(sent)' = In(sent)
      /\ In(m_midiOutQueue)' = In(m_midiOutQueue) /\ In(port)' = In(port)
      /\ Chain(m_midiOutQueue)' = Chain(m_midiOutQueue) /\ Chain(port)' = Chain(port)
      /\ \A m, n : Same(m, n)' <=> Same(m, n)
  BY DEF InHand, Waiting, In, Chain, Same
<1>2. MidiTypes'
  BY DEF MInv, MidiTypes
<1>3. QED
  BY <1>1, <1>2 DEF MInv, QueuesInOrder, InHandBeforeWaiting, SentBeforeRest, SentInOrder,
                    NoneMissing

\* Every step keeps the invariant.
LEMMA NextMInv == MInv /\ [Next]_vars => MInv'
<1> SUFFICES ASSUME MInv, [Next]_vars PROVE MInv'
  OBVIOUS
<1>1. CASE SendMidiMsg
  <2>1. CASE Len(m_midiOutQueue) < QueueCapacity
    BY <1>1, <2>1, Accept DEF SendMidiMsg
  <2>2. CASE ~(Len(m_midiOutQueue) < QueueCapacity)
    BY <1>1, <2>2, Apart DEF SendMidiMsg
  <2>3. QED
    BY <2>1, <2>2
<1>2. CASE PortMsg
  BY <1>2, Accept DEF PortMsg
<1>3. CASE FastTick
  BY <1>3, Apart DEF FastTick
<1>4. CASE FastNext
  <2>1. InHand = {}
    BY <1>4 DEF FastNext, InHand
  <2>2. CASE fast' = "write"
    BY <1>4, <2>1, <2>2, TakeUp DEF FastNext
  <2>3. CASE fast' # "write"
    BY <1>4, <2>3, Apart DEF FastNext
  <2>4. QED
    BY <2>2, <2>3
<1>5. CASE FastWrite
  BY <1>5, LetGo DEF FastWrite
<1>6. CASE FastFail
  BY <1>6, LetGo DEF FastFail
<1>7. CASE UNCHANGED midiVars /\ ops' \in {ops, ops + 1}
  BY <1>7, Apart DEF midiVars
<1>8. ASSUME NEW x \in {"tick", "init"}, Leds(x) PROVE UNCHANGED midiVars /\ ops' = ops
  BY <1>8 DEF Leds, LedsClean, LedsWrite, LedsFail, LedsClear
<1>9. Client \/ Frame \/ TickBegin \/ TickEnd => UNCHANGED midiVars /\ ops' = ops
  BY DEF Client, ClientTest, ClientFlag, Frame, FrameClean, FrameBegin, FrameChunk, FrameFail,
         FrameDone, TickBegin, TickEnd
<1>10. InitAgain \/ Connected \/ Disconnected \/ Connect => UNCHANGED midiVars /\ ops' = ops
  BY DEF InitAgain, Connected, Disconnected, Connect
<1>11. ASSUME NEW who, NEW s, NEW v, ClientStore(who, s, v) \/ Disconnect
       PROVE  UNCHANGED midiVars /\ ops' = ops + 1
  BY <1>11 DEF ClientStore, Disconnect
<1>12. UNCHANGED vars => UNCHANGED midiVars /\ ops' = ops
  BY DEF vars
<1>13. QED
  BY <1>1, <1>2, <1>3, <1>4, <1>5, <1>6, <1>7, <1>8, <1>9, <1>10, <1>11, <1>12
     DEF Next, Tick, Scan, Fast

\* The messages of the client are written in the order of its calls and those of applications
\* in theirs, none twice, and none disappears without a failure, over any number of failed
\* writes and reconnections.
THEOREM MidiOrdered == Spec => []MidiInOrder
<1>1. MInv => MidiInOrder
  <2> SUFFICES ASSUME MInv PROVE MidiInOrder
    OBVIOUS
  <2>1. /\ DOMAIN sent = 1 .. Len(sent) /\ DOMAIN port = 1 .. Len(port)
        /\ DOMAIN m_midiOutQueue = 1 .. Len(m_midiOutQueue)
    BY LenProperties DEF MInv, MidiTypes
  <2>2. \A j, k \in DOMAIN sent :
          j < k /\ (sent[j] \in taken <=> sent[k] \in taken) => sent[j] < sent[k]
    BY <2>1 DEF MInv, SentInOrder, Same
  <2>3. ASSUME NEW m \in (taken \cup ported) \ lost
        PROVE  \/ fast = "write" /\ m = midiMsg_
               \/ \E q \in {sent, m_midiOutQueue, port} : \E k \in DOMAIN q : q[k] = m
    <3>1. m \in In(sent) \cup In(m_midiOutQueue) \cup In(port) \cup InHand
      BY DEF MInv, NoneMissing, Waiting
    <3>2. CASE m \in InHand
      BY <3>2 DEF InHand
    <3>3. CASE m \in In(sent)
      BY <2>1, <3>3 DEF In
    <3>4. CASE m \in In(m_midiOutQueue)
      BY <2>1, <3>4 DEF In
    <3>5. CASE m \in In(port)
      BY <2>1, <3>5 DEF In
    <3>6. QED
      BY <3>1, <3>2, <3>3, <3>4, <3>5
  <2>4. QED
    BY <2>2, <2>3 DEF MidiInOrder
<1>2. MInv /\ [Next]_vars => MInv'
  BY NextMInv
<1>3. QED
  BY <1>1, <1>2, InitMInv, PTL DEF Spec
-------------------------------------------------------------------------------
(***************************************************************************)
(* Displays and LEDs.  A surface is settled when it is dirty, shown as it  *)
(* is, given up, or raced.  All of them are, but for the one the client is *)
(* changing, whose place says what is still to be done for it.             *)
(***************************************************************************)
X == {"tick", "init"}
Colors == Values \cup {"off"}

Places == [at : {"idle", "frame", "read", "leds"}, k : Nat, piece : 0 .. (Chunks + 1)]
Clients == [who : {"none", "coordinator", "usb"}, s : Surfaces \cup {"none"},
            at : {"none", "stored", "tested"}, old : Values, seen : BOOLEAN, flag : BOOLEAN]

DrawTypes ==
  /\ data \in [Surfaces -> Values] /\ dirty \in [Surfaces -> BOOLEAN]
  /\ raced \in [Surfaces -> BOOLEAN]
  /\ shown \in [Surfaces -> [1 .. Chunks -> Colors] \cup [{1} -> Colors]]
  /\ \A s \in Surfaces : shown[s] \in [Pieces(s) -> Colors]
  /\ m_sendFrameFailCount \in [Displays -> 0 .. (kMaxSendFrameRetries - 1)]
  /\ streak \in [Displays -> 0 .. kMaxSendFrameRetries]

PlaceTypes ==
  /\ scan \in {"up", "stopping", "down", "first", "second"}
  /\ m_tickStep \in {"frame", "read", "leds"}
  /\ pos \in [X -> Places] /\ client \in Clients

\* tick() runs while the device is up, and init() while it is not.
OneAtATime ==
  /\ At("tick") # "idle" => scan = "up"
  /\ At("init") # "idle" => scan \in {"first", "second"} /\ At("init") = "leds"
  /\ \A x \in X : At(x) # "idle" => pos[x].k >= 1

CountIsCovered == \A d \in Displays : m_sendFrameFailCount[d] <= streak[d]

Whole(s)   == \A p \in Pieces(s) : shown[s][p] = data[s]
GivenUp(s) == s \in Displays /\ streak[s] >= kMaxSendFrameRetries
Excused(s) == raced[s] \/ GivenUp(s) \/ Whole(s)
Settled(s) == dirty[s] \/ Excused(s)

\* The pieces of s that x has sent.
SentPieces(x, s) == IF At(x) = "frame" THEN {p \in Pieces(s) : p < pos[x].piece} ELSE Pieces(s)

SentIsShown ==
  \A x \in X, s \in Surfaces :
    Sending(x, s) => raced[s] \/ \A p \in SentPieces(x, s) : shown[s][p] = data[s]

ClientIsRight ==
  /\ client = Free \/ (client.s \in Surfaces /\ client.at \in {"stored", "tested"})
  /\ client.s \in Displays => client.at = "tested" /\ client.flag /\ ~client.seen
  /\ client.at = "stored" /\ data[client.s] = client.old => Settled(client.s)
  /\ client.at = "tested" => client.flag \/ Excused(client.s)
  /\ client.at = "tested" /\ client.seen => dirty[client.s] \/ raced[client.s]

RestIsSettled == \A s \in Surfaces : client.s # s => Settled(s)

Shape == DrawTypes /\ PlaceTypes /\ OneAtATime /\ CountIsCovered
DInv  == Shape /\ SentIsShown /\ ClientIsRight /\ RestIsSettled

\* Where something is sent there is a surface, of the kind that is sent there.
LEMMA SurfaceIs ==
  ASSUME Shape, NEW x \in X, ~Finished(x)
  PROVE  /\ At(x) = "frame" => Surface(x) \in Displays /\ x = "tick"
         /\ At(x) = "leds" => Surface(x) \in Groups
<1>1. pos[x].k \in Nat /\ (At(x) # "idle" => pos[x].k >= 1)
  BY DEF Shape, PlaceTypes, OneAtATime, Places
<1>2. CASE At(x) = "frame"
  <2>1. Len(DisplaySeq) \in Nat
    BY SurfacesAssumption, LenProperties
  <2>2. pos[x].k \in 1 .. Len(DisplaySeq)
    BY <1>1, <1>2, <2>1 DEF Finished, SeqAt
  <2>3. DisplaySeq[pos[x].k] \in Displays
    BY <2>2, SurfacesAssumption, ElementOfSeq
  <2>4. x = "tick"
    BY <1>2 DEF Shape, OneAtATime, X
  <2>5. QED
    BY <1>2, <2>3, <2>4 DEF Surface, SeqAt
<1>3. CASE At(x) = "leds"
  <2>1. Len(GroupSeq) \in Nat
    BY SurfacesAssumption, LenProperties
  <2>2. pos[x].k \in 1 .. Len(GroupSeq)
    BY <1>1, <1>3, <2>1 DEF Finished, SeqAt
  <2>3. GroupSeq[pos[x].k] \in Groups
    BY <2>2, SurfacesAssumption, ElementOfSeq
  <2>4. QED
    BY <1>3, <2>3 DEF Surface, SeqAt
<1>4. QED
  BY <1>2, <1>3

\* A place moves, and the other stays.
LEMMA MoveIs ==
  ASSUME Shape, NEW x \in X, NEW k \in Nat, NEW n \in 0 .. (Chunks + 1), Move(x, k, n)
  PROVE  /\ pos' \in [X -> Places]
         /\ pos'[x].at = pos[x].at /\ pos'[x].k = k /\ pos'[x].piece = n
         /\ \A y \in X \ {x} : pos'[y] = pos[y]
BY DEF Shape, PlaceTypes, Places, Move, X

\* Nothing is sent where a place has just moved to.
LEMMA NotSending ==
  ASSUME NEW x, pos[x].piece = 0
  PROVE  \A s : ~Sending(x, s)
BY DEF Sending

\* What a step that touches one surface has to do for it.
LEMMA Touch ==
  ASSUME DInv, NEW d \in Surfaces, UNCHANGED <<client, data>>,
         \A t \in Surfaces \ {d} :
           /\ dirty'[t] = dirty[t] /\ raced'[t] = raced[t] /\ shown'[t] = shown[t]
           /\ t \in Displays => streak'[t] = streak[t],
         Settled(d)', client.s = d => raced'[d]
  PROVE  ClientIsRight' /\ RestIsSettled'
<1>1. \A t \in Surfaces \ {d} : (Settled(t)' <=> Settled(t)) /\ (Excused(t)' <=> Excused(t))
  BY DEF Settled, Excused, GivenUp, Whole, Pieces
<1>2. RestIsSettled'
  BY <1>1 DEF DInv, RestIsSettled
<1>3. ClientIsRight'
  <2>1. CASE client.s = d
    <3>1. Excused(d)' /\ Settled(d)' /\ raced'[d]
      BY <2>1 DEF Settled, Excused
    <3>2. QED
      BY <2>1, <3>1 DEF DInv, ClientIsRight
  <2>2. CASE client.s \in Surfaces \ {d}
    BY <1>1, <2>2 DEF DInv, ClientIsRight
  <2>3. CASE client = Free
    BY <2>3, SurfacesAssumption DEF ClientIsRight, Free, Surfaces
  <2>4. QED
    BY <2>1, <2>2, <2>3 DEF DInv, ClientIsRight
<1>4. QED
  BY <1>2, <1>3

\* A step that leaves the surfaces and the client alone, and begins to send nothing.
LEMMA Still ==
  ASSUME DInv, UNCHANGED <<drawVars, client>>,
         \A x \in X : pos'[x] = pos[x] \/ pos'[x].piece = 0
  PROVE  SentIsShown' /\ ClientIsRight' /\ RestIsSettled' /\ DrawTypes' /\ CountIsCovered'
<1>1. UNCHANGED <<data, dirty, shown, m_sendFrameFailCount, streak, raced, client>>
  BY DEF drawVars
<1>2. SentIsShown'
  <2> SUFFICES ASSUME NEW x \in X, NEW s \in Surfaces, Sending(x, s)'
               PROVE  raced[s] \/ \A p \in SentPieces(x, s)' : shown[s][p] = data[s]
    BY <1>1 DEF SentIsShown
  <2>1. pos'[x] = pos[x]
    BY DEF Sending, PlaceTypes, Places
  <2>2. Sending(x, s) /\ SentPieces(x, s)' = SentPieces(x, s)
    BY <2>1 DEF Sending, SentPieces, At, SeqAt, Finished, Surface
  <2>3. QED
    BY <2>2 DEF DInv, SentIsShown
<1>3. \A s \in Surfaces : (Settled(s)' <=> Settled(s)) /\ (Excused(s)' <=> Excused(s))
  BY <1>1 DEF Settled, Excused, GivenUp, Whole, Pieces
<1>4. ClientIsRight' /\ RestIsSettled'
  <2>1. CASE client.s \in Surfaces
    BY <1>1, <1>3, <2>1 DEF DInv, ClientIsRight, RestIsSettled
  <2>2. CASE client = Free
    BY <1>1, <1>3, <2>2, SurfacesAssumption
       DEF DInv, ClientIsRight, RestIsSettled, Free, Surfaces
  <2>3. QED
    BY <2>1, <2>2 DEF DInv, ClientIsRight
<1>5. DrawTypes' /\ CountIsCovered'
  BY <1>1 DEF DInv, Shape, DrawTypes, CountIsCovered
<1>6. QED
  BY <1>2, <1>4, <1>5

\* A step of a sending that touches one surface.
LEMMA Send ==
  ASSUME DInv, NEW x \in X, At(x) # "idle", NEW d \in Surfaces, Surface(x) = d,
         NEW k \in Nat, k >= 1, NEW n \in 0 .. (Chunks + 1), Move(x, k, n),
         UNCHANGED <<scan, m_tickStep, client, data>>, DrawTypes', CountIsCovered',
         \A t \in Surfaces \ {d} :
           /\ dirty'[t] = dirty[t] /\ raced'[t] = raced[t] /\ shown'[t] = shown[t]
           /\ t \in Displays => streak'[t] = streak[t],
         Settled(d)', client.s = d => raced'[d],
         n # 0 => /\ k = pos[x].k
                  /\ raced'[d] \/ \A p \in SentPieces(x, d)' : shown'[d][p] = data[d]
  PROVE  DInv'
<1>1. ClientIsRight' /\ RestIsSettled'
  BY Touch
<1>2. /\ pos' \in [X -> Places]
      /\ pos'[x].at = pos[x].at /\ pos'[x].k = k /\ pos'[x].piece = n
      /\ \A y \in X \ {x} : pos'[y] = pos[y]
  BY MoveIs DEF DInv
<1>3. \A y \in X \ {x} : At(y) = "idle"
  BY DEF DInv, Shape, PlaceTypes, OneAtATime, X
<1>4. Shape'
  <2>1. OneAtATime'
    BY <1>2, <1>3 DEF DInv, Shape, OneAtATime, At, X
  <2>2. PlaceTypes'
    BY <1>2 DEF DInv, Shape, PlaceTypes, Clients
  <2>3. QED
    BY <2>1, <2>2 DEF Shape
<1>5. SentIsShown'
  <2> SUFFICES ASSUME NEW y \in X, NEW s \in Surfaces, Sending(y, s)'
               PROVE  raced'[s] \/ \A p \in SentPieces(y, s)' : shown'[s][p] = data'[s]
    BY DEF SentIsShown
  <2>1. y = x /\ n # 0
    BY <1>2, <1>3 DEF Sending, At
  <2>2. s = d
    BY <1>2, <2>1 DEF Sending, Surface, SeqAt, At
  <2>3. QED
    BY <2>1, <2>2
<1>6. QED
  BY <1>1, <1>4, <1>5 DEF DInv

\* The last step of a surface.
LEMMA Leave ==
  ASSUME DInv, NEW x \in X, At(x) # "idle", NEW d \in Surfaces, Surface(x) = d,
         pos[x].k \in Nat, NextSurface(x),
         UNCHANGED <<scan, m_tickStep, client, data>>, DrawTypes', CountIsCovered',
         \A t \in Surfaces \ {d} :
           /\ dirty'[t] = dirty[t] /\ raced'[t] = raced[t] /\ shown'[t] = shown[t]
           /\ t \in Displays => streak'[t] = streak[t],
         Settled(d)', client.s = d => raced'[d]
  PROVE  DInv'
<1>1. PICK k \in Nat : k = pos[x].k + 1 /\ k >= 1
  OBVIOUS
<1>2. 0 \in 0 .. (Chunks + 1)
  BY BoundsAssumption
<1>3. Move(x, k, 0)
  BY <1>1 DEF NextSurface
<1>4. QED
  BY <1>1, <1>2, <1>3, BoundsAssumption, Send

\* What the steps of a frame find.
LEMMA InFrame ==
  ASSUME DInv, InTick("frame"), NEW d, d = Surface("tick")
  PROVE  /\ "tick" \in X /\ At("tick") # "idle" /\ At("tick") = "frame"
         /\ d \in Displays /\ d \in Surfaces /\ d \notin Groups /\ Pieces(d) = 1 .. Chunks
         /\ pos["tick"].k \in Nat /\ pos["tick"].k >= 1 /\ pos["tick"].k + 1 \in Nat
         /\ pos["tick"].k + 1 >= 1
         /\ client.s # d => Settled(d)
         /\ pos["tick"].piece > 0 => Sending("tick", d)
<1>1. "tick" \in X /\ At("tick") = "frame" /\ ~Finished("tick")
  BY DEF InTick, X
<1>2. d \in Displays
  BY <1>1, SurfaceIs DEF DInv
<1>3. pos["tick"].k \in Nat /\ pos["tick"].k >= 1
  BY <1>1 DEF DInv, Shape, PlaceTypes, OneAtATime, Places
<1>4. d \in Surfaces /\ d \notin Groups
  BY <1>2, SurfacesAssumption DEF Surfaces
<1>5. QED
  BY <1>1, <1>2, <1>3, <1>4 DEF DInv, RestIsSettled, Sending, Pieces

LEMMA InGroup ==
  ASSUME DInv, NEW x \in X, InLeds(x), NEW g, g = Surface(x)
  PROVE  /\ At(x) # "idle" /\ At(x) = "leds"
         /\ g \in Groups /\ g \in Surfaces /\ g \notin Displays /\ Pieces(g) = {1}
         /\ pos[x].k \in Nat /\ pos[x].k >= 1 /\ pos[x].k + 1 \in Nat /\ pos[x].k + 1 >= 1
         /\ pos[x].piece > 0 => Sending(x, g)
<1>1. At(x) = "leds" /\ ~Finished(x)
  BY DEF InLeds
<1>2. g \in Groups
  BY <1>1, SurfaceIs DEF DInv
<1>3. pos[x].k \in Nat /\ pos[x].k >= 1
  BY <1>1 DEF DInv, Shape, PlaceTypes, OneAtATime, Places
<1>4. g \in Surfaces /\ g \notin Displays
  BY <1>2, SurfacesAssumption DEF Surfaces
<1>5. QED
  BY <1>1, <1>2, <1>3, <1>4 DEF Sending, Pieces

\* sendFrame() keeps the invariant: a frame that is given up has failed often enough,
\* and one that is done has sent every piece.
LEMMA FrameKeeps == DInv /\ Frame => DInv'
<1> SUFFICES ASSUME DInv, Frame, NEW d, d = Surface("tick"), NEW p, p = pos["tick"].piece
             PROVE  DInv'
  OBVIOUS
<1>0. Shape /\ DrawTypes /\ CountIsCovered
  BY DEF DInv, Shape
<1>c. Chunks \in Nat /\ 0 \in 0 .. (Chunks + 1) /\ 1 \in 0 .. (Chunks + 1)
  BY BoundsAssumption
<1>1. CASE FrameClean
  <2>1. InTick("frame") /\ NextSurface("tick") /\ UNCHANGED <<scan, m_tickStep, drawVars, client>>
    BY <1>1 DEF FrameClean
  <2>2. pos["tick"].k + 1 \in Nat /\ pos["tick"].k + 1 >= 1 /\ "tick" \in X
    BY <2>1, InFrame
  <2>3. /\ pos' \in [X -> Places] /\ pos'["tick"].piece = 0 /\ pos'["tick"].at = pos["tick"].at
        /\ pos'["tick"].k = pos["tick"].k + 1
        /\ \A y \in X \ {"tick"} : pos'[y] = pos[y]
    BY <1>0, <1>c, <2>1, <2>2, MoveIs DEF NextSurface
  <2>4. SentIsShown' /\ ClientIsRight' /\ RestIsSettled' /\ DrawTypes' /\ CountIsCovered'
    BY <2>1, <2>3, Still
  <2>5. OneAtATime'
    BY <1>0, <2>1, <2>2, <2>3 DEF Shape, OneAtATime, At, X
  <2>6. PlaceTypes'
    BY <1>0, <2>1, <2>3 DEF Shape, PlaceTypes, Clients
  <2>7. QED
    BY <2>4, <2>5, <2>6 DEF DInv, Shape
<1>2. CASE FrameBegin
  <2>1. /\ InTick("frame") /\ dirty[d] /\ Move("tick", pos["tick"].k, 1)
        /\ raced' = [raced EXCEPT ![d] = client.s = d]
        /\ UNCHANGED <<scan, m_tickStep, data, dirty, shown, m_sendFrameFailCount, streak, client>>
    BY <1>2 DEF FrameBegin, Begin
  <2>2. /\ "tick" \in X /\ At("tick") # "idle" /\ At("tick") = "frame" /\ d \in Surfaces
        /\ pos["tick"].k \in Nat /\ pos["tick"].k >= 1 /\ Pieces(d) = 1 .. Chunks
    BY <2>1, InFrame
  <2>3. raced' \in [Surfaces -> BOOLEAN] /\ (client.s = d => raced'[d])
    BY <1>0, <2>1, <2>2 DEF DrawTypes
  <2>4. DrawTypes' /\ CountIsCovered'
    BY <1>0, <2>1, <2>3 DEF DrawTypes, CountIsCovered
  <2>5. pos'["tick"].at = "frame" /\ pos'["tick"].piece = 1
    BY <1>0, <1>c, <2>1, <2>2, MoveIs DEF At
  <2>6. SentPieces("tick", d)' = {}
    BY <1>c, <2>2, <2>5 DEF SentPieces, At, Pieces
  <2>7. Settled(d)'
    BY <2>1 DEF Settled
  <2>8. \A t \in Surfaces \ {d} : raced'[t] = raced[t]
    BY <1>0, <2>1 DEF DrawTypes
  <2>9. QED
    BY <1>c, <2>1, <2>2, <2>3, <2>4, <2>6, <2>7, <2>8, Send
<1>3. CASE FrameChunk
  <2>1. /\ InTick("frame") /\ p \in 1 .. Chunks /\ Move("tick", pos["tick"].k, p + 1)
        /\ shown' = [shown EXCEPT ![d][p] = data[d]]
        /\ raced' = [raced EXCEPT ![d] = @ \/ client.s = d]
        /\ UNCHANGED <<scan, m_tickStep, data, dirty, m_sendFrameFailCount, streak, client>>
    BY <1>3 DEF FrameChunk, Goes
  <2>2. /\ "tick" \in X /\ At("tick") # "idle" /\ At("tick") = "frame" /\ d \in Surfaces
        /\ pos["tick"].k \in Nat /\ pos["tick"].k >= 1 /\ Pieces(d) = 1 .. Chunks
        /\ client.s # d => Settled(d)
        /\ p > 0 => Sending("tick", d)
    BY <2>1, InFrame
  <2>3. raced' \in [Surfaces -> BOOLEAN] /\ (raced'[d] <=> raced[d] \/ client.s = d)
    BY <1>0, <2>1, <2>2 DEF DrawTypes
  <2>4. /\ \A t \in Surfaces \ {d} : raced'[t] = raced[t] /\ shown'[t] = shown[t]
        /\ shown'[d] = [shown[d] EXCEPT ![p] = data[d]]
    BY <1>0, <2>1, <2>2 DEF DrawTypes
  <2>5. data[d] \in Colors /\ shown[d] \in [1 .. Chunks -> Colors]
    BY <1>0, <2>2 DEF DrawTypes, Colors
  <2>6. /\ shown'[d] \in [1 .. Chunks -> Colors] /\ shown'[d][p] = data[d]
        /\ \A q \in 1 .. Chunks : q # p => shown'[d][q] = shown[d][q]
    <3>1. p \in 1 .. Chunks
      BY <2>1
    <3>2. QED
      BY <2>4, <2>5, <3>1
  <2>7. DrawTypes' /\ CountIsCovered'
    <3>1. \A t \in Surfaces : shown'[t] \in [Pieces(t)' -> Colors]
      BY <1>0, <2>2, <2>4, <2>6 DEF DrawTypes, Pieces
    <3>2. shown' \in [Surfaces -> [1 .. Chunks -> Colors] \cup [{1} -> Colors]]
      <4>1. \A t \in Surfaces : shown'[t] \in [1 .. Chunks -> Colors] \cup [{1} -> Colors]
        BY <3>1 DEF Pieces
      <4>2. shown' = [t \in Surfaces |-> shown'[t]]
        BY <1>0, <2>1 DEF DrawTypes
      <4>3. QED
        BY <4>1, <4>2
    <3>3. QED
      BY <1>0, <2>1, <2>3, <3>1, <3>2 DEF DrawTypes, CountIsCovered
  <2>8. Settled(d)'
    <3>1. CASE client.s = d
      BY <2>3, <3>1 DEF Settled, Excused
    <3>2. CASE client.s # d
      <4>1. dirty[d] \/ raced[d] \/ GivenUp(d) \/ Whole(d)
        BY <2>2, <3>2 DEF Settled, Excused
      <4>2. Whole(d) => Whole(d)'
        BY <2>1, <2>2, <2>6 DEF Whole, Pieces
      <4>3. GivenUp(d) => GivenUp(d)'
        BY <2>1 DEF GivenUp
      <4>4. QED
        BY <2>1, <2>3, <4>1, <4>2, <4>3 DEF Settled, Excused
    <3>3. QED
      BY <3>1, <3>2
  <2>9. p + 1 \in 0 .. (Chunks + 1)
    BY <1>c, <2>1
  <2>10. raced'[d] \/ \A q \in SentPieces("tick", d)' : shown'[d][q] = data[d]
    <3>1. pos'["tick"].at = "frame" /\ pos'["tick"].piece = p + 1
      BY <1>0, <2>1, <2>2, <2>9, MoveIs DEF At
    <3>2. SentPieces("tick", d)' = {q \in 1 .. Chunks : q < p + 1}
      BY <2>2, <3>1 DEF SentPieces, At, Pieces
    <3>3. raced[d] \/ \A q \in {q \in 1 .. Chunks : q < p} : shown[d][q] = data[d]
      BY <1>c, <2>1, <2>2 DEF DInv, SentIsShown, SentPieces
    <3>4. \A q \in 1 .. Chunks : q < p + 1 => q < p \/ q = p
      BY <2>1
    <3>5. QED
      BY <2>3, <2>6, <3>2, <3>3, <3>4
  <2>11. QED
    BY <2>1, <2>2, <2>3, <2>4, <2>7, <2>8, <2>9, <2>10, Send
<1>4. CASE FrameFail
  <2>1. /\ InTick("frame") /\ p \in 1 .. Chunks /\ NextSurface("tick")
        /\ IF GivesUp(d)
             THEN /\ dirty' = [dirty EXCEPT ![d] = FALSE]
                  /\ m_sendFrameFailCount' = [m_sendFrameFailCount EXCEPT ![d] = 0]
             ELSE /\ m_sendFrameFailCount' = [m_sendFrameFailCount EXCEPT ![d] = @ + 1]
                  /\ dirty' = dirty
        /\ streak' = [streak EXCEPT ![d] = IF @ < kMaxSendFrameRetries THEN @ + 1 ELSE @]
        /\ raced' = [raced EXCEPT ![d] = @ \/ client.s = d]
        /\ UNCHANGED <<scan, m_tickStep, data, shown, client>>
    BY <1>4 DEF FrameFail, Goes
  <2>2. /\ "tick" \in X /\ At("tick") # "idle" /\ d \in Displays /\ d \in Surfaces
        /\ pos["tick"].k + 1 \in Nat /\ pos["tick"].k + 1 >= 1
        /\ client.s # d => Settled(d)
    BY <2>1, InFrame
  <2>3. raced' \in [Surfaces -> BOOLEAN] /\ (raced'[d] <=> raced[d] \/ client.s = d)
    BY <1>0, <2>1, <2>2 DEF DrawTypes
  <2>4. /\ m_sendFrameFailCount[d] \in 0 .. (kMaxSendFrameRetries - 1)
        /\ streak[d] \in 0 .. kMaxSendFrameRetries
        /\ m_sendFrameFailCount[d] <= streak[d]
        /\ streak'[d] = IF streak[d] < kMaxSendFrameRetries THEN streak[d] + 1 ELSE streak[d]
    BY <1>0, <2>1, <2>2 DEF DrawTypes, CountIsCovered
  <2>5. /\ \A t \in Surfaces \ {d} : raced'[t] = raced[t] /\ dirty'[t] = dirty[t]
        /\ \A t \in Displays \ {d} : /\ streak'[t] = streak[t]
                                     /\ m_sendFrameFailCount'[t] = m_sendFrameFailCount[t]
    BY <1>0, <2>1, <2>2 DEF DrawTypes
  <2>e. \A t \in Surfaces \ {d} :
          /\ dirty'[t] = dirty[t] /\ raced'[t] = raced[t] /\ shown'[t] = shown[t]
          /\ t \in Displays => streak'[t] = streak[t]
    BY <2>1, <2>5
  <2>f. NextSurface("tick") /\ UNCHANGED <<scan, m_tickStep, data, client>>
    BY <2>1
  <2>g. pos["tick"].k \in Nat
    BY <2>1, InFrame
  <2>6. CASE GivesUp(d)
    <3>1. streak'[d] = kMaxSendFrameRetries
      BY <2>4, <2>6, RetriesAssumption DEF GivesUp
    <3>2. m_sendFrameFailCount'[d] = 0 /\ dirty' \in [Surfaces -> BOOLEAN]
      BY <1>0, <2>1, <2>2, <2>6 DEF DrawTypes
    <3>3. Settled(d)'
      BY <2>2, <3>1, RetriesAssumption DEF Settled, Excused, GivenUp
    <3>4. m_sendFrameFailCount' \in [Displays -> 0 .. (kMaxSendFrameRetries - 1)]
      BY <1>0, <2>1, <2>6, RetriesAssumption DEF DrawTypes
    <3>5. streak' \in [Displays -> 0 .. kMaxSendFrameRetries]
      <4>1. streak \in [Displays -> 0 .. kMaxSendFrameRetries]
        BY <1>0 DEF DrawTypes
      <4>2. (IF streak[d] < kMaxSendFrameRetries THEN streak[d] + 1 ELSE streak[d])
              \in 0 .. kMaxSendFrameRetries
        BY <2>4, RetriesAssumption
      <4>3. QED
        BY <2>1, <4>1, <4>2
    <3>6. DrawTypes'
      BY <1>0, <2>1, <2>3, <3>2, <3>4, <3>5 DEF DrawTypes, Pieces
    <3>7. CountIsCovered'
      BY <1>0, <2>5, <3>1, <3>2, RetriesAssumption DEF CountIsCovered
    <3>8. QED
      BY <2>f, <2>g, <2>2, <2>3, <2>e, <3>3, <3>6, <3>7, Leave
  <2>7. CASE ~GivesUp(d)
    <3>1. /\ m_sendFrameFailCount'[d] = m_sendFrameFailCount[d] + 1 /\ dirty' = dirty
          /\ m_sendFrameFailCount[d] + 1 \in 0 .. (kMaxSendFrameRetries - 1)
          /\ m_sendFrameFailCount' = [m_sendFrameFailCount EXCEPT ![d] = @ + 1]
      BY <1>0, <2>1, <2>2, <2>4, <2>7, RetriesAssumption DEF DrawTypes, GivesUp
    <3>2. streak'[d] >= streak[d] /\ m_sendFrameFailCount'[d] <= streak'[d]
      BY <2>4, <3>1, RetriesAssumption
    <3>3. Settled(d)'
      <4>1. CASE client.s = d
        BY <2>3, <4>1 DEF Settled, Excused
      <4>2. CASE client.s # d
        <5>1. dirty[d] \/ raced[d] \/ GivenUp(d) \/ Whole(d)
          BY <2>2, <4>2 DEF Settled, Excused
        <5>2. Whole(d) => Whole(d)'
          BY <2>1 DEF Whole, Pieces
        <5>3. GivenUp(d) => GivenUp(d)'
          BY <2>4, RetriesAssumption DEF GivenUp
        <5>4. QED
          BY <2>3, <3>1, <5>1, <5>2, <5>3 DEF Settled, Excused
      <4>3. QED
        BY <4>1, <4>2
    <3>4. m_sendFrameFailCount' \in [Displays -> 0 .. (kMaxSendFrameRetries - 1)]
      BY <1>0, <3>1 DEF DrawTypes
    <3>5. streak' \in [Displays -> 0 .. kMaxSendFrameRetries]
      <4>1. streak \in [Displays -> 0 .. kMaxSendFrameRetries]
        BY <1>0 DEF DrawTypes
      <4>2. (IF streak[d] < kMaxSendFrameRetries THEN streak[d] + 1 ELSE streak[d])
              \in 0 .. kMaxSendFrameRetries
        BY <2>4, RetriesAssumption
      <4>3. QED
        BY <2>1, <4>1, <4>2
    <3>6. DrawTypes'
      BY <1>0, <2>1, <2>3, <3>1, <3>4, <3>5 DEF DrawTypes, Pieces
    <3>7. CountIsCovered'
      BY <1>0, <2>5, <3>2 DEF CountIsCovered
    <3>8. QED
      BY <2>f, <2>g, <2>2, <2>3, <2>e, <3>3, <3>6, <3>7, Leave
  <2>8. QED
    BY <2>6, <2>7
<1>5. CASE FrameDone
  <2>1. /\ InTick("frame") /\ p = Chunks + 1 /\ NextSurface("tick")
        /\ dirty' = [dirty EXCEPT ![d] = FALSE]
        /\ m_sendFrameFailCount' = [m_sendFrameFailCount EXCEPT ![d] = 0]
        /\ streak' = [streak EXCEPT ![d] = 0]
        /\ raced' = [raced EXCEPT ![d] = @ \/ client.s = d]
        /\ UNCHANGED <<scan, m_tickStep, data, shown, client>>
    BY <1>5 DEF FrameDone, Goes
  <2>2. /\ "tick" \in X /\ At("tick") # "idle" /\ At("tick") = "frame"
        /\ d \in Displays /\ d \in Surfaces /\ Pieces(d) = 1 .. Chunks
        /\ pos["tick"].k \in Nat
        /\ p > 0 => Sending("tick", d)
    BY <2>1, InFrame
  <2>3. raced' \in [Surfaces -> BOOLEAN] /\ (raced'[d] <=> raced[d] \/ client.s = d)
    BY <1>0, <2>1, <2>2 DEF DrawTypes
  <2>4. raced[d] \/ Whole(d)
    <3>1. Sending("tick", d)
      BY <1>c, <2>1, <2>2
    <3>2. SentPieces("tick", d) = 1 .. Chunks
      BY <1>c, <2>1, <2>2 DEF SentPieces
    <3>3. QED
      BY <2>2, <3>1, <3>2 DEF DInv, SentIsShown, Whole
  <2>5. Settled(d)'
    BY <2>1, <2>3, <2>4 DEF Settled, Excused, Whole, Pieces
  <2>6. /\ \A t \in Surfaces \ {d} : raced'[t] = raced[t] /\ dirty'[t] = dirty[t]
        /\ \A t \in Displays \ {d} : /\ streak'[t] = streak[t]
                                     /\ m_sendFrameFailCount'[t] = m_sendFrameFailCount[t]
        /\ streak'[d] = 0 /\ m_sendFrameFailCount'[d] = 0
    BY <1>0, <2>1, <2>2 DEF DrawTypes
  <2>7. DrawTypes'
    <3>0. 0 \in 0 .. (kMaxSendFrameRetries - 1) /\ 0 \in 0 .. kMaxSendFrameRetries
      BY RetriesAssumption
    <3>1. /\ dirty' \in [Surfaces -> BOOLEAN]
          /\ m_sendFrameFailCount' \in [Displays -> 0 .. (kMaxSendFrameRetries - 1)]
          /\ streak' \in [Displays -> 0 .. kMaxSendFrameRetries]
      BY <1>0, <2>1, <3>0 DEF DrawTypes
    <3>2. QED
      BY <1>0, <2>1, <2>3, <3>1 DEF DrawTypes, Pieces
  <2>8. CountIsCovered'
    BY <1>0, <2>6 DEF CountIsCovered
  <2>9. \A t \in Surfaces \ {d} :
          /\ dirty'[t] = dirty[t] /\ raced'[t] = raced[t] /\ shown'[t] = shown[t]
          /\ t \in Displays => streak'[t] = streak[t]
    BY <2>1, <2>6
  <2>10. NextSurface("tick") /\ UNCHANGED <<scan, m_tickStep, data, client>>
    BY <2>1
  <2>11. QED
    BY <2>2, <2>3, <2>5, <2>7, <2>8, <2>9, <2>10, Leave
<1>6. QED
  BY <1>1, <1>2, <1>3, <1>4, <1>5 DEF Frame

\* sendLeds() keeps it, in tick() and in init(): a group is written whole, before its flag
\* is cleared.
LEMMA LedsKeep == ASSUME DInv, NEW x \in X, Leds(x) PROVE DInv'
<1> SUFFICES ASSUME NEW g, g = Surface(x) PROVE DInv'
  OBVIOUS
<1>0. Shape /\ DrawTypes /\ CountIsCovered
  BY DEF DInv, Shape
<1>1. /\ At(x) # "idle" /\ At(x) = "leds" /\ InLeds(x)
      /\ g \in Groups /\ g \in Surfaces /\ g \notin Displays /\ Pieces(g) = {1}
      /\ pos[x].k \in Nat /\ pos[x].k >= 1 /\ pos[x].k + 1 \in Nat /\ pos[x].k + 1 >= 1
      /\ pos[x].piece > 0 => Sending(x, g)
  BY InGroup DEF Leds, LedsClean, LedsWrite, LedsFail, LedsClear
<1>2. 0 \in 0 .. (Chunks + 1) /\ 1 \in 0 .. (Chunks + 1)
  BY BoundsAssumption
<1>3. CASE LedsClean(x) \/ LedsFail(x)
  <2>1. UNCHANGED <<scan, m_tickStep, drawVars, client>>
    BY <1>3 DEF LedsClean, LedsFail
  <2>2. PICK k \in Nat : k >= 1 /\ Move(x, k, 0)
    <3>1. Len(GroupSeq) + 1 \in Nat /\ Len(GroupSeq) + 1 >= 1
      BY SurfacesAssumption, LenProperties
    <3>2. QED
      BY <1>1, <1>3, <3>1 DEF LedsClean, LedsFail, NextSurface
  <2>3. /\ pos' \in [X -> Places] /\ pos'[x].piece = 0 /\ pos'[x].at = pos[x].at
        /\ pos'[x].k = k /\ \A y \in X \ {x} : pos'[y] = pos[y]
    BY <1>0, <1>2, <2>2, MoveIs
  <2>4. \A y \in X : pos'[y] = pos[y] \/ pos'[y].piece = 0
    BY <2>3
  <2>5. SentIsShown' /\ ClientIsRight' /\ RestIsSettled' /\ DrawTypes' /\ CountIsCovered'
    BY <2>1, <2>4, Still
  <2>6. OneAtATime'
    BY <1>0, <2>1, <2>2, <2>3 DEF Shape, OneAtATime, At, X
  <2>7. PlaceTypes'
    BY <1>0, <2>1, <2>3 DEF Shape, PlaceTypes, Clients
  <2>8. QED
    BY <2>5, <2>6, <2>7 DEF DInv, Shape
<1>4. CASE LedsWrite(x)
  <2>1. /\ dirty[g] /\ Move(x, pos[x].k, 1)
        /\ shown' = [shown EXCEPT ![g][1] = data[g]]
        /\ raced' = [raced EXCEPT ![g] = client.s = g]
        /\ UNCHANGED <<scan, m_tickStep, data, dirty, m_sendFrameFailCount, streak, client>>
    BY <1>4 DEF LedsWrite, Begin
  <2>2. raced' \in [Surfaces -> BOOLEAN] /\ (client.s = g => raced'[g])
    BY <1>0, <1>1, <2>1 DEF DrawTypes
  <2>3. /\ \A t \in Surfaces \ {g} : raced'[t] = raced[t] /\ shown'[t] = shown[t]
        /\ shown'[g] = [shown[g] EXCEPT ![1] = data[g]]
    BY <1>0, <1>1, <2>1 DEF DrawTypes
  <2>4. data[g] \in Colors /\ shown[g] \in [{1} -> Colors]
    BY <1>0, <1>1 DEF DrawTypes, Colors
  <2>5. shown'[g] \in [{1} -> Colors] /\ shown'[g][1] = data[g]
    BY <2>3, <2>4
  <2>6. DrawTypes' /\ CountIsCovered'
    <3>1. \A t \in Surfaces : shown'[t] \in [Pieces(t)' -> Colors]
      BY <1>0, <1>1, <2>3, <2>5 DEF DrawTypes, Pieces
    <3>2. shown' \in [Surfaces -> [1 .. Chunks -> Colors] \cup [{1} -> Colors]]
      <4>1. \A t \in Surfaces : shown'[t] \in [1 .. Chunks -> Colors] \cup [{1} -> Colors]
        BY <3>1 DEF Pieces
      <4>2. shown' = [t \in Surfaces |-> shown'[t]]
        BY <1>0, <2>1 DEF DrawTypes
      <4>3. QED
        BY <4>1, <4>2
    <3>3. QED
      BY <1>0, <2>1, <2>2, <3>1, <3>2 DEF DrawTypes, CountIsCovered
  <2>7. Settled(g)'
    BY <2>1 DEF Settled
  <2>8. \A p \in SentPieces(x, g)' : shown'[g][p] = data[g]
    <3>1. At(x)' = "leds"
      BY <1>0, <1>1, <1>2, <2>1, MoveIs DEF At
    <3>2. SentPieces(x, g)' = {1}
      BY <1>1, <3>1 DEF SentPieces, Pieces
    <3>3. QED
      BY <2>5, <3>2
  <2>9. QED
    BY <1>1, <1>2, <2>1, <2>2, <2>3, <2>6, <2>7, <2>8, Send
<1>5. CASE LedsClear(x)
  <2>1. /\ pos[x].piece = 1 /\ NextSurface(x)
        /\ dirty' = [dirty EXCEPT ![g] = FALSE]
        /\ raced' = [raced EXCEPT ![g] = @ \/ client.s = g]
        /\ UNCHANGED <<scan, m_tickStep, data, shown, m_sendFrameFailCount, streak, client>>
    BY <1>5 DEF LedsClear, Goes
  <2>2. raced' \in [Surfaces -> BOOLEAN] /\ (raced'[g] <=> raced[g] \/ client.s = g)
    BY <1>0, <1>1, <2>1 DEF DrawTypes
  <2>3. \A t \in Surfaces \ {g} : raced'[t] = raced[t] /\ dirty'[t] = dirty[t]
    BY <1>0, <1>1, <2>1 DEF DrawTypes
  <2>4. DrawTypes' /\ CountIsCovered'
    <3>1. dirty' \in [Surfaces -> BOOLEAN]
      BY <1>0, <2>1 DEF DrawTypes
    <3>2. QED
      BY <1>0, <2>1, <2>2, <3>1 DEF DrawTypes, CountIsCovered, Pieces
  <2>5. raced[g] \/ Whole(g)
    BY <1>1, <2>1 DEF DInv, SentIsShown, SentPieces, Whole
  <2>6. Settled(g)'
    BY <2>1, <2>2, <2>5 DEF Settled, Excused, Whole, Pieces
  <2>7. QED
    BY <1>1, <2>1, <2>2, <2>3, <2>4, <2>6, Leave
<1>6. QED
  BY <1>3, <1>4, <1>5 DEF Leds

\* A client that is not in a callback changes no surface.
LEMMA FreeIs == Free \in Clients /\ Free.s \notin Surfaces /\ Free.s = "none" /\ Free.at = "none"
BY SurfacesAssumption, ValuesAssumption DEF Free, Clients

\* tick() begins and ends, and the scan goes on, with no surface touched.
LEMMA TurnKeeps ==
  ASSUME DInv, TickBegin \/ TickEnd \/ Connected \/ Disconnect \/ Disconnected
  PROVE  DInv'
<1>0. /\ Shape /\ PlaceTypes /\ OneAtATime /\ UNCHANGED <<drawVars, client>>
      /\ "tick" \in X /\ "init" \in X /\ Idle \in Places /\ Idle.at = "idle" /\ Idle.piece = 0
  BY BoundsAssumption
     DEF DInv, Shape, TickBegin, TickEnd, Connected, Disconnect, Disconnected, X, Idle, Places
<1>1. CASE TickBegin
  <2> DEFINE b == [at |-> m_tickStep, k |-> 1, piece |-> 0]
  <2>1. b \in Places /\ b.k >= 1 /\ b.piece = 0
    BY <1>0, BoundsAssumption DEF PlaceTypes, Places
  <2>2. pos' = [pos EXCEPT !["tick"] = b] /\ scan = "up" /\ UNCHANGED <<scan, m_tickStep>>
    BY <1>1 DEF TickBegin
  <2> HIDE DEF b
  <2>3. pos' \in [X -> Places] /\ pos'["tick"] = b /\ \A y \in X \ {"tick"} : pos'[y] = pos[y]
    BY <1>0, <2>1, <2>2 DEF PlaceTypes
  <2>4. PlaceTypes'
    BY <1>0, <2>2, <2>3 DEF PlaceTypes, Clients
  <2>5. OneAtATime'
    BY <1>0, <2>1, <2>2, <2>3 DEF OneAtATime, At, X
  <2>6. \A y \in X : pos'[y] = pos[y] \/ pos'[y].piece = 0
    BY <2>1, <2>3
  <2>7. QED
    BY <1>0, <2>4, <2>5, <2>6, Still DEF DInv, Shape
<1>2. CASE TickEnd
  <2>1. pos' = [pos EXCEPT !["tick"] = Idle] /\ scan' = scan
        /\ m_tickStep' \in {"frame", "read", "leds"}
    BY <1>0, <1>2 DEF TickEnd, PlaceTypes
  <2>2. pos' \in [X -> Places] /\ pos'["tick"] = Idle /\ \A y \in X \ {"tick"} : pos'[y] = pos[y]
    BY <1>0, <2>1 DEF PlaceTypes
  <2>3. PlaceTypes'
    BY <1>0, <2>1, <2>2 DEF PlaceTypes, Clients
  <2>4. OneAtATime'
    BY <1>0, <2>1, <2>2 DEF OneAtATime, At, X
  <2>5. \A y \in X : pos'[y] = pos[y] \/ pos'[y].piece = 0
    BY <1>0, <2>2
  <2>6. QED
    BY <1>0, <2>3, <2>4, <2>5, Still DEF DInv, Shape
<1>3. CASE Connected
  <2>1. /\ pos' = [pos EXCEPT !["init"] = Idle] /\ scan = "second" /\ scan' = "up"
        /\ m_tickStep' = m_tickStep
    BY <1>3 DEF Connected
  <2>2. pos' \in [X -> Places] /\ pos'["init"] = Idle /\ \A y \in X \ {"init"} : pos'[y] = pos[y]
    BY <1>0, <2>1 DEF PlaceTypes
  <2>3. PlaceTypes'
    BY <1>0, <2>1, <2>2 DEF PlaceTypes, Clients
  <2>4. OneAtATime'
    BY <1>0, <2>1, <2>2 DEF OneAtATime, At, X
  <2>5. \A y \in X : pos'[y] = pos[y] \/ pos'[y].piece = 0
    BY <1>0, <2>2
  <2>6. QED
    BY <1>0, <2>3, <2>4, <2>5, Still DEF DInv, Shape
<1>4. CASE Disconnect \/ Disconnected
  <2>1. /\ pos' = pos /\ m_tickStep' = m_tickStep /\ scan' \in {"stopping", "down"}
        /\ scan \in {"up", "stopping"} /\ (scan = "up" => At("tick") = "idle")
    BY <1>4 DEF Disconnect, Disconnected
  <2>2. At("tick") = "idle" /\ At("init") = "idle"
    BY <1>0, <2>1 DEF OneAtATime
  <2>3. PlaceTypes'
    BY <1>0, <2>1 DEF PlaceTypes, Clients
  <2>4. OneAtATime'
    BY <1>0, <2>1, <2>2 DEF OneAtATime, At, X
  <2>5. QED
    BY <1>0, <2>1, <2>3, <2>4, Still DEF DInv, Shape
<1>5. QED
  BY <1>1, <1>2, <1>3, <1>4

\* init() keeps it: it begins with every flag set, and sets that of one group again.
LEMMA InitKeeps == ASSUME DInv, Connect \/ InitAgain PROVE DInv'
<1> DEFINE b == [at |-> "leds", k |-> 1, piece |-> 0]
<1>0. Shape /\ PlaceTypes /\ OneAtATime /\ DrawTypes /\ CountIsCovered /\ ClientIsRight
  BY DEF DInv, Shape
<1>1. b \in Places /\ b.k >= 1 /\ b.piece = 0 /\ b.at = "leds" /\ "init" \in X /\ "tick" \in X
  BY BoundsAssumption DEF Places, X
<1>2. /\ pos' = [pos EXCEPT !["init"] = b]
      /\ scan' \in {"first", "second"} /\ scan \in {"down", "first"}
      /\ UNCHANGED <<m_tickStep, m_sendFrameFailCount, streak, client>>
  BY DEF Connect, InitAgain
<1> HIDE DEF b
<1>3. pos' \in [X -> Places] /\ pos'["init"] = b /\ \A y \in X \ {"init"} : pos'[y] = pos[y]
  BY <1>0, <1>1, <1>2 DEF PlaceTypes
<1>4. At("tick") = "idle"
  BY <1>0, <1>2 DEF OneAtATime
<1>5. PlaceTypes' /\ OneAtATime' /\ CountIsCovered'
  <2>1. PlaceTypes'
    BY <1>0, <1>2, <1>3 DEF PlaceTypes, Clients
  <2>2. OneAtATime'
    BY <1>0, <1>1, <1>2, <1>3, <1>4 DEF OneAtATime, At, X
  <2>3. CountIsCovered'
    BY <1>0, <1>2 DEF CountIsCovered
  <2>4. QED
    BY <2>1, <2>2, <2>3
<1>6. \A x \in X : \A s \in Surfaces : ~Sending(x, s)'
  BY <1>1, <1>3, <1>4 DEF Sending, At, X
<1>7. SentIsShown'
  BY <1>6 DEF SentIsShown
<1>8. CASE Connect
  <2>1. /\ data' = [s \in Surfaces |-> "black"] /\ dirty' = [s \in Surfaces |-> TRUE]
        /\ raced' = [s \in Surfaces |-> client.s = s]
    BY <1>8 DEF Connect
  <2>2. PICK n \in [Displays -> 0 .. Chunks] :
          shown' = [s \in Surfaces |-> [p \in Pieces(s) |->
                      IF s \in Displays /\ p <= n[s] THEN "black" ELSE "off"]]
    BY <1>8 DEF Connect
  <2>3. \A s \in Surfaces : shown'[s] \in [Pieces(s) -> Colors]
    BY <2>2, ValuesAssumption DEF Colors
  <2>4. DrawTypes'
    <3>1. shown' \in [Surfaces -> [1 .. Chunks -> Colors] \cup [{1} -> Colors]]
      <4>1. \A s \in Surfaces : shown'[s] \in [1 .. Chunks -> Colors] \cup [{1} -> Colors]
        BY <2>3 DEF Pieces
      <4>2. QED
        BY <2>2, <4>1
    <3>2. \A s \in Surfaces : shown'[s] \in [Pieces(s)' -> Colors]
      BY <2>3 DEF Pieces
    <3>3. QED
      BY <1>0, <1>2, <2>1, <3>1, <3>2, ValuesAssumption DEF DrawTypes
  <2>5. \A s \in Surfaces : Settled(s)' /\ (client.s = s => Excused(s)')
    BY <2>1 DEF Settled, Excused
  <2>6. RestIsSettled'
    BY <1>2, <2>5 DEF RestIsSettled
  <2>7. ClientIsRight'
    <3>1. CASE client.s \in Surfaces
      BY <1>0, <1>2, <2>1, <2>5, <3>1 DEF ClientIsRight
    <3>2. CASE client = Free
      BY <1>2, <3>2, FreeIs DEF ClientIsRight, Surfaces
    <3>3. QED
      BY <1>0, <3>1, <3>2 DEF ClientIsRight
  <2>8. QED
    BY <1>5, <1>7, <2>4, <2>6, <2>7 DEF DInv, Shape
<1>9. CASE InitAgain
  <2>1. UNCHANGED <<data, shown, raced>>
    BY <1>9 DEF InitAgain
  <2>2. dirty' \in [Surfaces -> BOOLEAN] /\ \A s \in Surfaces : dirty[s] => dirty'[s]
    BY <1>0, <1>9 DEF InitAgain, DrawTypes
  <2>3. DrawTypes'
    BY <1>0, <1>2, <2>1, <2>2 DEF DrawTypes, Pieces
  <2>4. \A s \in Surfaces : (Settled(s) => Settled(s)') /\ (Excused(s) => Excused(s)')
    BY <1>2, <2>1, <2>2 DEF Settled, Excused, GivenUp, Whole, Pieces
  <2>5. RestIsSettled'
    BY <1>2, <2>4 DEF DInv, RestIsSettled
  <2>6. ClientIsRight'
    <3>1. CASE client.s \in Surfaces
      BY <1>0, <1>2, <2>1, <2>2, <2>4, <3>1 DEF ClientIsRight
    <3>2. CASE client = Free
      BY <1>2, <3>2, FreeIs DEF ClientIsRight, Surfaces
    <3>3. QED
      BY <1>0, <3>1, <3>2 DEF ClientIsRight
  <2>7. QED
    BY <1>5, <1>7, <2>3, <2>5, <2>6 DEF DInv, Shape
<1>10. QED
  BY <1>8, <1>9

\* The steps of the client leave the places, and note when they overlap a sending.
LEMMA Overlaps ==
  ASSUME DInv, NEW s \in Surfaces, Overlap(s), UNCHANGED <<pos, shown>>,
         \A t \in Surfaces \ {s} : data'[t] = data[t]
  PROVE  /\ raced' \in [Surfaces -> BOOLEAN]
         /\ \A t \in Surfaces \ {s} : raced'[t] = raced[t]
         /\ raced[s] => raced'[s]
         /\ SentIsShown'
<1>1. /\ raced' \in [Surfaces -> BOOLEAN] /\ (raced'[s] <=> raced[s] \/ InSending(s))
      /\ \A t \in Surfaces \ {s} : raced'[t] = raced[t]
  <2>1. raced \in [Surfaces -> BOOLEAN] /\ raced' = [raced EXCEPT ![s] = @ \/ InSending(s)]
    BY DEF DInv, Shape, DrawTypes, Overlap
  <2>2. InSending(s) \in BOOLEAN
    BY DEF InSending
  <2>3. QED
    BY <2>1, <2>2
<1>2. SentIsShown'
  <2> SUFFICES ASSUME NEW x \in X, NEW t \in Surfaces, Sending(x, t)'
               PROVE  raced'[t] \/ \A p \in SentPieces(x, t)' : shown'[t][p] = data'[t]
    BY DEF SentIsShown
  <2>1. Sending(x, t) /\ SentPieces(x, t)' = SentPieces(x, t)
    BY DEF Sending, SentPieces, Finished, SeqAt, Surface, At, Pieces
  <2>2. CASE t = s
    BY <1>1, <2>1, <2>2 DEF InSending, X
  <2>3. CASE t # s
    BY <1>1, <2>1, <2>3 DEF DInv, SentIsShown
  <2>4. QED
    BY <2>2, <2>3
<1>3. QED
  BY <1>1, <1>2

\* A change that is begun puts off what is to be done for its surface to its last step.
LEMMA StoreKeeps ==
  ASSUME DInv, NEW who \in {"coordinator", "usb"}, NEW s \in Surfaces, NEW v \in Values,
         ClientStore(who, s, v)
  PROVE  DInv'
<1> DEFINE c == [Free EXCEPT !.who = who, !.s = s, !.old = data[s],
                             !.at = IF s \in Groups THEN "stored" ELSE "tested",
                             !.flag = s \in Displays]
<1>0. Shape /\ PlaceTypes /\ OneAtATime /\ DrawTypes /\ CountIsCovered /\ RestIsSettled
  BY DEF DInv, Shape
<1>1. /\ client = Free /\ client' = c /\ data' = [data EXCEPT ![s] = v] /\ Overlap(s)
      /\ UNCHANGED <<scan, m_tickStep, pos, dirty, shown, m_sendFrameFailCount, streak>>
  BY DEF ClientStore, MayCall
<1>2. /\ data' \in [Surfaces -> Values] /\ data'[s] = v
      /\ \A t \in Surfaces \ {s} : data'[t] = data[t]
  BY <1>0, <1>1 DEF DrawTypes
<1>3. /\ raced' \in [Surfaces -> BOOLEAN] /\ \A t \in Surfaces \ {s} : raced'[t] = raced[t]
      /\ raced[s] => raced'[s]
      /\ SentIsShown'
  BY <1>1, <1>2, Overlaps
<1>4. /\ c \in Clients /\ c.s = s /\ c.old = data[s] /\ ~c.seen
      /\ c.at = IF s \in Groups THEN "stored" ELSE "tested"
      /\ c.flag = (s \in Displays)
  <2>1. data[s] \in Values
    BY <1>0 DEF DrawTypes
  <2>2. PICK f : f = (s \in Displays)
    OBVIOUS
  <2>3. f \in BOOLEAN
    BY <2>2
  <2>4. PICK a \in {"stored", "tested"} : a = IF s \in Groups THEN "stored" ELSE "tested"
    OBVIOUS
  <2>5. c = [Free EXCEPT !.who = who, !.s = s, !.old = data[s], !.at = a, !.flag = f]
    BY <2>2, <2>4, Zenon
  <2> HIDE DEF c
  <2>6. c = [who |-> who, s |-> s, at |-> a, old |-> data[s], seen |-> FALSE, flag |-> f]
    BY <2>5 DEF Free
  <2>7. c.flag = (s \in Displays)
    BY <2>2, <2>6
  <2>8. QED
    BY <2>1, <2>3, <2>4, <2>6, <2>7 DEF Clients
<1> HIDE DEF c
<1>5. DrawTypes' /\ PlaceTypes' /\ OneAtATime' /\ CountIsCovered'
  <2>1. DrawTypes'
    BY <1>0, <1>1, <1>2, <1>3 DEF DrawTypes, Pieces
  <2>2. PlaceTypes'
    BY <1>0, <1>1, <1>4 DEF PlaceTypes, Clients
  <2>3. OneAtATime'
    BY <1>0, <1>1 DEF OneAtATime, At
  <2>4. CountIsCovered'
    BY <1>0, <1>1 DEF CountIsCovered
  <2>5. QED
    BY <2>1, <2>2, <2>3, <2>4
<1>6. \A t \in Surfaces : Settled(t)
  BY <1>0, <1>1, FreeIs DEF RestIsSettled
<1>7. RestIsSettled'
  <2> SUFFICES ASSUME NEW t \in Surfaces \ {s} PROVE Settled(t)'
    BY <1>1, <1>4 DEF RestIsSettled
  <2>1. QED
    BY <1>1, <1>2, <1>3, <1>6 DEF Settled, Excused, GivenUp, Whole, Pieces
<1>8. data'[s] = data[s] => Settled(s)'
  BY <1>1, <1>3, <1>6 DEF Settled, Excused, GivenUp, Whole, Pieces
<1>9. ClientIsRight'
  <2>1. client'.s = s /\ client'.at \in {"stored", "tested"} /\ ~client'.seen
        /\ client'.old = data[s]
    BY <1>1, <1>4
  <2>2. s \in Displays => client'.at = "tested" /\ client'.flag
    BY <1>1, <1>4, SurfacesAssumption
  <2>3. client'.at = "tested" => client'.flag
    BY <1>1, <1>4 DEF Surfaces
  <2>4. QED
    BY <1>8, <2>1, <2>2, <2>3 DEF ClientIsRight
<1>10. QED
  BY <1>3, <1>5, <1>7, <1>9 DEF DInv, Shape

\* setLedImpl() tests the flag, and keeps the invariant.
LEMMA TestKeeps == ASSUME DInv, ClientTest PROVE DInv'
<1> SUFFICES ASSUME NEW s, s = client.s PROVE DInv'
  OBVIOUS
<1> DEFINE c == [client EXCEPT !.at = "tested", !.seen = dirty[client.s],
                               !.flag = dirty[client.s] \/ data[client.s] # client.old]
<1>0. Shape /\ PlaceTypes /\ OneAtATime /\ DrawTypes /\ CountIsCovered /\ RestIsSettled
      /\ ClientIsRight
  BY DEF DInv, Shape
<1>1. /\ client.at = "stored" /\ client' = c /\ Overlap(s)
      /\ UNCHANGED <<scan, m_tickStep, pos, data, dirty, shown, m_sendFrameFailCount, streak>>
  BY DEF ClientTest
<1>2. s \in Surfaces /\ s \notin Displays /\ client \in Clients
  BY <1>0, <1>1, FreeIs DEF ClientIsRight, PlaceTypes
<1>3. /\ raced' \in [Surfaces -> BOOLEAN] /\ \A t \in Surfaces \ {s} : raced'[t] = raced[t]
      /\ raced[s] => raced'[s]
      /\ SentIsShown'
  BY <1>1, <1>2, Overlaps
<1>4. /\ c \in Clients /\ c.s = s /\ c.at = "tested" /\ c.seen = dirty[s]
      /\ c.flag = (dirty[s] \/ data[s] # client.old)
  <2>1. dirty[s] \in BOOLEAN
    BY <1>0, <1>2 DEF DrawTypes
  <2>2. QED
    BY <1>2, <2>1 DEF Clients
<1> HIDE DEF c
<1>5. DrawTypes' /\ PlaceTypes' /\ OneAtATime' /\ CountIsCovered'
  <2>1. DrawTypes'
    BY <1>0, <1>1, <1>3 DEF DrawTypes, Pieces
  <2>2. PlaceTypes'
    BY <1>0, <1>1, <1>4 DEF PlaceTypes, Clients
  <2>3. OneAtATime'
    BY <1>0, <1>1 DEF OneAtATime, At
  <2>4. CountIsCovered'
    BY <1>0, <1>1 DEF CountIsCovered
  <2>5. QED
    BY <2>1, <2>2, <2>3, <2>4
<1>6. \A t \in Surfaces : (Settled(t) => Settled(t)') /\ (Excused(t) => Excused(t)')
  BY <1>1, <1>3 DEF Settled, Excused, GivenUp, Whole, Pieces
<1>7. RestIsSettled'
  BY <1>0, <1>1, <1>4, <1>6 DEF RestIsSettled
<1>8. dirty[s] \/ data[s] # client.old \/ Excused(s)
  BY <1>0, <1>1, <1>2 DEF ClientIsRight, Settled
<1>9. ClientIsRight'
  BY <1>1, <1>2, <1>4, <1>6, <1>8 DEF ClientIsRight
<1>10. QED
  BY <1>3, <1>5, <1>7, <1>9 DEF DInv, Shape

\* The last step of a change settles its surface.
LEMMA FlagKeeps == ASSUME DInv, ClientFlag PROVE DInv'
<1> SUFFICES ASSUME NEW s, s = client.s PROVE DInv'
  OBVIOUS
<1>0. Shape /\ PlaceTypes /\ OneAtATime /\ DrawTypes /\ CountIsCovered /\ RestIsSettled
      /\ ClientIsRight
  BY DEF DInv, Shape
<1>1. /\ client.at = "tested" /\ client' = Free /\ Overlap(s)
      /\ dirty' = [dirty EXCEPT ![s] = client.flag] \/ (client.seen /\ dirty' = dirty)
      /\ UNCHANGED <<scan, m_tickStep, pos, data, shown, m_sendFrameFailCount, streak>>
  <2>1. ClientFlag
    OBVIOUS
  <2>2. client.at = "tested" /\ client' = Free
    BY <2>1 DEF ClientFlag
  <2>3. Overlap(s)
    BY <2>1 DEF ClientFlag, Overlap
  <2>4. \/ dirty' = [dirty EXCEPT ![s] = client.flag]
        \/ client.seen /\ dirty' = dirty
    BY <2>1 DEF ClientFlag
  <2>5. UNCHANGED <<scan, m_tickStep, pos, data, shown, m_sendFrameFailCount, streak>>
    BY <2>1 DEF ClientFlag
  <2>6. QED
    BY <2>2, <2>3, <2>4, <2>5
<1>2. s \in Surfaces /\ client \in Clients /\ client.flag \in BOOLEAN
  BY <1>0, <1>1, FreeIs DEF ClientIsRight, PlaceTypes, Clients
<1>3. /\ raced' \in [Surfaces -> BOOLEAN] /\ \A t \in Surfaces \ {s} : raced'[t] = raced[t]
      /\ raced[s] => raced'[s]
      /\ SentIsShown'
  BY <1>1, <1>2, Overlaps
<1>4. /\ dirty' \in [Surfaces -> BOOLEAN] /\ \A t \in Surfaces \ {s} : dirty'[t] = dirty[t]
      /\ dirty'[s] = client.flag \/ (client.seen /\ dirty'[s] = dirty[s])
  BY <1>0, <1>1, <1>2 DEF DrawTypes
<1>5. DrawTypes' /\ PlaceTypes' /\ OneAtATime' /\ CountIsCovered'
  <2>1. DrawTypes'
    BY <1>0, <1>1, <1>3, <1>4 DEF DrawTypes, Pieces
  <2>2. PlaceTypes'
    BY <1>0, <1>1, FreeIs DEF PlaceTypes, Clients
  <2>3. OneAtATime'
    BY <1>0, <1>1 DEF OneAtATime, At
  <2>4. CountIsCovered'
    BY <1>0, <1>1 DEF CountIsCovered
  <2>5. QED
    BY <2>1, <2>2, <2>3, <2>4
<1>6. \A t \in Surfaces : Excused(t) => Excused(t)'
  BY <1>1, <1>3 DEF Excused, GivenUp, Whole, Pieces
<1>7. Settled(s)'
  <2>1. client.flag \/ Excused(s)
    BY <1>0, <1>1 DEF ClientIsRight
  <2>2. client.seen => dirty[s] \/ raced[s]
    BY <1>0, <1>1 DEF ClientIsRight
  <2>3. CASE Excused(s)
    BY <1>2, <1>6, <2>3 DEF Settled
  <2>4. CASE ~Excused(s)
    BY <1>4, <2>1, <2>2, <2>4 DEF Settled, Excused
  <2>5. QED
    BY <2>3, <2>4
<1>8. RestIsSettled'
  <2> SUFFICES ASSUME NEW t \in Surfaces PROVE Settled(t)'
    BY DEF RestIsSettled
  <2>1. CASE t # s
    BY <1>0, <1>4, <1>6, <2>1 DEF RestIsSettled, Settled
  <2>2. QED
    BY <1>7, <2>1
<1>9. ClientIsRight'
  BY <1>1, FreeIs DEF ClientIsRight, Surfaces
<1>10. QED
  BY <1>3, <1>5, <1>8, <1>9 DEF DInv, Shape

LEMMA InitDInv == Init => DInv
<1> SUFFICES ASSUME Init PROVE DInv
  OBVIOUS
<1>1. /\ scan = "down" /\ m_tickStep = "frame" /\ pos = [x \in {"tick", "init"} |-> Idle]
      /\ data = [s \in Surfaces |-> "black"] /\ dirty = [s \in Surfaces |-> TRUE]
      /\ shown = [s \in Surfaces |-> [p \in Pieces(s) |-> "off"]]
      /\ m_sendFrameFailCount = [d \in Displays |-> 0] /\ client = Free
      /\ streak = [d \in Displays |-> 0] /\ raced = [s \in Surfaces |-> FALSE]
  BY DEF Init
<1>2. Idle \in Places /\ Idle.at = "idle"
  BY BoundsAssumption DEF Idle, Places
<1>3. 0 \in 0 .. (kMaxSendFrameRetries - 1) /\ 0 \in 0 .. kMaxSendFrameRetries
  BY RetriesAssumption
<1>4. DrawTypes
  <2>1. \A s \in Surfaces : shown[s] \in [Pieces(s) -> Colors]
    BY <1>1 DEF Colors
  <2>2. shown \in [Surfaces -> [1 .. Chunks -> Colors] \cup [{1} -> Colors]]
    <3>1. \A s \in Surfaces : shown[s] \in [1 .. Chunks -> Colors] \cup [{1} -> Colors]
      BY <2>1 DEF Pieces
    <3>2. QED
      BY <1>1, <3>1
  <2>3. QED
    BY <1>1, <1>3, <2>1, <2>2, ValuesAssumption DEF DrawTypes
<1>5. PlaceTypes
  BY <1>1, <1>2, FreeIs DEF PlaceTypes, X
<1>6. \A x \in X : At(x) = "idle"
  BY <1>1, <1>2 DEF At, X
<1>7. OneAtATime /\ SentIsShown /\ CountIsCovered
  BY <1>1, <1>6 DEF OneAtATime, SentIsShown, Sending, CountIsCovered, X
<1>8. RestIsSettled /\ ClientIsRight
  BY <1>1, FreeIs DEF RestIsSettled, Settled, ClientIsRight, Surfaces
<1>9. QED
  BY <1>4, <1>5, <1>7, <1>8 DEF DInv, Shape

\* Every step keeps the invariant.
LEMMA NextDInv == DInv /\ [Next]_vars => DInv'
<1> SUFFICES ASSUME DInv, [Next]_vars PROVE DInv'
  OBVIOUS
<1>1. ASSUME NEW who \in {"coordinator", "usb"}, NEW s \in Surfaces, NEW v \in Values,
             ClientStore(who, s, v)
      PROVE  DInv'
  BY <1>1, StoreKeeps
<1>2. CASE Client
  BY <1>2, TestKeeps, FlagKeeps DEF Client
<1>3. CASE Tick
  <2>1. CASE Leds("tick")
    BY <2>1, LedsKeep DEF X
  <2>2. QED
    BY <1>3, <2>1, FrameKeeps, TurnKeeps DEF Tick
<1>4. CASE Scan
  <2>1. CASE Leds("init")
    BY <2>1, LedsKeep DEF X
  <2>2. QED
    BY <1>4, <2>1, InitKeeps, TurnKeeps DEF Scan
<1>5. CASE Connect \/ Disconnect
  BY <1>5, InitKeeps, TurnKeeps
<1>6. CASE SendMidiMsg \/ PortMsg \/ Fast \/ UNCHANGED vars
  <2>1. UNCHANGED restVars
    BY <1>6 DEF SendMidiMsg, PortMsg, Fast, FastTick, FastNext, FastWrite, FastFail, vars
  <2>2. UNCHANGED <<scan, m_tickStep, pos, drawVars, client>>
    BY <2>1 DEF restVars
  <2>3. SentIsShown' /\ ClientIsRight' /\ RestIsSettled' /\ DrawTypes' /\ CountIsCovered'
    BY <2>2, Still
  <2>4. PlaceTypes' /\ OneAtATime'
    BY <2>2 DEF DInv, Shape, PlaceTypes, Clients, OneAtATime, At
  <2>5. QED
    BY <2>3, <2>4 DEF DInv, Shape
<1>7. QED
  BY <1>1, <1>2, <1>3, <1>4, <1>5, <1>6 DEF Next

\* A surface whose flag is clear is shown as the client made it, unless the client changed it
\* while it was being sent, or its frames have failed kMaxSendFrameRetries times in a row.
THEOREM ClientsSee == Spec => []CleanIsShown
<1>1. DInv => CleanIsShown
  BY DEF DInv, RestIsSettled, Settled, Excused, GivenUp, Whole, CleanIsShown
<1>2. QED
  BY <1>1, InitDInv, NextDInv, PTL DEF Spec

(***************************************************************************)
(* The queue of MIDI messages never outgrows its capacity.                 *)
(***************************************************************************)
QInv == /\ ops \in 0 .. MaxOps /\ m_midiOutQueue \in Seq(1 .. MaxOps)
        /\ Len(m_midiOutQueue) <= QueueCapacity

LEMMA NextQInv == QInv /\ [Next]_vars => QInv'
<1> SUFFICES ASSUME QInv, [Next]_vars PROVE QInv'
  OBVIOUS
<1>1. CASE m_midiOutQueue' = m_midiOutQueue /\ ops' \in 0 .. MaxOps
  BY <1>1 DEF QInv
<1>2. CASE SendMidiMsg /\ m_midiOutQueue' # m_midiOutQueue
  <2>1. /\ ops + 1 \in 1 .. MaxOps /\ ops' = ops + 1 /\ Len(m_midiOutQueue) < QueueCapacity
        /\ m_midiOutQueue' = Append(m_midiOutQueue, ops + 1)
    BY <1>2, BoundsAssumption DEF SendMidiMsg, QInv
  <2>2. Len(m_midiOutQueue) \in Nat
    BY LenProperties DEF QInv
  <2>3. /\ m_midiOutQueue' \in Seq(1 .. MaxOps)
        /\ Len(m_midiOutQueue') = Len(m_midiOutQueue) + 1
    BY <2>1, AppendProperties DEF QInv
  <2>4. QED
    BY <2>1, <2>2, <2>3, BoundsAssumption, CapacityAssumption DEF QInv
<1>3. CASE FastNext /\ m_midiOutQueue' # m_midiOutQueue
  <2>1. m_midiOutQueue # << >> /\ m_midiOutQueue' = Tail(m_midiOutQueue) /\ ops' = ops
    BY <1>3 DEF FastNext
  <2>2. /\ Tail(m_midiOutQueue) \in Seq(1 .. MaxOps)
        /\ Len(Tail(m_midiOutQueue)) = Len(m_midiOutQueue) - 1
    BY <2>1, HeadTailProperties DEF QInv
  <2>3. Len(m_midiOutQueue) \in Nat
    BY LenProperties DEF QInv
  <2>4. QED
    BY <2>1, <2>2, <2>3, CapacityAssumption DEF QInv
<1>4. SendMidiMsg \/ FastNext =>
        ops' \in 0 .. MaxOps
  BY BoundsAssumption DEF SendMidiMsg, FastNext, QInv
<1>5. ASSUME NEW who, NEW s, NEW v, ClientStore(who, s, v) \/ Disconnect \/ PortMsg
      PROVE  m_midiOutQueue' = m_midiOutQueue /\ ops' \in 0 .. MaxOps
  BY <1>5, BoundsAssumption DEF ClientStore, Disconnect, PortMsg, QInv, midiVars
<1>6. ASSUME NEW x \in {"tick", "init"}, Leds(x)
      PROVE  m_midiOutQueue' = m_midiOutQueue /\ ops' \in 0 .. MaxOps
  BY <1>6 DEF Leds, LedsClean, LedsWrite, LedsFail, LedsClear, midiVars, QInv
<1>7. Client \/ Frame \/ TickBegin \/ TickEnd
        => m_midiOutQueue' = m_midiOutQueue /\ ops' \in 0 .. MaxOps
  BY DEF Client, ClientTest, ClientFlag, Frame, FrameClean, FrameBegin, FrameChunk, FrameFail,
         FrameDone, TickBegin, TickEnd, midiVars, QInv
<1>8. InitAgain \/ Connected \/ Disconnected \/ Connect
        => m_midiOutQueue' = m_midiOutQueue /\ ops' \in 0 .. MaxOps
  BY DEF InitAgain, Connected, Disconnected, Connect, midiVars, QInv
<1>9. FastTick \/ FastWrite \/ FastFail \/ UNCHANGED vars
        => m_midiOutQueue' = m_midiOutQueue /\ ops' \in 0 .. MaxOps
  BY DEF FastTick, FastWrite, FastFail, vars, midiVars, QInv
<1>10. QED
  BY <1>1, <1>2, <1>3, <1>4, <1>5, <1>6, <1>7, <1>8, <1>9 DEF Next, Tick, Scan, Fast

\* Every variable has its type, and the queue its bound.
THEOREM TypeCorrect == Spec => []TypeOK
<1>1. DInv /\ QInv => TypeOK
  BY DEF DInv, Shape, DrawTypes, PlaceTypes, Places, Clients, QInv, TypeOK, X, Colors
<1>2. Init => QInv
  <2>1. << >> \in Seq(1 .. MaxOps) /\ Len(<< >>) = 0
    BY EmptySeq
  <2>2. QED
    BY <2>1, BoundsAssumption, CapacityAssumption DEF Init, QInv
<1>3. QED
  BY <1>1, <1>2, InitDInv, NextDInv, NextQInv, PTL DEF Spec
===============================================================================
