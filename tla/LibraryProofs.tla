---------------------------- MODULE LibraryProofs ----------------------------
(***************************************************************************)
(* Proofs about the parts of the library that work by themselves: the      *)
(* orders and look-ups, the transfers of a USB handle, the handles of      *)
(* HIDAPI and MIDI, the tasks of the MIDI driver, the canvas, the recorder *)
(* of traces, the text displays, and what is drawn: the points of every    *)
(* display, the LEDs and the figures. For any number of ports, reports,    *)
(* slots, figures, chunks, threads, events, texts and numbers, and for     *)
(* figures of any size.                                                    *)
(***************************************************************************)
EXTENDS MCLibrary, FiniteSetTheorems, WellFoundedInduction, TLAPS

\* All that a step of the library may change.
allVars == <<subject, sample, canvasVars, textVars, traceVars, midiVars, usbVars, handleVars>>

-----------------------------------------------------------------------------
(* Sequences and sets.                                                     *)

\* What is behind the first of a sequence, and what it is when one more is put behind.
LEMMA TailFacts ==
  ASSUME NEW S, NEW q \in Seq(S), q # << >>
  PROVE  /\ Tail(q) \in Seq(S) /\ Head(q) = q[1] /\ q[1] \in S /\ 1 \in DOMAIN q
         /\ Len(q) \in Nat \ {0} /\ DOMAIN q = 1..Len(q) /\ DOMAIN Tail(q) = 1..Len(q) - 1
         /\ \A i \in DOMAIN Tail(q) : i + 1 \in DOMAIN q /\ Tail(q)[i] = q[i + 1]
         /\ \A i \in DOMAIN q : i # 1 => i - 1 \in DOMAIN Tail(q) /\ Tail(q)[i - 1] = q[i]
OBVIOUS

\* The last of a sequence.
LEMMA LastFacts ==
  ASSUME NEW S, NEW q \in Seq(S), q # << >>
  PROVE  /\ Len(q) \in Nat \ {0} /\ DOMAIN q = 1..Len(q) /\ Len(q) \in DOMAIN q
         /\ q[Len(q)] \in S /\ \A i \in DOMAIN q : q[i] \in S
OBVIOUS

\* A sequence and what is put behind it.
LEMMA AppendFacts ==
  ASSUME NEW S, NEW q \in Seq(S), NEW x \in S
  PROVE  /\ Append(q, x) \in Seq(S) /\ Len(q) \in Nat /\ DOMAIN q = 1..Len(q)
         /\ DOMAIN Append(q, x) = 1..Len(q) + 1 /\ Append(q, x)[Len(q) + 1] = x
         /\ \A i \in DOMAIN q : i \in DOMAIN Append(q, x) /\ Append(q, x)[i] = q[i]
         /\ \A i \in DOMAIN Append(q, x) : i = Len(q) + 1 \/ i \in DOMAIN q
OBVIOUS

\* A set has as many elements for the components as here.
LEMMA MidiCardinality == ASSUME NEW S PROVE M!Cardinality(S) = Cardinality(S)
BY DEF M!Cardinality, Cardinality

\* A set has as many elements for the handles as here.
LEMMA HandleCardinality == ASSUME NEW S PROVE B!Cardinality(S) = Cardinality(S)
BY DEF B!Cardinality, Cardinality

\* A set of numbers that is not empty has a least one.
LEMMA LeastExists ==
  ASSUME NEW S, S \subseteq Nat, S # {}
  PROVE  \E i \in S : \A j \in S : i <= j
<1>1. \E x \in S : \A y \in S : ~(<<y, x>> \in OpToRel(<, Nat))
  BY NatLessThanWellFounded, WFMin, Zenon
<1>2. PICK x \in S : \A y \in S : ~(<<y, x>> \in OpToRel(<, Nat))
  BY <1>1
<1>3. \A y \in S : ~(y < x)
  BY <1>2 DEF OpToRel
<1>4. QED
  BY <1>3

-----------------------------------------------------------------------------
(* The orders and look-ups.                                                *)

\* The operators of Version are one total order.
THEOREM VersionsOrdered ==
  ASSUME NEW a \in O!Versions, NEW b \in O!Versions, NEW c \in O!Versions
  PROVE  O!VersionsAreOrdered(a, b, c)
BY DEF O!Versions, O!VersionsAreOrdered, O!versionEqual, O!versionLess, O!versionAtMost,
       O!versionGreater, O!versionAtLeast

\* Two descriptors tie when they agree in all that < looks at: serial numbers and ports do
\* not count.
LEMMA TiesAreKinds ==
  ASSUME NEW a \in O!Descriptors, NEW b \in O!Descriptors
  PROVE  O!tied(a, b) <=> a.name = b.name /\ O!isSameProduct(a, b)
BY DEF O!Descriptors, O!Types, O!tied, O!descriptorLess, O!isSameProduct

\* DeviceDescriptor's < is irreflexive and transitive, and its ties are an equivalence that
\* keeps name and product: maps can be kept by it.
THEOREM DescriptorsOrdered ==
  ASSUME NEW a \in O!Descriptors, NEW b \in O!Descriptors, NEW c \in O!Descriptors
  PROVE  O!DescriptorsAreOrdered(a, b, c)
<1>1. ~O!descriptorLess(a, a)
  BY DEF O!Descriptors, O!Types, O!descriptorLess
<1>2. O!descriptorLess(a, b) /\ O!descriptorLess(b, c) => O!descriptorLess(a, c)
  BY DEF O!Descriptors, O!Types, O!descriptorLess
<1>3. O!tied(a, b) /\ O!tied(b, c) => O!tied(a, c)
  BY TiesAreKinds DEF O!isSameProduct
<1>4. QED
  BY <1>1, <1>2, <1>3, TiesAreKinds DEF O!DescriptorsAreOrdered

\* The second class that is registered is there unless its descriptor ties with the first.
LEMMA RegistryOfTwo ==
  ASSUME NEW a, NEW b
  PROVE  O!registerClass(O!registerClass({}, a, "a"), b, "b")
           = {[key |-> a, value |-> "a"]}
             \cup (IF O!tied(a, b) THEN {} ELSE {[key |-> b, value |-> "b"]})
<1>1. O!registerClass({}, a, "a") = {[key |-> a, value |-> "a"]}
  BY DEF O!registerClass, O!insert
<1>2. (\E e \in {[key |-> a, value |-> "a"]} : O!tied(e.key, b)) <=> O!tied(a, b)
  OBVIOUS
<1>3. QED
  BY <1>1, <1>2 DEF O!registerClass, O!insert

\* DeviceFactory: if one entry of the registry is of the product, its class is the device's.
LEMMA OnlyFit ==
  ASSUME NEW registry, NEW dd, NEW e \in registry, O!isSameProduct(e.key, dd),
         \A other \in registry : O!isSameProduct(other.key, dd) => other = e
  PROVE  O!device(registry, dd) = e.value
<1>1. {x \in registry : O!isSameProduct(x.key, dd)} = {e}
  OBVIOUS
<1>2. (CHOOSE x \in {e} : \A other \in {e} \ {x} : O!descriptorLess(x.key, other.key)) = e
  OBVIOUS
<1>3. QED
  BY <1>1, <1>2 DEF O!device

\* DeviceFactory: in whatever order two classes are registered, the device of one product
\* alone gets that product's class.
THEOREM FactoryFinds ==
  ASSUME NEW a \in O!Descriptors, NEW b \in O!Descriptors, NEW c \in O!Descriptors
  PROVE  O!FactoryFindsClass(a, b, c)
<1> DEFINE registry == O!registerClass(O!registerClass({}, a, "a"), b, "b")
           first == [key |-> a, value |-> "a"]
           second == [key |-> b, value |-> "b"]
           policy == [names |-> {O!AnyName}, type |-> a.type, vendorId |-> a.vendorId,
                      productId |-> a.productId]
<1>1. registry = {first} \cup (IF O!tied(a, b) THEN {} ELSE {second})
  BY RegistryOfTwo
<1>2. O!tied(a, b) => O!isSameProduct(a, b)
  BY TiesAreKinds
<1>3. O!isSameProduct(a, b) => (O!isSameProduct(a, c) <=> O!isSameProduct(b, c))
  BY DEF O!isSameProduct
<1>4. first.key = a /\ second.key = b /\ first.value = "a" /\ second.value = "b"
  OBVIOUS
<1> HIDE DEF registry, first, second
<1>5. O!isKnownDevice(registry, c) <=> O!isSameProduct(a, c) \/ O!isSameProduct(b, c)
  BY <1>1, <1>2, <1>3, <1>4 DEF O!isKnownDevice
<1>6. ASSUME O!isSameProduct(a, c), ~O!isSameProduct(b, c)
      PROVE  O!device(registry, c) = "a" /\ O!matches(policy, c)
  <2>1. first \in registry
    BY <1>1
  <2>2. \A other \in registry : O!isSameProduct(other.key, c) => other = first
    BY <1>1, <1>4, <1>6
  <2>3. O!device(registry, c) = "a"
    BY <2>1, <2>2, <1>4, <1>6, OnlyFit
  <2>4. O!matches(policy, c)
    BY <1>6 DEF O!matches, O!isSameProduct
  <2>5. QED
    BY <2>3, <2>4
<1>7. ASSUME O!isSameProduct(b, c), ~O!isSameProduct(a, c)
      PROVE  O!device(registry, c) = "b"
  <2>1. second \in registry
    BY <1>1, <1>2, <1>3, <1>7
  <2>2. \A other \in registry : O!isSameProduct(other.key, c) => other = second
    BY <1>1, <1>4, <1>7
  <2>3. QED
    BY <2>1, <2>2, <1>4, <1>7, OnlyFit
<1>8. QED
  BY <1>5, <1>6, <1>7 DEF O!FactoryFindsClass, registry

\* What the comparisons of colours look at are numbers.
LEMMA ValueIsNat ==
  ASSUME NEW c \in O!Colors
  PROVE  O!getValue(c) \in Nat /\ c.mono \in Nat /\ c.blendMode \in Nat
<1>1. c.red \in Nat /\ c.green \in Nat /\ c.blue \in Nat /\ c.mono \in Nat /\ c.blendMode \in Nat
  BY DEF O!Colors, O!Byte
<1>2. \A r, g, b \in Nat : r * 65536 + g * 256 + b \in Nat
  OBVIOUS
<1>3. QED
  BY <1>1, <1>2 DEF O!getValue

\* Color's comparisons agree with each other, and are partial orders.
THEOREM ColorsOrdered ==
  ASSUME NEW a \in O!Colors, NEW b \in O!Colors, NEW c \in O!Colors
  PROVE  O!ColorsArePartlyOrdered(a, b, c)
BY ValueIsNat
   DEF O!ColorsArePartlyOrdered, O!colorLess, O!colorAtMost, O!colorGreater, O!colorAtLeast

\* Greys tie only with themselves.
LEMMA GreysTie ==
  ASSUME NEW u \in O!Byte, NEW v \in O!Byte
  PROVE  ~O!colorLess(O!grey(u), O!grey(v)) /\ ~O!colorLess(O!grey(v), O!grey(u)) <=> u = v
<1>1. ASSUME NEW x \in O!Byte, NEW y \in O!Byte
      PROVE  O!colorLess(O!grey(x), O!grey(y)) <=> x < y
  <2>1. /\ O!getValue(O!grey(x)) = x * 65536 + x * 256 + x
        /\ O!getValue(O!grey(y)) = y * 65536 + y * 256 + y
    BY DEF O!getValue, O!grey
  <2>2. x \in Nat /\ y \in Nat
    BY DEF O!Byte
  <2>3. O!colorLess(O!grey(x), O!grey(y))
          <=> x * 65536 + x * 256 + x < y * 65536 + y * 256 + y /\ x < y
    BY <2>1 DEF O!colorLess, O!grey, O!Normal
  <2>4. QED
    BY <2>2, <2>3
<1>2. u \in Nat /\ v \in Nat
  BY DEF O!Byte
<1>3. QED
  BY <1>1, <1>2

\* Push: with a cache that holds greys with their nearest colours only, a grey is answered
\* with its nearest colour, and that is what the cache then holds for it.
LEMMA GreyIsFound ==
  ASSUME NEW palette, NEW cache, NEW v \in O!Byte,
         \A e \in cache : \E u \in O!Byte :
           e = [color |-> O!grey(u), index |-> O!nearest(palette, O!grey(u))]
  PROVE  LET got == O!getColorIndex(cache, palette, O!grey(v))
         IN /\ got.index = {O!nearest(palette, O!grey(v))}
            /\ \A e \in got.cache : \E u \in O!Byte :
                 e = [color |-> O!grey(u), index |-> O!nearest(palette, O!grey(u))]
<1> DEFINE entry(u) == [color |-> O!grey(u), index |-> O!nearest(palette, O!grey(u))]
           found == {e \in cache : /\ ~O!colorLess(e.color, O!grey(v))
                                   /\ ~O!colorLess(O!grey(v), e.color)}
<1>1. \A u : entry(u).color = O!grey(u) /\ entry(u).index = O!nearest(palette, O!grey(u))
  OBVIOUS
<1> HIDE DEF entry
<1>2. \A e \in cache : \E u \in O!Byte : e = entry(u)
  BY DEF entry
<1>3. \A e \in found : e = entry(v)
  BY <1>1, <1>2, GreysTie
<1> HIDE DEF found
<1>4. CASE found # {}
  <2>1. O!getColorIndex(cache, palette, O!grey(v))
          = [cache |-> cache, index |-> {e.index : e \in found}]
    BY <1>4 DEF O!getColorIndex, found
  <2>2. {e.index : e \in found} = {O!nearest(palette, O!grey(v))}
    BY <1>4, <1>3, <1>1
  <2>3. QED
    BY <2>1, <2>2
<1>5. CASE found = {}
  <2>1. O!getColorIndex(cache, palette, O!grey(v))
          = [cache |-> cache \cup {entry(v)}, index |-> {O!nearest(palette, O!grey(v))}]
    BY <1>5 DEF O!getColorIndex, found, entry
  <2>2. QED
    BY <2>1, <1>2 DEF entry
<1>6. QED
  BY <1>4, <1>5

\* Push: whatever the palette and whatever three greys are asked for in whatever order, the
\* cache answers with the nearest colour of each.
THEOREM GreysFound ==
  ASSUME NEW palette, NEW u \in O!Byte, NEW v \in O!Byte, NEW w \in O!Byte
  PROVE  O!GreysAreFound(palette, u, v, w)
<1> DEFINE one == O!getColorIndex({}, palette, O!grey(u))
           two == O!getColorIndex(one.cache, palette, O!grey(v))
           three == O!getColorIndex(two.cache, palette, O!grey(w))
           fits(cache) == \A e \in cache : \E x \in O!Byte :
             e = [color |-> O!grey(x), index |-> O!nearest(palette, O!grey(x))]
<1>1. fits(one.cache)
  BY GreyIsFound
<1> HIDE DEF one
<1>2. fits(two.cache) /\ two.index = {O!nearest(palette, O!grey(v))}
  BY <1>1, GreyIsFound
<1> HIDE DEF two
<1>3. three.index = {O!nearest(palette, O!grey(w))}
  BY <1>2, GreyIsFound
<1>4. QED
  BY <1>2, <1>3 DEF O!GreysAreFound, one, two

\* DriverLibUSB: on any bus, connect() opens the first device that is what enumerate()
\* listed, and leaves no other open.
THEOREM ConnectFinds ==
  ASSUME NEW S, NEW bus \in Seq(S)
  PROVE  U!ConnectFindsListed(bus)
<1> SUFFICES ASSUME NEW wanted \in U!enumerate(bus)
             PROVE  LET got == U!connect(bus, wanted)
                        is(n) == bus[n].opens /\ bus[n].id = wanted.id
                                   /\ bus[n].serial = wanted.serial
                    IN /\ got.device \in DOMAIN bus /\ is(got.device)
                       /\ \A n \in 1..(got.device - 1) : ~is(n)
                       /\ got.open = {got.device} /\ got.used = got.device
  BY DEF U!ConnectFindsListed
<1> DEFINE fits == {i \in DOMAIN bus : bus[i].id = wanted.id /\ bus[i].opens}
           match == {i \in fits : bus[i].serial = wanted.serial}
           last == CHOOSE i \in match : \A j \in match : i <= j
           tried == {i \in fits : i <= last}
<1>1. DOMAIN bus = 1..Len(bus) /\ Len(bus) \in Nat
  OBVIOUS
<1>2. PICK j \in DOMAIN bus : bus[j].opens /\ wanted = [id |-> bus[j].id, serial |-> bus[j].serial]
  BY DEF U!enumerate
<1>3. j \in match
  BY <1>2
<1>4. match \subseteq Nat /\ match \subseteq fits /\ fits \subseteq DOMAIN bus
  BY <1>1
<1>5. last \in match /\ \A i \in match : last <= i
  <2>1. \E i \in match : \A k \in match : i <= k
    BY <1>3, <1>4, LeastExists
  <2>2. QED
    BY <2>1
<1>6. U!Tried(bus, wanted) = tried
  BY <1>3 DEF U!Tried
<1>7. last \in tried /\ last \in Nat \ {0} /\ \A i \in tried : i \in Nat /\ last >= i
  <2>1. last \in fits /\ last <= last
    BY <1>1, <1>4, <1>5
  <2>2. last \in DOMAIN bus
    BY <1>4, <2>1
  <2>3. \A i \in tried : i \in DOMAIN bus /\ i <= last
    OBVIOUS
  <2> HIDE DEF tried, last, fits
  <2>4. last \in tried
    BY <2>1 DEF tried
  <2>5. QED
    BY <1>1, <2>2, <2>3, <2>4
<1>8. (CHOOSE i \in tried : \A k \in tried : i >= k) = last
  <2> HIDE DEF tried, last
  <2> DEFINE end == CHOOSE i \in tried : \A k \in tried : i >= k
  <2>1. end \in tried /\ \A k \in tried : end >= k
    BY <1>7
  <2> HIDE DEF end
  <2>2. end = last
    BY <1>7, <2>1
  <2>3. QED
    BY <2>2 DEF end
<1> HIDE DEF last
<1>9. bus[last].serial = wanted.serial /\ bus[last].id = wanted.id /\ bus[last].opens
  BY <1>5
<1> HIDE DEF tried
<1>10. U!connect(bus, wanted) = [device |-> last, open |-> {last}, used |-> last]
  BY <1>6, <1>7, <1>8, <1>9 DEF U!connect
<1>11. ASSUME NEW n \in 1..(last - 1),
              bus[n].opens /\ bus[n].id = wanted.id /\ bus[n].serial = wanted.serial
       PROVE  FALSE
  <2>1. last \in DOMAIN bus
    BY <1>4, <1>5
  <2>2. n \in DOMAIN bus /\ n < last
    BY <2>1, <1>1
  <2>3. n \in match
    BY <1>11, <2>2
  <2>4. QED
    BY <2>2, <2>3, <1>4, <1>5
<1>12. last \in DOMAIN bus
  BY <1>4, <1>5
<1>13. QED
  BY <1>9, <1>10, <1>11, <1>12

-----------------------------------------------------------------------------
(* The packets of system exclusive messages.                               *)

\* Division by three: what the packets are counted with.
LEMMA Thirds ==
  ASSUME NEW k \in Nat \ {0}
  PROVE  /\ (k - 1) \div 3 \in Nat /\ (k - 1) % 3 \in 0..2
         /\ k = 3 * ((k - 1) \div 3) + ((k - 1) % 3) + 1
<1>1. k - 1 \in Nat
  OBVIOUS
<1>2. \A m \in Nat : m \div 3 \in Nat /\ m % 3 \in 0..2 /\ m = 3 * (m \div 3) + (m % 3)
  OBVIOUS
<1>3. /\ (k - 1) \div 3 \in Nat /\ (k - 1) % 3 \in 0..2
      /\ k - 1 = 3 * ((k - 1) \div 3) + ((k - 1) % 3)
  BY <1>1, <1>2
<1> QED
  BY <1>3

\* A packet before the last has a head of 4 and three bytes of the message; the last one has
\* the bytes that are left, and how many these are in its head.
LEMMA PacketCarries ==
  ASSUME NEW S, NEW message \in Seq(S), NEW i \in 1..((Len(message) + 2) \div 3)
  PROVE  LET n == (Len(message) + 2) \div 3
             size == IF i < n THEN 3 ELSE Len(message) - 3 * (i - 1)
             packet == B!sendSysex(message)[i]
         IN /\ n \in Nat /\ size \in 1..3
            /\ packet[1] = IF i < n THEN 4 ELSE 4 + size
            /\ \A p \in 1..size : packet[p + 1] = message[3 * (i - 1) + p]
<1> DEFINE n == (Len(message) + 2) \div 3
           size == IF i < n THEN 3 ELSE Len(message) - 3 * (i - 1)
           end == IF i < n THEN 3 * i ELSE Len(message)
           body == SubSeq(message, 3 * i - 2, end)
           Bytes == S \cup Nat
<1>1. Len(message) \in Nat /\ n \in Nat /\ i \in Nat \ {0} /\ i <= n /\ Len(message) > 0
  OBVIOUS
<1>2. 3 * n >= Len(message) /\ 3 * n < Len(message) + 3
  BY <1>1
<1> HIDE DEF n
<1>3. size \in 1..3 /\ end = 3 * (i - 1) + size /\ end <= Len(message)
  <2>1. CASE i < n
    <3>1. 3 * i <= Len(message)
      BY <1>1, <1>2, <2>1
    <3>2. size = 3 /\ end = 3 * i
      BY <2>1
    <3> HIDE DEF size, end
    <3>3. QED
      BY <1>1, <3>1, <3>2
  <2>2. CASE ~(i < n)
    <3>1. size = Len(message) - 3 * (i - 1) /\ end = Len(message) /\ i = n
      BY <2>2, <1>1
    <3> HIDE DEF size, end
    <3>2. QED
      BY <1>1, <1>2, <3>1
  <2>3. QED
    BY <2>1, <2>2
<1> HIDE DEF end, size
<1>4. /\ body \in Seq(Bytes) /\ Len(body) = size
      /\ \A p \in 1..size : body[p] = message[3 * (i - 1) + p]
  <2>1. 3 * i - 2 \in Nat /\ end \in Nat /\ 1 <= 3 * i - 2 /\ end - (3 * i - 2) + 1 = size
    BY <1>1, <1>3
  <2>2. body = [p \in 1..size |-> message[3 * i - 2 + p - 1]]
    BY <2>1
  <2>3. \A p \in 1..size : 3 * i - 2 + p - 1 = 3 * (i - 1) + p /\ 3 * (i - 1) + p \in 1..Len(message)
    BY <1>1, <1>3
  <2>4. \A p \in 1..size : message[3 * (i - 1) + p] \in Bytes
    BY <2>3
  <2>5. size \in Nat
    BY <1>3
  <2> HIDE DEF body
  <2>6. QED
    BY <2>2, <2>3, <2>4, <2>5
<1> DEFINE head == IF i < n THEN 4 ELSE 4 + Len(body)
           zeros == [z \in 1..(3 - Len(body)) |-> 0]
<1>5. B!sendSysex(message)[i] = <<head>> \o body \o zeros
  BY <1>1 DEF B!sendSysex, n, end
<1>6. head \in Nat /\ head = IF i < n THEN 4 ELSE 4 + size
  BY <1>3, <1>4
<1>7. zeros \in Seq(Bytes)
  <2>1. 3 - Len(body) \in Nat
    BY <1>3, <1>4
  <2>2. \A m \in Nat : [z \in 1..m |-> 0] \in Seq(Bytes)
    OBVIOUS
  <2> HIDE DEF body, Bytes
  <2>3. QED
    BY <2>1, <2>2
<1> HIDE DEF body, zeros, head, size
<1>8. /\ <<head>> \o body \in Seq(Bytes) /\ Len(<<head>> \o body) = size + 1
      /\ (<<head>> \o body)[1] = head
      /\ \A p \in 1..size : (<<head>> \o body)[p + 1] = body[p]
  BY <1>3, <1>4, <1>6
<1> DEFINE front == <<head>> \o body
<1> HIDE DEF front
<1>9. \A p \in 1..(size + 1) : (front \o zeros)[p] = front[p]
  BY <1>3, <1>7, <1>8 DEF front
<1>10. /\ B!sendSysex(message)[i][1] = head
       /\ \A p \in 1..size : B!sendSysex(message)[i][p + 1] = body[p]
  BY <1>3, <1>5, <1>8, <1>9 DEF front
<1>11. QED
  BY <1>1, <1>3, <1>4, <1>6, <1>10 DEF n, size

\* USBMidi: the packets of a message of any length carry its bytes in their order and
\* nothing else, and only the last ends it.
THEOREM SysexWhole ==
  ASSUME NEW S, NEW message \in Seq(S)
  PROVE  B!SysexIsWhole(message)
<1> DEFINE n == (Len(message) + 2) \div 3
           packets == B!sendSysex(message)
           carries(p) == CASE p[1] = 5 -> 1 [] p[1] = 6 -> 2 [] OTHER -> 3
           size(i) == IF i < n THEN 3 ELSE Len(message) - 3 * (i - 1)
<1>1. DOMAIN packets = 1..n /\ n \in Nat /\ Len(packets) = n /\ Len(message) \in Nat
      /\ DOMAIN message = 1..Len(message)
  BY DEF B!sendSysex
<1>2. \A i \in 1..n :
        /\ size(i) \in 1..3 /\ (packets[i][1] = IF i < n THEN 4 ELSE 4 + size(i))
        /\ \A p \in 1..size(i) : packets[i][p + 1] = message[3 * (i - 1) + p]
  BY PacketCarries
<1>3. 3 * n >= Len(message) /\ 3 * n < Len(message) + 3
  BY <1>1
<1>4. Len(message) > 0 => n \in 1..n
  BY <1>1, <1>3
<1> HIDE DEF packets, n, size
<1>5. \A i \in 1..n : carries(packets[i]) = size(i)
  <2> TAKE i \in 1..n
  <2>1. CASE i < n
    BY <2>1, <1>2 DEF size
  <2>2. CASE i = n
    <3>1. size(i) \in 1..3 /\ (packets[i][1] = IF i < n THEN 4 ELSE 4 + size(i)) /\ ~(i < n)
      BY <2>2, <1>2, <1>1
    <3>2. QED
      BY <3>1
  <2>3. QED
    BY <2>1, <2>2, <1>1
<1>6. \A k \in DOMAIN message :
        LET packet == packets[(k - 1) \div 3 + 1]
            place == ((k - 1) % 3) + 1
        IN place <= carries(packet) /\ packet[place + 1] = message[k]
  <2> TAKE k \in DOMAIN message
  <2> DEFINE i == (k - 1) \div 3 + 1
             place == ((k - 1) % 3) + 1
  <2>1. k \in Nat \ {0} /\ k <= Len(message)
    BY <1>1
  <2>2. i \in Nat \ {0} /\ place \in 1..3 /\ k = 3 * (i - 1) + place
    BY <2>1, Thirds
  <2> HIDE DEF i, place
  <2>3. i \in 1..n
    BY <1>1, <1>3, <2>1, <2>2
  <2>4. place \in 1..size(i)
    <3>1. CASE i < n
      BY <3>1, <2>2 DEF size
    <3>2. CASE i = n
      <4>1. ~(i < n)
        BY <3>2, <1>1
      <4>2. size(i) = Len(message) - 3 * (i - 1)
        BY <4>1 DEF size
      <4>3. QED
        BY <4>2, <1>1, <2>1, <2>2, <2>3
    <3>3. QED
      BY <3>1, <3>2, <2>3, <1>1
  <2> HIDE DEF carries
  <2>5. carries(packets[i]) = size(i) /\ size(i) \in 1..3
    BY <2>3, <1>2, <1>5
  <2>6. packets[i][place + 1] = message[3 * (i - 1) + place]
    BY <1>2, <2>3, <2>4
  <2>7. place <= carries(packets[i])
    BY <2>4, <2>5
  <2>8. QED
    BY <2>2, <2>6, <2>7 DEF i, place
<1>7. message # << >> => 3 * (Len(packets) - 1) + carries(packets[Len(packets)]) = Len(message)
  <2> HAVE message # << >>
  <2>1. Len(message) > 0
    BY <1>1
  <2>2. n \in 1..n
    BY <1>4, <2>1
  <2>3. carries(packets[n]) = Len(message) - 3 * (n - 1)
    BY <1>1, <1>5, <2>2 DEF size
  <2> HIDE DEF carries
  <2>4. QED
    BY <1>1, <2>3
<1>8. \A i \in DOMAIN packets : (packets[i][1] = 4 <=> i < Len(packets))
  <2> TAKE i \in DOMAIN packets
  <2>1. i \in 1..n /\ Len(packets) = n
    BY <1>1
  <2>2. size(i) \in 1..3 /\ (packets[i][1] = IF i < n THEN 4 ELSE 4 + size(i))
    BY <1>2, <2>1
  <2>3. QED
    BY <2>1, <2>2
<1>9. QED
  BY <1>6, <1>7, <1>8 DEF B!SysexIsWhole, packets

-----------------------------------------------------------------------------
(* The samples of the pure algorithms.                                     *)

SampleSet == FigureSamples \cup SurfaceSamples \cup LookupSamples \cup SysexSamples \cup {NoSample}

\* A sample is of the algorithm it names.
LEMMA SampleTypes ==
  ASSUME NEW s \in SampleSet
  PROVE  /\ s.algorithm = "versions" =>
              s.a \in SomeVersions /\ s.b \in SomeVersions /\ s.c \in SomeVersions
         /\ s.algorithm = "descriptors" => s.a \in Units /\ s.b \in Units /\ s.c \in Units
         /\ s.algorithm = "colors" => s.a \in SomeColors /\ s.b \in SomeColors /\ s.c \in SomeColors
         /\ s.algorithm = "greys" =>
              s.a \in Greys \ {-1} /\ s.b \in Greys \ {-1} /\ s.c \in Greys \ {-1}
         /\ s.algorithm = "bus" => s.a \in Buses
         /\ s.algorithm = "sysex" => s.message \in {[i \in 1..n |-> i] : n \in 0..8}
<1>1. CASE s \in FigureSamples
  <2>1. s.algorithm \in {"line", "triangle", "circle", "rectangle", "rounded", "bitmap"}
    BY <1>1 DEF FigureSamples
  <2>2. QED
    BY <2>1
<1>2. CASE s \in SurfaceSamples
  <2>1. CASE s \in PointSamples
    <3>1. s.algorithm = "points"
      BY <2>1 DEF PointSamples
    <3>2. QED
      BY <3>1
  <2>2. CASE s \in MarkSamples
    <3>1. s.algorithm = "marks"
      BY <2>2 DEF MarkSamples
    <3>2. QED
      BY <3>1
  <2>3. CASE s \in [algorithm : {"leds"}, length : {8, 11}, e : -2..9]
    <3>1. s.algorithm = "leds"
      BY <2>3
    <3>2. QED
      BY <3>1
  <2>4. QED
    BY <1>2, <2>1, <2>2, <2>3 DEF SurfaceSamples
<1>3. CASE s \in LookupSamples
  <2>1. {0, 40, 255} \subseteq Greys \ {-1}
    BY DEF Greys
  <2>2. QED
    BY <1>3, <2>1 DEF LookupSamples
<1>4. CASE s \in SysexSamples
  <2>1. s.algorithm = "sysex" /\ s.message \in {[i \in 1..n |-> i] : n \in 0..8}
    BY <1>4 DEF SysexSamples
  <2>2. QED
    BY <2>1
<1>5. CASE s = NoSample
  <2>1. s.algorithm = "none"
    BY <1>5 DEF NoSample
  <2>2. QED
    BY <2>1
<1>6. QED
  BY <1>1, <1>2, <1>3, <1>4, <1>5 DEF SampleSet

\* What is compared are versions, descriptors, colours, greys and buses.
LEMMA SamplesAreTyped ==
  /\ SomeVersions \subseteq O!Versions
  /\ Units \subseteq O!Descriptors
  /\ SomeColors \subseteq O!Colors
  /\ Greys \ {-1} \subseteq O!Byte
  /\ \A bus \in Buses : \E S : bus \in Seq(S)
  /\ \A message \in {[i \in 1..n |-> i] : n \in 0..8} : message \in Seq(Nat)
<1>1. SomeVersions \subseteq O!Versions
  BY DEF SomeVersions, O!Versions
<1>2. Units \subseteq O!Descriptors
  BY DEF Units, O!Descriptors, O!Types
<1>3. SomeColors \subseteq O!Colors
  <2>1. \A r, g, b \in O!Byte : O!rgb(r, g, b) \in O!Colors
    BY DEF O!rgb, O!Colors, O!Byte, O!Normal
  <2>2. \A v \in O!Byte :
          O!grey(v) \in O!Colors /\ [O!grey(v) EXCEPT !.blendMode = O!Invert] \in O!Colors
    BY DEF O!grey, O!Colors, O!Byte, O!Normal, O!Invert
  <2>3. {0, 8, 40, 48, 90, 255} \subseteq O!Byte
    BY DEF O!Byte
  <2>4. \A r, g, b \in {0, 8, 40, 48, 90, 255} : O!rgb(r, g, b) \in O!Colors
    BY <2>1, <2>3
  <2>5. \A v \in {0, 8, 40, 48, 90, 255} :
          O!grey(v) \in O!Colors /\ [O!grey(v) EXCEPT !.blendMode = O!Invert] \in O!Colors
    BY <2>2, <2>3
  <2>6. QED
    BY <2>4, <2>5 DEF SomeColors
<1>4. Greys \ {-1} \subseteq O!Byte
  BY DEF Greys, O!Byte
<1>5. ASSUME NEW bus \in Buses PROVE \E S : bus \in Seq(S)
  <2>1. bus \in ShortBuses => \E n \in 1..2 : bus \in [1..n -> UsbUnits]
    BY DEF ShortBuses
  <2>2. bus \in [1..3 -> {u \in UsbUnits : u.id = 1}] => bus \in [1..3 -> UsbUnits]
    OBVIOUS
  <2>3. \A n \in Nat : \A f \in [1..n -> UsbUnits] : f \in Seq(UsbUnits)
    OBVIOUS
  <2>4. bus \in Seq(UsbUnits)
    <3>1. CASE bus \in ShortBuses
      <4>1. PICK n \in 1..2 : bus \in [1..n -> UsbUnits]
        BY <2>1, <3>1
      <4>2. n \in Nat
        OBVIOUS
      <4>3. QED
        BY <4>1, <4>2, <2>3
    <3>2. CASE bus \in [1..3 -> {u \in UsbUnits : u.id = 1}]
      <4>1. bus \in [1..3 -> UsbUnits] /\ 3 \in Nat
        BY <2>2, <3>2
      <4>2. QED
        BY <4>1, <2>3
    <3>3. QED
      BY <3>1, <3>2 DEF Buses
  <2>5. QED
    BY <2>4
<1>6. ASSUME NEW message \in {[i \in 1..n |-> i] : n \in 0..8} PROVE message \in Seq(Nat)
  <2>1. PICK n \in 0..8 : message = [i \in 1..n |-> i]
    OBVIOUS
  <2>2. QED
    BY <2>1
<1>7. QED
  BY <1>1, <1>2, <1>3, <1>4, <1>5, <1>6

\* A sample is one of them and does not change.
SampleInv == sample \in SampleSet

\* The sample of a behaviour is chosen at its start ...
LEMMA SampleInit == Init => SampleInv
BY DEF Init, SampleInv, SampleSet

\* ... and stays.
LEMMA SampleStays == SampleInv /\ [Next]_allVars => SampleInv'
BY DEF Next, allVars, SampleInv

\* What is looked up, in any sample, is what was put there for it.
LEMMA SamplesLookRight == ASSUME SampleInv PROVE LookupsAreRight
<1> USE SampleTypes, SamplesAreTyped DEF SampleInv
<1>1. sample.algorithm = "versions" => O!VersionsAreOrdered(sample.a, sample.b, sample.c)
  BY VersionsOrdered
<1>2. sample.algorithm = "descriptors" =>
        /\ O!DescriptorsAreOrdered(sample.a, sample.b, sample.c)
        /\ O!FactoryFindsClass(sample.a, sample.b, sample.c)
  BY DescriptorsOrdered, FactoryFinds
<1>3. sample.algorithm = "colors" => O!ColorsArePartlyOrdered(sample.a, sample.b, sample.c)
  BY ColorsOrdered
<1>4. sample.algorithm = "greys" => O!GreysAreFound(Palette, sample.a, sample.b, sample.c)
  BY GreysFound
<1>5. sample.algorithm = "bus" => U!ConnectFindsListed(sample.a)
  BY ConnectFinds
<1>6. QED
  BY <1>1, <1>2, <1>3, <1>4, <1>5 DEF LookupsAreRight

\* Versions, descriptors, colours and buses: every look-up of every behaviour is right.
THEOREM LookupsRight == Spec => []LookupsAreRight
<1>1. Spec => Init /\ [][Next]_allVars
  BY DEF Spec, allVars
<1>2. SampleInv => LookupsAreRight
  BY SamplesLookRight
<1>3. QED
  BY <1>1, <1>2, SampleInit, SampleStays, PTL

-----------------------------------------------------------------------------
(* The transfers of a USB handle.                                          *)

Reports == U!Endpoints \X Nat \cup {<<"none", 0>>}

\* The reports of an endpoint that were copied, spoilt or thrown away.
Due(e) == IF U!Uncopied(e) THEN sent[e] - 1 ELSE sent[e]

\* A reader's account is right, up to the report that is in the buffer, if there is one
\* of its endpoint; and that is in the buffer still, or counted as spoilt.
EndpointInv(e) ==
  /\ U!Accounts(given[e], e, Due(e), spoilt[e], discarded[e])
  /\ U!Uncopied(e) => /\ sent[e] # 0
                      /\ \/ m_inputBuffer = <<e, sent[e]>>
                         \/ m_inputBuffer[1] # e /\ sent[e] \in spoilt[e]

UsbInv ==
  /\ sent \in [U!Endpoints -> Nat]
  /\ spoilt \in [U!Endpoints -> SUBSET Nat] /\ discarded \in [U!Endpoints -> SUBSET Nat]
  /\ given \in [U!Endpoints -> Seq(Reports)]
  /\ transfer \in {"none", "pending", "filled", "empty", "copied"}
  /\ reading \in {"idle", "filled"}
  /\ armed \in BOOLEAN /\ plugged \in BOOLEAN /\ m_pCurrentDevice \in BOOLEAN
  /\ m_inputBuffer \in Reports
  /\ \A e \in U!Endpoints : EndpointInv(e)
  /\ IF armed THEN plugged /\ m_pCurrentDevice => transfer # "none" ELSE transfer = "none"

\* An account stays right when more is spoilt ...
LEMMA SpoiltMore ==
  ASSUME NEW e, NEW got \in Seq(Reports), NEW n \in Nat, NEW some, NEW more, some \subseteq more,
         NEW thrown, U!Accounts(got, e, n, some, thrown)
  PROVE  U!Accounts(got, e, n, more, thrown)
BY DEF U!Accounts

\* ... when the next report is thrown away ...
LEMMA ThrownAway ==
  ASSUME NEW e, NEW got \in Seq(Reports), NEW n \in Nat, NEW some, NEW thrown,
         U!Accounts(got, e, n, some, thrown)
  PROVE  U!Accounts(got, e, n + 1, some, thrown \cup {n + 1})
<1> DEFINE own == {i \in DOMAIN got : got[i][1] = e}
<1>1. \A i \in own : got[i] \in Reports /\ got[i][2] \in Nat
  BY DEF Reports
<1>2. \A i \in own : got[i][2] <= n
  BY DEF U!Accounts
<1>3. \A i \in own : got[i][2] <= n + 1
  BY <1>1, <1>2
<1>4. \A i, j \in own : i < j => got[i][2] < got[j][2]
  BY DEF U!Accounts
<1>5. 1 .. n \subseteq 1 .. (n + 1) /\ \A k \in 1 .. (n + 1) : k \in 1 .. n \/ k = n + 1
  OBVIOUS
<1>6. \A i \in DOMAIN got \ own : \E k \in some \cap 1 .. (n + 1) :
        \A j \in own : IF j < i THEN got[j][2] < k ELSE k < got[j][2]
  BY <1>5 DEF U!Accounts
<1>7. \A k \in 1 .. (n + 1) : k \in some \cup (thrown \cup {n + 1}) \/ \E i \in own : got[i][2] = k
  BY <1>5 DEF U!Accounts
<1>8. QED
  BY <1>3, <1>4, <1>6, <1>7 DEF U!Accounts

\* ... and when the reader is given it, or another in its place.
LEMMA Copied ==
  ASSUME NEW e, NEW got \in Seq(Reports), NEW n \in Nat, NEW some, NEW thrown,
         U!Accounts(got, e, n, some, thrown), NEW r \in Reports,
         r = <<e, n + 1>> \/ (r[1] # e /\ n + 1 \in some)
  PROVE  U!Accounts(Append(got, r), e, n + 1, some, thrown)
<1> DEFINE own == {i \in DOMAIN got : got[i][1] = e}
           all == Append(got, r)
           last == Len(got) + 1
           ownNow == {i \in DOMAIN all : all[i][1] = e}
<1>1. /\ DOMAIN got = 1 .. Len(got) /\ DOMAIN all = 1 .. last /\ Len(got) \in Nat
      /\ all[last] = r /\ \A i \in DOMAIN got : all[i] = got[i]
  OBVIOUS
<1>2. \A i \in own : got[i] \in Reports /\ got[i][2] \in Nat /\ got[i][2] <= n /\ i < last
  BY <1>1 DEF Reports, U!Accounts
<1>3. ownNow = IF r[1] = e THEN own \cup {last} ELSE own
  BY <1>1
<1>4. r[1] = e => r[2] = n + 1
  OBVIOUS
<1>5. 1 .. n \subseteq 1 .. (n + 1) /\ n + 1 \in 1 .. (n + 1)
      /\ \A k \in 1 .. (n + 1) : k \in 1 .. n \/ k = n + 1
  OBVIOUS
<1> HIDE DEF all, ownNow
<1>6. \A i \in ownNow : all[i][2] <= n + 1
  BY <1>1, <1>2, <1>3, <1>4
<1>7. \A i, j \in ownNow : i < j => all[i][2] < all[j][2]
  <2>1. \A i, j \in own : i < j => got[i][2] < got[j][2]
    BY DEF U!Accounts
  <2>2. QED
    BY <1>1, <1>2, <1>3, <1>4, <2>1
<1>8. ASSUME NEW i \in DOMAIN all \ ownNow
      PROVE  \E k \in some \cap 1 .. (n + 1) :
               \A j \in ownNow : IF j < i THEN all[j][2] < k ELSE k < all[j][2]
  <2>1. CASE i = last
    <3>1. r[1] # e /\ n + 1 \in some /\ ownNow = own
      BY <1>1, <1>3, <1>8, <2>1 DEF ownNow
    <3>2. \A j \in ownNow : j < i /\ all[j][2] < n + 1
      BY <1>1, <1>2, <2>1, <3>1
    <3>3. QED
      BY <1>5, <3>1, <3>2
  <2>2. CASE i # last
    <3>1. i \in DOMAIN got \ own
      BY <1>1, <1>3, <1>8, <2>2 DEF ownNow
    <3>2. PICK k \in some \cap 1 .. n :
            \A j \in own : IF j < i THEN got[j][2] < k ELSE k < got[j][2]
      BY <3>1 DEF U!Accounts
    <3>3. ASSUME NEW j \in ownNow PROVE IF j < i THEN all[j][2] < k ELSE k < all[j][2]
      <4>1. CASE j \in own
        BY <1>1, <3>2, <4>1
      <4>2. CASE j = last /\ r[1] = e
        BY <1>1, <1>4, <3>1, <3>2, <4>2
      <4>3. QED
        BY <1>3, <3>3, <4>1, <4>2
    <3>4. QED
      BY <1>5, <3>2, <3>3
  <2>3. QED
    BY <2>1, <2>2
<1>9. ASSUME NEW k \in 1 .. (n + 1)
      PROVE  k \in some \cup thrown \/ \E i \in ownNow : all[i][2] = k
  <2>1. CASE k \in 1 .. n
    <3>1. k \in some \cup thrown \/ \E i \in own : got[i][2] = k
      BY <2>1 DEF U!Accounts
    <3>2. QED
      BY <1>1, <1>3, <3>1
  <2>2. CASE k = n + 1
    BY <1>1, <1>3, <1>4, <2>2
  <2>3. QED
    BY <1>5, <2>1, <2>2
<1>10. QED
  BY <1>6, <1>7, <1>8, <1>9 DEF U!Accounts, all, ownNow

\* The handle is opened with nothing sent.
LEMMA UsbInit == U!Init => UsbInv
<1> SUFFICES ASSUME U!Init PROVE UsbInv
  OBVIOUS
<1> USE DEF U!Init
<1>1. /\ sent \in [U!Endpoints -> Nat] /\ m_inputBuffer \in Reports
      /\ spoilt \in [U!Endpoints -> SUBSET Nat] /\ discarded \in [U!Endpoints -> SUBSET Nat]
      /\ given \in [U!Endpoints -> Seq(Reports)]
  BY DEF Reports
<1>2. ASSUME NEW e \in U!Endpoints
      PROVE  given[e] = << >> /\ Due(e) = 0 /\ ~U!Uncopied(e)
  BY <1>2 DEF U!Uncopied, Due
<1>3. \A e \in U!Endpoints : U!Accounts(given[e], e, Due(e), spoilt[e], discarded[e])
  BY <1>2 DEF U!Accounts
<1>4. QED
  BY <1>1, <1>2, <1>3 DEF UsbInv, EndpointInv

\* A report comes into the buffer: of the endpoint nothing waits there to be copied, and what
\* waits of the other is spoilt now.
LEMMA Filled ==
  ASSUME UsbInv, NEW e \in U!Endpoints, NEW o \in U!Endpoints, o # e, ~U!Uncopied(e), U!Fill(e)
  PROVE  /\ sent' \in [U!Endpoints -> Nat] /\ spoilt' \in [U!Endpoints -> SUBSET Nat]
         /\ sent'[e] = sent[e] + 1 /\ sent'[o] = sent[o] /\ spoilt'[e] = spoilt[e]
         /\ spoilt'[o] = IF U!Uncopied(o) THEN spoilt[o] \cup {sent[o]} ELSE spoilt[o]
         /\ m_inputBuffer' = <<e, sent[e] + 1>> /\ m_inputBuffer' \in Reports
         /\ Due(e) = sent[e] /\ Due(o) \in Nat /\ plugged
         /\ U!Accounts(given[o], o, Due(o), spoilt'[o], discarded[o])
         /\ U!Uncopied(o) => sent[o] # 0 /\ m_inputBuffer'[1] # o /\ sent[o] \in spoilt'[o]
<1>1. e \in {"async", "sync"} /\ o = (IF e = "async" THEN "sync" ELSE "async")
  BY DEF U!Endpoints
<1>2. /\ sent \in [U!Endpoints -> Nat] /\ spoilt \in [U!Endpoints -> SUBSET Nat]
      /\ given[o] \in Seq(Reports)
      /\ U!Accounts(given[o], o, Due(o), spoilt[o], discarded[o])
      /\ U!Uncopied(o) => sent[o] # 0
  BY DEF UsbInv, EndpointInv
<1>3. /\ sent' = [sent EXCEPT ![e] = @ + 1] /\ m_inputBuffer' = <<e, sent[e] + 1>> /\ plugged
      /\ spoilt' = IF U!Uncopied(o) THEN [spoilt EXCEPT ![o] = @ \cup {sent[o]}] ELSE spoilt
  BY <1>1 DEF U!Fill
<1>4. /\ sent' \in [U!Endpoints -> Nat] /\ spoilt' \in [U!Endpoints -> SUBSET Nat]
      /\ sent'[e] = sent[e] + 1 /\ sent'[o] = sent[o] /\ spoilt'[e] = spoilt[e]
      /\ spoilt'[o] = IF U!Uncopied(o) THEN spoilt[o] \cup {sent[o]} ELSE spoilt[o]
  BY <1>2, <1>3
<1>5. m_inputBuffer' \in Reports /\ m_inputBuffer'[1] = e
  BY <1>2, <1>3 DEF Reports
<1>6. Due(e) = sent[e] /\ Due(o) \in Nat
  BY <1>2 DEF Due
<1>7. U!Accounts(given[o], o, Due(o), spoilt'[o], discarded[o])
  BY <1>2, <1>4, <1>6, SpoiltMore
<1>8. QED
  BY <1>2, <1>3, <1>4, <1>5, <1>6, <1>7

\* What such a report leaves of both accounts, if it may be copied ...
LEMMA FillKeeps ==
  ASSUME UsbInv, NEW e \in U!Endpoints, NEW o \in U!Endpoints, o # e, ~U!Uncopied(e), U!Fill(e),
         U!Uncopied(e)', U!Uncopied(o)' <=> U!Uncopied(o), UNCHANGED <<given, discarded>>
  PROVE  EndpointInv(e)' /\ EndpointInv(o)'
<1>1. /\ sent[e] \in Nat /\ EndpointInv(e) /\ EndpointInv(o)
  BY DEF UsbInv
<1>2. /\ sent'[e] = sent[e] + 1 /\ sent'[o] = sent[o] /\ spoilt'[e] = spoilt[e]
      /\ m_inputBuffer' = <<e, sent[e] + 1>> /\ Due(e) = sent[e]
  BY Filled
<1>3. Due(e)' = sent'[e] - 1
  BY DEF Due
<1>4. Due(o)' = Due(o)
  BY <1>2 DEF Due
<1>5. /\ Due(e)' = sent[e] /\ Due(o)' = Due(o) /\ Due(e) = sent[e]
  BY <1>1, <1>2, <1>3, <1>4
<1>6. U!Accounts(given[e], e, sent[e], spoilt[e], discarded[e])
  BY <1>1, <1>2 DEF EndpointInv
<1>7. U!Accounts(given'[e], e, Due(e)', spoilt'[e], discarded'[e])
  BY <1>5, <1>2, <1>6
<1>8. sent'[e] # 0 /\ m_inputBuffer' = <<e, sent'[e]>>
  BY <1>1, <1>2
<1>9. EndpointInv(e)'
  BY <1>7, <1>8 DEF EndpointInv
<1>10. EndpointInv(o)'
  BY <1>1, <1>5, Filled DEF EndpointInv
<1>11. QED
  BY <1>9, <1>10

\* ... and if the transfer did not end well.
LEMMA DiscardKeeps ==
  ASSUME UsbInv, NEW e \in U!Endpoints, NEW o \in U!Endpoints, o # e, ~U!Uncopied(e), U!Discard(e),
         ~U!Uncopied(e)', U!Uncopied(o)' <=> U!Uncopied(o), UNCHANGED given
  PROVE  EndpointInv(e)' /\ EndpointInv(o)' /\ discarded' \in [U!Endpoints -> SUBSET Nat]
<1>1. /\ sent[e] \in Nat /\ EndpointInv(e) /\ EndpointInv(o) /\ given[e] \in Seq(Reports)
      /\ discarded \in [U!Endpoints -> SUBSET Nat]
  BY DEF UsbInv
<1>2. /\ U!Fill(e) /\ discarded' = [discarded EXCEPT ![e] = @ \cup {sent[e] + 1}]
  BY DEF U!Discard
<1>3. /\ discarded'[e] = discarded[e] \cup {sent[e] + 1} /\ discarded'[o] = discarded[o]
      /\ discarded' \in [U!Endpoints -> SUBSET Nat]
  BY <1>1, <1>2
<1>4. /\ Due(e)' = sent[e] + 1 /\ Due(o)' = Due(o) /\ Due(e) = sent[e]
  BY <1>1, <1>2, Filled DEF Due
<1>5. U!Accounts(given[e], e, sent[e] + 1, spoilt[e], discarded[e] \cup {sent[e] + 1})
  BY <1>1, <1>4, ThrownAway DEF EndpointInv
<1>6. EndpointInv(e)'
  BY <1>2, <1>3, <1>4, <1>5, Filled DEF EndpointInv
<1>7. EndpointInv(o)'
  BY <1>1, <1>2, <1>3, <1>4, Filled DEF EndpointInv
<1>8. QED
  BY <1>3, <1>6, <1>7

\* What a copy leaves of them.
LEMMA CopyKeeps ==
  ASSUME UsbInv, NEW e \in U!Endpoints, NEW o \in U!Endpoints, o # e, U!Uncopied(e),
         given' = [given EXCEPT ![e] = Append(given[e], m_inputBuffer)],
         ~U!Uncopied(e)', U!Uncopied(o)' <=> U!Uncopied(o),
         UNCHANGED <<sent, spoilt, discarded, m_inputBuffer>>
  PROVE  EndpointInv(e)' /\ EndpointInv(o)' /\ given' \in [U!Endpoints -> Seq(Reports)]
<1>1. /\ sent[e] \in Nat /\ EndpointInv(e) /\ EndpointInv(o) /\ m_inputBuffer \in Reports
      /\ given \in [U!Endpoints -> Seq(Reports)]
  BY DEF UsbInv
<1>2. /\ given'[e] = Append(given[e], m_inputBuffer) /\ given'[o] = given[o]
      /\ given' \in [U!Endpoints -> Seq(Reports)]
  BY <1>1
<1>3. /\ sent[e] # 0 /\ Due(e) = sent[e] - 1 /\ Due(e) \in Nat /\ Due(e) + 1 = sent[e]
      /\ Due(e)' = sent[e] /\ Due(o)' = Due(o)
  BY <1>1 DEF EndpointInv, Due
<1>4. m_inputBuffer = <<e, Due(e) + 1>> \/ (m_inputBuffer[1] # e /\ Due(e) + 1 \in spoilt[e])
  BY <1>1, <1>3 DEF EndpointInv
<1>5. U!Accounts(Append(given[e], m_inputBuffer), e, Due(e) + 1, spoilt[e], discarded[e])
  BY <1>1, <1>3, <1>4, Copied DEF EndpointInv
<1>6. EndpointInv(e)'
  BY <1>2, <1>3, <1>5 DEF EndpointInv
<1>7. EndpointInv(o)'
  BY <1>1, <1>2, <1>3 DEF EndpointInv
<1>8. QED
  BY <1>2, <1>6, <1>7

\* Every step of a handle keeps the accounts.
LEMMA UsbStep == UsbInv /\ [U!Next]_usbVars => UsbInv'
<1> SUFFICES ASSUME UsbInv, [U!Next]_usbVars PROVE UsbInv'
  OBVIOUS
<1>e. /\ "async" \in U!Endpoints /\ "sync" \in U!Endpoints /\ "async" # "sync"
      /\ \A e \in U!Endpoints : e = "async" \/ e = "sync"
  BY DEF U!Endpoints
\* Where neither the reports nor what waits of them changes, the accounts stay.
<1>u. ASSUME UNCHANGED <<m_inputBuffer, sent, given, spoilt, discarded, reading>>,
             transfer = "filled" <=> transfer' = "filled"
      PROVE  \A e \in U!Endpoints : EndpointInv(e)'
  BY <1>u, <1>e DEF UsbInv, EndpointInv, Due, U!Uncopied
<1>1. CASE U!readAsync
  BY <1>1, <1>u DEF U!readAsync, U!submit, UsbInv
<1>2. CASE U!Complete
  <2>1. ~U!Uncopied("async") /\ (U!Uncopied("sync")' <=> U!Uncopied("sync"))
    BY <1>2 DEF U!Complete, U!Uncopied
  <2>2. CASE transfer' = "filled" /\ U!Fill("async") /\ UNCHANGED discarded
    <3>1. U!Uncopied("async")' /\ UNCHANGED <<given, discarded>>
      BY <1>2, <2>2 DEF U!Complete, U!Uncopied
    <3>2. \A e \in U!Endpoints : EndpointInv(e)'
      BY <1>e, <2>1, <2>2, <3>1, FillKeeps
    <3>3. QED
      BY <1>2, <1>e, <2>1, <2>2, <3>2, Filled DEF U!Complete, UsbInv
  <2>3. CASE transfer' = "empty" /\ U!Discard("async")
    <3>1. ~U!Uncopied("async")' /\ UNCHANGED given /\ U!Fill("async")
      BY <1>2, <2>3 DEF U!Complete, U!Uncopied, U!Discard
    <3>2. /\ \A e \in U!Endpoints : EndpointInv(e)'
          /\ discarded' \in [U!Endpoints -> SUBSET Nat]
      BY <1>e, <2>1, <2>3, <3>1, DiscardKeeps
    <3>3. QED
      BY <1>2, <1>e, <2>1, <2>3, <3>1, <3>2, Filled DEF U!Complete, UsbInv
  <2>4. CASE transfer' = "empty" /\ UNCHANGED <<m_inputBuffer, sent, spoilt, discarded>>
    BY <1>2, <1>u, <2>4 DEF U!Complete, UsbInv
  <2>5. QED
    BY <1>2, <2>2, <2>3, <2>4 DEF U!Complete
<1>3. CASE U!CbCopy
  <2>1. /\ U!Uncopied("async") /\ ~U!Uncopied("async")' /\ (U!Uncopied("sync")' <=> U!Uncopied("sync"))
        /\ given' = [given EXCEPT !["async"] = Append(given["async"], m_inputBuffer)]
        /\ UNCHANGED <<sent, spoilt, discarded, m_inputBuffer>>
    BY <1>3 DEF U!CbCopy, U!Uncopied
  <2>2. /\ \A e \in U!Endpoints : EndpointInv(e)'
        /\ given' \in [U!Endpoints -> Seq(Reports)]
    BY <1>e, <2>1, CopyKeeps
  <2>3. QED
    BY <1>3, <2>2 DEF U!CbCopy, UsbInv
<1>4. CASE U!CbResubmit
  BY <1>4, <1>u DEF U!CbResubmit, U!submit, UsbInv
<1>5. CASE U!Read
  <2>1. ~U!Uncopied("sync") /\ (U!Uncopied("async")' <=> U!Uncopied("async"))
    BY <1>5 DEF U!Read, U!Uncopied
  <2>2. CASE U!Fill("sync") /\ reading' = "filled" /\ UNCHANGED discarded
    <3>1. U!Uncopied("sync")' /\ UNCHANGED <<given, discarded>>
      BY <1>5, <2>2 DEF U!Read, U!Uncopied
    <3>2. \A e \in U!Endpoints : EndpointInv(e)'
      BY <1>e, <2>1, <2>2, <3>1, FillKeeps
    <3>3. QED
      BY <1>5, <1>e, <2>1, <2>2, <3>2, Filled DEF U!Read, UsbInv
  <2>3. CASE U!Discard("sync") /\ UNCHANGED reading
    <3>1. ~U!Uncopied("sync")' /\ UNCHANGED given /\ U!Fill("sync")
      BY <1>5, <2>3 DEF U!Read, U!Uncopied, U!Discard
    <3>2. /\ \A e \in U!Endpoints : EndpointInv(e)'
          /\ discarded' \in [U!Endpoints -> SUBSET Nat]
      BY <1>e, <2>1, <2>3, <3>1, DiscardKeeps
    <3>3. QED
      BY <1>5, <1>e, <2>1, <2>3, <3>1, <3>2, Filled DEF U!Read, UsbInv
  <2>4. CASE UNCHANGED <<reading, m_inputBuffer, sent, spoilt, discarded>>
    BY <1>5, <1>u, <2>4 DEF U!Read, UsbInv
  <2>5. QED
    BY <1>5, <2>2, <2>3, <2>4 DEF U!Read
<1>6. CASE U!SetData
  <2>1. /\ U!Uncopied("sync") /\ ~U!Uncopied("sync")' /\ (U!Uncopied("async")' <=> U!Uncopied("async"))
        /\ given' = [given EXCEPT !["sync"] = Append(given["sync"], m_inputBuffer)]
        /\ UNCHANGED <<sent, spoilt, discarded, m_inputBuffer>>
    BY <1>6 DEF U!SetData, U!Uncopied
  <2>2. /\ \A e \in U!Endpoints : EndpointInv(e)'
        /\ given' \in [U!Endpoints -> Seq(Reports)]
    BY <1>e, <2>1, CopyKeeps
  <2>3. QED
    BY <1>6, <2>2 DEF U!SetData, UsbInv
<1>7. CASE U!disconnect
  BY <1>7, <1>u DEF U!disconnect, UsbInv
<1>8. CASE U!Unplug
  BY <1>8, <1>u DEF U!Unplug, UsbInv
<1>9. CASE UNCHANGED usbVars
  BY <1>9, <1>u DEF usbVars, UsbInv
<1>10. QED
  BY <1>1, <1>2, <1>3, <1>4, <1>5, <1>6, <1>7, <1>8, <1>9 DEF U!Next

\* The accounts are what is asked for.
LEMMA UsbGiven == UsbInv => U!ReportsAreWhole
<1>1. UsbInv => (armed /\ plugged /\ m_pCurrentDevice => transfer # "none")
  BY DEF UsbInv
<1>2. UsbInv => \A e \in U!Endpoints : U!Accounts(given[e], e, Due(e), spoilt[e], discarded[e])
  BY DEF UsbInv, EndpointInv
<1>3. QED
  BY <1>1, <1>2, Zenon DEF U!ReportsAreWhole, Due

-----------------------------------------------------------------------------
(* The handles of HIDAPI and MIDI.                                         *)

Waiting == {queue[i] : i \in DOMAIN queue}

\* Types, and what is in the handle's queue: reports that were sent, in their order.
QueueInv ==
  /\ driver \in {"HIDAPI", "MIDI"} /\ tries \in Nat \ {0} /\ slot \in Nat
  /\ handle \in {"none", "open", "dead", "null"} /\ m_cbRead \in BOOLEAN
  /\ kinds \in Seq({"buttons", "pads"})
  /\ queue \in Seq(1..Len(kinds)) /\ processed \in Seq(1..Len(kinds))
  /\ lost \subseteq 1..Len(kinds) /\ input \in 0..Len(kinds)
  /\ \A i, j \in DOMAIN queue : i < j => queue[i] < queue[j]
  /\ \A j \in DOMAIN queue : queue[j] \notin lost
  /\ handle = "none" => queue = << >>
  /\ slot # 0 => driver = "HIDAPI" /\ (input # 0 => kinds[input] = "pads")

\* What was processed is in order.  With HIDAPI all of it came before what waits, and the
\* report in the transfer did, too.
OrderInv ==
  /\ \A i, j \in DOMAIN processed : i < j => processed[i] <= processed[j]
  /\ driver = "HIDAPI" =>
       /\ \A i \in DOMAIN processed, j \in DOMAIN queue : processed[i] < queue[j]
       /\ \A i \in DOMAIN processed : input # 0 => processed[i] <= input
       /\ \A j \in DOMAIN queue : input < queue[j]

\* A report of the buttons waits, is lost or was processed: one of these, and once.
OnceInv ==
  \A r \in DOMAIN kinds : kinds[r] = "buttons" =>
    IF r \in Waiting \cup lost THEN \A i \in DOMAIN processed : processed[i] # r
    ELSE \E i \in DOMAIN processed : /\ processed[i] = r
                                     /\ \A j \in DOMAIN processed : processed[j] = r => j = i

WroteInv == driver = "HIDAPI" /\ wrote.answer => wrote.whole

HandleInv == QueueInv /\ OrderInv /\ OnceInv /\ WroteInv

\* Before it is listed a device has sent nothing.
LEMMA HandleInit == B!Init => HandleInv
<1> SUFFICES ASSUME B!Init PROVE HandleInv
  OBVIOUS
<1> USE SlotsAssumption DEF B!Init
<1>1. kinds = << >> /\ queue = << >> /\ processed = << >> /\ lost = {}
  OBVIOUS
<1>2. QueueInv
  <2>1. \A S : << >> \in Seq(S)
    OBVIOUS
  <2>2. Len(<< >>) = 0 /\ DOMAIN << >> = {}
    OBVIOUS
  <2>3. tries \in Nat \ {0}
    OBVIOUS
  <2>4. kinds \in Seq({"buttons", "pads"}) /\ queue \in Seq(1..Len(kinds))
          /\ processed \in Seq(1..Len(kinds))
    BY <1>1, <2>1
  <2>5. input \in 0..Len(kinds) /\ slot = 0 /\ m_cbRead = FALSE /\ handle = "none"
    BY <1>1, <2>2
  <2>6. driver \in {"HIDAPI", "MIDI"} /\ DOMAIN queue = {} /\ lost \subseteq 1..Len(kinds)
    BY <1>1, <2>2
  <2>7. QED
    <3> HIDE DEF B!Init
    <3>1. QED
      BY <1>1, <2>3, <2>4, <2>5, <2>6 DEF QueueInv
<1>3. OrderInv /\ OnceInv /\ WroteInv
  BY <1>1 DEF OrderInv, OnceInv, WroteInv
<1>4. QED
  BY <1>2, <1>3 DEF HandleInv

\* A report is given a number of its own, beyond all that came before.
LEMMA ReportKeeps == HandleInv /\ B!Report => HandleInv'
<1> SUFFICES ASSUME HandleInv, B!Report PROVE HandleInv'
  OBVIOUS
<1> USE DEF HandleInv
<1> DEFINE n == Len(kinds) + 1
<1>1. n \in Nat /\ n = Len(kinds) + 1
  BY DEF QueueInv
<1>2. PICK kind \in {"buttons", "pads"} : kinds' = Append(kinds, kind)
  BY DEF B!Report
<1>3. /\ kinds' \in Seq({"buttons", "pads"}) /\ Len(kinds') = n /\ DOMAIN kinds' = 1..n
      /\ \A r \in DOMAIN kinds : r \in DOMAIN kinds' /\ kinds'[r] = kinds[r]
  BY <1>2 DEF QueueInv
<1>4. \A s : s \in Seq(1..Len(kinds)) => /\ s \in Seq(1..n) /\ Append(s, n) \in Seq(1..n)
                                          /\ \A i \in DOMAIN s : s[i] < n
  BY <1>1
<1>5. UNCHANGED <<driver, tries, there, listed, handle, m_cbRead, lost, input, slot, wrote>>
  BY DEF B!Report
<1> HIDE DEF n
<1>6. CASE queue' = Append(queue, n) /\ UNCHANGED processed
  <2>1. /\ DOMAIN queue' = 1..Len(queue) + 1 /\ Len(queue) \in Nat /\ DOMAIN queue = 1..Len(queue)
        /\ queue'[Len(queue) + 1] = n /\ \A i \in DOMAIN queue : queue'[i] = queue[i]
    BY <1>1, <1>6 DEF QueueInv
  <2>2. handle # "none"
    BY DEF B!Report
  <2>3. QueueInv'
    BY <1>1, <1>3, <1>4, <1>5, <1>6, <2>1, <2>2 DEF QueueInv
  <2>4. OrderInv'
    BY <1>1, <1>4, <1>5, <1>6, <2>1 DEF OrderInv, QueueInv
  <2>5. Waiting' = Waiting \cup {n}
    BY <2>1 DEF Waiting
  <2>6. OnceInv'
    <3>1. ASSUME NEW r \in DOMAIN kinds', kinds'[r] = "buttons", r # n
          PROVE  IF r \in Waiting' \cup lost' THEN \A i \in DOMAIN processed' : processed'[i] # r
                 ELSE \E i \in DOMAIN processed' :
                        /\ processed'[i] = r
                        /\ \A j \in DOMAIN processed' : processed'[j] = r => j = i
      <4>1. r \in DOMAIN kinds /\ kinds[r] = "buttons"
        BY <1>1, <1>3, <3>1 DEF QueueInv
      <4>2. QED
        BY <1>5, <1>6, <2>5, <3>1, <4>1 DEF OnceInv
    <3>2. \A i \in DOMAIN processed : processed[i] # n
      BY <1>1 DEF QueueInv
    <3>3. QED
      BY <1>5, <1>6, <2>5, <3>1, <3>2 DEF OnceInv
  <2>7. QED
    BY <1>5, <2>3, <2>4, <2>6 DEF WroteInv
<1>7. CASE processed' = Append(processed, n) /\ UNCHANGED queue /\ driver = "MIDI"
  <2>1. /\ DOMAIN processed' = 1..Len(processed) + 1 /\ Len(processed) \in Nat
        /\ DOMAIN processed = 1..Len(processed) /\ processed'[Len(processed) + 1] = n
        /\ \A i \in DOMAIN processed : processed'[i] = processed[i]
    BY <1>1, <1>7 DEF QueueInv
  <2>2. QueueInv'
    BY <1>1, <1>3, <1>4, <1>5, <1>7, <2>1 DEF QueueInv
  <2>3. OrderInv'
    BY <1>1, <1>4, <1>5, <1>7, <2>1 DEF OrderInv, QueueInv
  <2>4. Waiting' = Waiting
    BY <1>7 DEF Waiting
  <2>5. n \notin Waiting \cup lost
    BY <1>1 DEF Waiting, QueueInv
  <2>6. OnceInv'
    <3>1. ASSUME NEW r \in DOMAIN kinds', kinds'[r] = "buttons", r # n
          PROVE  IF r \in Waiting' \cup lost' THEN \A i \in DOMAIN processed' : processed'[i] # r
                 ELSE \E i \in DOMAIN processed' :
                        /\ processed'[i] = r
                        /\ \A j \in DOMAIN processed' : processed'[j] = r => j = i
      <4>1. r \in DOMAIN kinds /\ kinds[r] = "buttons"
        BY <1>1, <1>3, <3>1 DEF QueueInv
      <4>2. QED
        BY <1>5, <2>1, <2>4, <3>1, <4>1 DEF OnceInv
    <3>2. \A i \in DOMAIN processed : processed[i] # n
      BY <1>1 DEF QueueInv
    <3>3. QED
      BY <1>5, <2>1, <2>4, <2>5, <3>1, <3>2 DEF OnceInv
  <2>7. QED
    BY <1>5, <2>2, <2>3, <2>6 DEF WroteInv
<1>8. QED
  BY <1>6, <1>7 DEF B!Report, B!onMidiMessage, n, QueueInv

\* A try of read() takes what waits first, or has what is in the transfer already.
LEMMA ReadKeeps == HandleInv /\ B!ReadSlot => HandleInv'
<1> SUFFICES ASSUME HandleInv, B!ReadSlot PROVE HandleInv'
  OBVIOUS
<1> USE DEF HandleInv
<1>1. /\ UNCHANGED <<driver, tries, there, listed, handle, m_cbRead, kinds, lost, wrote>>
      /\ slot # 0 /\ driver = "HIDAPI" /\ handle # "none"
  BY DEF B!ReadSlot, QueueInv
<1>2. /\ processed \in Seq(1..Len(kinds)) /\ queue \in Seq(1..Len(kinds))
      /\ kinds \in Seq({"buttons", "pads"}) /\ DOMAIN kinds = 1..Len(kinds) /\ Len(kinds) \in Nat
  BY DEF QueueInv
<1>3. /\ processed' = IF input' # 0 /\ (kinds[input'] = "buttons" \/ (slot - 1) % PadSlots = 0)
                      THEN Append(processed, input') ELSE processed
      /\ slot' = IF slot = tries \/ (input' # 0 /\ kinds[input'] = "buttons") THEN 0 ELSE slot + 1
  BY DEF B!ReadSlot, B!Process
\* What is taken is not lost, it is beyond all that was processed before but itself, and one
\* of the buttons waited till now.
<1>4. /\ input' \in 0..Len(kinds) /\ queue' \in Seq(1..Len(kinds))
      /\ \A i, j \in DOMAIN queue' : i < j => queue'[i] < queue'[j]
      /\ \A j \in DOMAIN queue' : queue'[j] \notin lost /\ input' < queue'[j]
      /\ \A i \in DOMAIN processed :
           /\ \A j \in DOMAIN queue' : processed[i] < queue'[j]
           /\ input' # 0 => processed[i] <= input'
      /\ Waiting' = Waiting \ {input'}
      /\ input' # 0 /\ kinds[input'] = "buttons" =>
           input' \notin lost /\ \A i \in DOMAIN processed : processed[i] # input'
  <2>1. CASE queue = << >>
    <3>1. input' = input /\ queue' = queue
      BY <2>1 DEF B!ReadSlot
    <3>2. DOMAIN queue = {}
      BY <2>1
    <3>3. Waiting = {} /\ Waiting' = {}
      BY <3>1, <3>2 DEF Waiting
    <3>4. input # 0 => kinds[input] = "pads"
      BY <1>1 DEF QueueInv
    <3>5. input \in 0..Len(kinds) /\ \A i \in DOMAIN processed : input # 0 => processed[i] <= input
      BY <1>1 DEF QueueInv, OrderInv
    <3>6. QED
      BY <1>2, <3>1, <3>2, <3>3, <3>4, <3>5
  <2>2. CASE queue # << >>
    <3>1. queue' = Tail(queue) /\ input' = queue[1]
      BY <1>2, <2>2, TailFacts DEF B!ReadSlot
    <3>2. \A i, j \in DOMAIN queue : i < j => queue[i] < queue[j]
      BY DEF QueueInv
    <3>3. /\ queue' \in Seq(1..Len(kinds)) /\ input' \in 1..Len(kinds) /\ 1 \in DOMAIN queue
          /\ \A i \in DOMAIN queue' : i + 1 \in DOMAIN queue /\ queue'[i] = queue[i + 1] /\ i \in Nat \ {0}
          /\ \A i \in DOMAIN queue : i \in Nat \ {0} /\ (i # 1 => i - 1 \in DOMAIN queue' /\ queue'[i - 1] = queue[i])
      <4>1. queue[1] \in 1..Len(kinds) /\ Tail(queue) \in Seq(1..Len(kinds)) /\ 1 \in DOMAIN queue
        BY <1>2, <2>2, TailFacts
      <4>2. \A i \in DOMAIN Tail(queue) : i + 1 \in DOMAIN queue /\ Tail(queue)[i] = queue[i + 1] /\ i \in Nat \ {0}
        BY <1>2, <2>2, TailFacts
      <4>3. \A i \in DOMAIN queue : i \in Nat \ {0}
                /\ (i # 1 => i - 1 \in DOMAIN Tail(queue) /\ Tail(queue)[i - 1] = queue[i])
        BY <1>2, <2>2, TailFacts
      <4>4. QED
        BY <3>1, <4>1, <4>2, <4>3
    <3>4. \A i \in DOMAIN queue : i # 1 => queue[1] < queue[i]
      BY <3>2, <3>3
    <3>5. \A i, j \in DOMAIN queue' : i < j => queue'[i] < queue'[j]
      BY <3>2, <3>3
    <3>6. \A j \in DOMAIN queue' : queue'[j] \notin lost /\ input' < queue'[j]
      <4>1. \A j \in DOMAIN queue : queue[j] \notin lost
        BY DEF QueueInv
      <4>2. QED
        BY <3>1, <3>3, <3>4, <4>1
    <3>7. \A i \in DOMAIN processed : processed[i] < input' /\ \A j \in DOMAIN queue' : processed[i] < queue'[j]
      BY <1>1, <3>1, <3>3 DEF OrderInv
    <3>8. Waiting' = Waiting \ {input'}
      <4>1. \A x \in Waiting' : x \in Waiting /\ x # queue[1]
        <5>1. ASSUME NEW j \in DOMAIN queue' PROVE queue'[j] \in Waiting /\ queue'[j] # queue[1]
          <6>1. j + 1 \in DOMAIN queue /\ queue'[j] = queue[j + 1] /\ j + 1 # 1
            BY <3>3
          <6>2. queue[1] < queue[j + 1]
            BY <3>4, <6>1
          <6>3. \A i \in DOMAIN queue : queue[i] \in Nat
            BY <1>2
          <6>4. QED
            BY <3>3, <6>1, <6>2, <6>3 DEF Waiting
        <5>2. QED
          BY <5>1 DEF Waiting
      <4>2. ASSUME NEW x \in Waiting, x # queue[1] PROVE x \in Waiting'
        <5>1. PICK i \in DOMAIN queue : x = queue[i]
          BY DEF Waiting
        <5>2. i # 1 /\ i - 1 \in DOMAIN queue' /\ queue'[i - 1] = queue[i]
          BY <3>3, <4>2, <5>1
        <5>3. QED
          BY <5>1, <5>2 DEF Waiting
      <4>3. QED
        BY <3>1, <4>1, <4>2
    <3>9. input' \notin lost
      BY <3>1, <3>3 DEF QueueInv
    <3>10. \A i \in DOMAIN processed : processed[i] \in Nat
      BY <1>2
    <3>11. QED
      BY <1>2, <3>3, <3>5, <3>6, <3>7, <3>8, <3>9, <3>10
  <2>3. QED
    BY <2>1, <2>2
<1>5. QueueInv'
  <2>1. slot' \in Nat /\ (slot' # 0 /\ input' # 0 => kinds[input'] = "pads")
    BY <1>2, <1>3, <1>4 DEF QueueInv
  <2>2. processed' \in Seq(1..Len(kinds))
    <3>1. CASE processed' = processed
      BY <1>2, <3>1
    <3>2. CASE processed' = Append(processed, input') /\ input' # 0
      <4>1. input' \in 1..Len(kinds)
        BY <1>2, <1>4, <3>2
      <4>2. QED
        BY <1>2, <3>2, <4>1, AppendFacts
    <3>3. QED
      BY <1>3, <3>1, <3>2
  <2>3. QED
    BY <1>1, <1>4, <2>1, <2>2 DEF QueueInv
<1>6. CASE processed' = processed /\ (input' # 0 => kinds[input'] # "buttons")
  <2>1. OrderInv'
    BY <1>1, <1>4, <1>6 DEF OrderInv
  <2>2. \A r \in DOMAIN kinds : kinds[r] = "buttons" => (r \in Waiting' <=> r \in Waiting)
    BY <1>2, <1>4, <1>6
  <2>3. OnceInv'
    BY <1>1, <1>6, <2>2 DEF OnceInv
  <2>4. QED
    BY <1>1, <1>5, <2>1, <2>3 DEF WroteInv
<1>7. CASE processed' = Append(processed, input') /\ input' # 0
  <2>1. /\ DOMAIN processed' = 1..Len(processed) + 1 /\ Len(processed) \in Nat
        /\ DOMAIN processed = 1..Len(processed) /\ processed'[Len(processed) + 1] = input'
        /\ \A i \in DOMAIN processed : processed'[i] = processed[i]
    <3>1. input' \in 1..Len(kinds)
      BY <1>2, <1>4, <1>7
    <3>2. QED
      BY <1>2, <1>7, <3>1, AppendFacts
  <2>2. OrderInv'
    <3>1. \A i, j \in DOMAIN processed : i < j => processed[i] <= processed[j]
      BY DEF OrderInv
    <3>2. \A i \in DOMAIN processed' : processed'[i] <= input'
      BY <1>4, <1>7, <2>1
    <3>3. \A i, j \in DOMAIN processed' : i < j => processed'[i] <= processed'[j]
      BY <2>1, <3>1, <3>2
    <3>4. \A i \in DOMAIN processed', j \in DOMAIN queue' : processed'[i] < queue'[j]
      BY <1>4, <2>1
    <3>5. QED
      BY <1>1, <1>4, <3>2, <3>3, <3>4 DEF OrderInv
  <2>3. ASSUME NEW r \in DOMAIN kinds, kinds[r] = "buttons"
        PROVE  IF r \in Waiting' \cup lost' THEN \A i \in DOMAIN processed' : processed'[i] # r
               ELSE \E i \in DOMAIN processed' :
                      /\ processed'[i] = r
                      /\ \A j \in DOMAIN processed' : processed'[j] = r => j = i
    <3>1. CASE r = input'
      <4>1. \A i \in DOMAIN processed' : i # Len(processed) + 1 => processed'[i] # r
        BY <1>4, <1>7, <2>1, <2>3, <3>1
      <4>2. r \notin Waiting' \cup lost'
        BY <1>1, <1>4, <1>7, <2>3, <3>1
      <4>3. QED
        BY <2>1, <3>1, <4>1, <4>2
    <3>2. CASE r # input'
      <4>1. r \in Waiting' \cup lost' <=> r \in Waiting \cup lost
        BY <1>1, <1>4, <3>2
      <4>2. CASE r \in Waiting \cup lost
        BY <2>1, <2>3, <3>2, <4>1, <4>2 DEF OnceInv
      <4>3. CASE r \notin Waiting \cup lost
        <5>1. PICK i \in DOMAIN processed :
                processed[i] = r /\ \A j \in DOMAIN processed : processed[j] = r => j = i
          BY <2>3, <4>3 DEF OnceInv
        <5>2. \A j \in DOMAIN processed' : processed'[j] = r => j = i
          BY <2>1, <3>2, <5>1
        <5>3. i \in DOMAIN processed' /\ processed'[i] = r
          BY <2>1, <5>1
        <5>4. QED
          BY <4>1, <4>3, <5>2, <5>3
      <4>4. QED
        BY <4>2, <4>3
    <3>3. QED
      BY <3>1, <3>2
  <2>4. OnceInv'
    BY <1>1, <2>3 DEF OnceInv
  <2>5. QED
    BY <1>1, <1>5, <2>2, <2>4 DEF WroteInv
<1>8. QED
  BY <1>3, <1>6, <1>7

\* Whatever changes neither the reports nor where they are keeps the account.
LEMMA HandleFrame ==
  ASSUME HandleInv, UNCHANGED <<driver, tries, kinds, queue, lost, input, slot, processed, wrote>>,
         handle' \in {"open", "dead", "null"} \/ (handle' = "none" /\ handle = "none"), m_cbRead' \in BOOLEAN
  PROVE  HandleInv'
<1>1. QueueInv'
  BY DEF HandleInv, QueueInv
<1>2. OrderInv' /\ WroteInv'
  BY DEF HandleInv, OrderInv, WroteInv
<1>3. Waiting' = Waiting
  BY DEF Waiting
<1>4. OnceInv'
  BY <1>3 DEF HandleInv, OnceInv
<1>5. QED
  BY <1>1, <1>2, <1>4 DEF HandleInv

\* Every step of a handle keeps the account.
LEMMA HandleStep == HandleInv /\ [B!Next]_handleVars => HandleInv'
<1> SUFFICES ASSUME HandleInv, [B!Next]_handleVars PROVE HandleInv'
  OBVIOUS
<1> USE DEF HandleInv
<1>1. CASE B!Plug \/ B!enumerate \/ B!readAsync
  <2>1. handle' = handle \/ handle' = "dead"
    BY <1>1 DEF B!Plug, B!enumerate, B!readAsync
  <2>2. UNCHANGED <<driver, tries, kinds, queue, lost, input, slot, processed, wrote>>
    BY <1>1 DEF B!Plug, B!enumerate, B!readAsync
  <2>3. m_cbRead' \in BOOLEAN
    BY <1>1 DEF B!Plug, B!enumerate, B!readAsync, QueueInv
  <2>4. handle \in {"none", "open", "dead", "null"}
    BY DEF QueueInv
  <2>5. QED
    BY <2>1, <2>2, <2>3, <2>4, HandleFrame
<1>2. CASE B!connect
  <2>1. handle' \in {"open", "dead", "null"} /\ m_cbRead' = FALSE
    BY <1>2 DEF B!connect, B!midiConnect, B!hidConnect
  <2>2. UNCHANGED <<driver, tries, kinds, queue, lost, input, slot, processed, wrote>>
    BY <1>2 DEF B!connect
  <2>3. QED
    BY <2>1, <2>2, HandleFrame
<1>3. CASE B!disconnect
  <2>1. queue' = << >> /\ lost' = lost \cup Waiting /\ DOMAIN queue' = {} /\ Waiting' = {}
    BY <1>3 DEF B!disconnect, B!Range, Waiting
  <2>2. Waiting \subseteq 1..Len(kinds) /\ queue' \in Seq(1..Len(kinds))
    BY <2>1 DEF Waiting, QueueInv
  <2>3. UNCHANGED <<driver, tries, m_cbRead, kinds, input, slot, processed, wrote>> /\ handle' = "none"
    BY <1>3 DEF B!disconnect
  <2>4. QueueInv'
    BY <2>1, <2>2, <2>3 DEF QueueInv
  <2>5. OrderInv' /\ WroteInv'
    BY <2>1, <2>3 DEF OrderInv, WroteInv
  <2>6. OnceInv'
    BY <2>1, <2>3 DEF OnceInv
  <2>7. QED
    BY <2>4, <2>5, <2>6
<1>4. CASE B!Report
  BY <1>4, ReportKeeps
<1>5. CASE B!BeginRead
  BY <1>5 DEF B!BeginRead, QueueInv, OrderInv, OnceInv, Waiting, WroteInv
<1>6. CASE B!ReadFails
  BY <1>6 DEF B!ReadFails, QueueInv, OrderInv, OnceInv, Waiting, WroteInv
<1>7. CASE B!ReadSlot
  BY <1>7, ReadKeeps
<1>8. CASE B!write
  <2>1. QueueInv' /\ OrderInv' /\ OnceInv'
    BY <1>8 DEF B!write, QueueInv, OrderInv, OnceInv, Waiting
  <2>2. WroteInv'
    BY <1>8 DEF B!write, B!hidWrite, B!midiWrite, WroteInv
  <2>3. QED
    BY <2>1, <2>2
<1>9. CASE UNCHANGED handleVars
  BY <1>9 DEF handleVars, QueueInv, OrderInv, OnceInv, Waiting, WroteInv
<1>10. QED
  BY <1>1, <1>2, <1>3, <1>4, <1>5, <1>6, <1>7, <1>8, <1>9 DEF B!Next

\* The account is what is asked for.
LEMMA HandleTaken == HandleInv => B!ReportsAreTaken
<1> SUFFICES ASSUME HandleInv PROVE B!ReportsAreTaken
  OBVIOUS
<1>1. \A i, j \in DOMAIN processed : i < j => processed[i] <= processed[j]
  BY DEF HandleInv, OrderInv
<1>2. ASSUME NEW r \in DOMAIN kinds, kinds[r] = "buttons"
      PROVE  Cardinality({i \in DOMAIN processed : processed[i] = r})
               = (IF r \in B!Range(queue) \cup lost THEN 0 ELSE 1)
  <2>1. B!Range(queue) = Waiting
    BY DEF B!Range, Waiting
  <2>2. CASE r \in Waiting \cup lost
    <3>1. {i \in DOMAIN processed : processed[i] = r} = {}
      BY <1>2, <2>2 DEF HandleInv, OnceInv
    <3>2. QED
      BY <2>1, <2>2, <3>1, FS_EmptySet
  <2>3. CASE r \notin Waiting \cup lost
    <3>1. PICK i \in DOMAIN processed :
            processed[i] = r /\ \A j \in DOMAIN processed : processed[j] = r => j = i
      BY <1>2, <2>3 DEF HandleInv, OnceInv
    <3>2. {j \in DOMAIN processed : processed[j] = r} = {i}
      BY <3>1
    <3>3. QED
      BY <2>1, <2>3, <3>2, FS_Singleton
  <2>4. QED
    BY <2>2, <2>3
<1>3. driver = "HIDAPI" /\ wrote.answer => wrote.whole
  BY DEF HandleInv, WroteInv
<1>4. \A r \in DOMAIN kinds : kinds[r] = "buttons" =>
        Cardinality({i \in DOMAIN processed : processed[i] = r})
          = (IF r \in B!Range(queue) \cup lost THEN 0 ELSE 1)
  BY <1>2
<1>5. QED
  BY <1>1, <1>3, <1>4, HandleCardinality DEF B!ReportsAreTaken

-----------------------------------------------------------------------------
(* The tasks of the MIDI driver.                                           *)

Places == {"none", "launched", "open", "waiting", "found", "append", "done"}

\* Where the tasks are: those that have been launched are for pairs of one name, and those
\* that heard an identity are about to append their device, or have done so.
TaskInv ==
  /\ task \in [M!Pairs -> Places] /\ heard \subseteq M!Pairs /\ cursor \subseteq M!Pairs
  /\ \A p \in cursor : task[p] = "none"
  /\ \A p \in M!Pairs : task[p] # "none" => names[p[1]] # NoName /\ names[p[1]] = names[p[2]]
  /\ \A p \in M!Pairs : task[p] \in {"found", "append"} => p \in heard
  /\ \A p \in heard : task[p] \in {"found", "append", "done"}

\* The mutex is held by the one task that appends, and the list is as long as it saw it.
MutexInv ==
  /\ seen \in [M!Pairs -> Nat]
  /\ \A p \in M!Pairs : task[p] = "append" <=> mtxDevices = p
  /\ \A p \in M!Pairs : task[p] = "append" => seen[p] = Len(collDevices)

\* What is on the list: the devices that are done, once; and the caller has the list itself.
ListInv ==
  /\ collDevices \in Seq(M!Pairs)
  /\ \A i, j \in DOMAIN collDevices : collDevices[i] = collDevices[j] => i = j
  /\ \A i \in DOMAIN collDevices : collDevices[i] \in heard /\ task[collDevices[i]] = "done"
  /\ \A p \in heard : task[p] = "done" => \E i \in DOMAIN collDevices : collDevices[i] = p
  /\ result # M!Running => result = collDevices

MidiInv == TaskInv /\ MutexInv /\ ListInv

\* NoTask is no pair of ports.
LEMMA NoTaskIsNone == M!NoTask \notin M!Pairs
BY PortsAssumption DEF M!NoTask, M!Pairs

\* Before the loop of enumerate() there are no tasks.
LEMMA MidiInit == M!Init => MidiInv
<1> SUFFICES ASSUME M!Init PROVE MidiInv
  OBVIOUS
<1>1. TaskInv
  BY DEF M!Init, TaskInv, Places
<1>2. MutexInv
  BY NoTaskIsNone DEF M!Init, MutexInv
<1>3. ListInv
  <2>1. collDevices = << >> /\ heard = {} /\ result = M!Running
    BY DEF M!Init
  <2>2. << >> \in Seq(M!Pairs) /\ DOMAIN << >> = {}
    OBVIOUS
  <2>3. QED
    BY <2>1, <2>2 DEF ListInv
<1>4. QED
  BY <1>1, <1>2, <1>3 DEF MidiInv

\* A task that has not heard anything yet moves on: its device is not on the list, which
\* is left alone.
LEMMA TaskMoves ==
  ASSUME MidiInv, NEW p \in M!Pairs, p \notin heard,
         NEW s \in {"none", "launched", "open", "waiting", "found", "done"},
         task' = [task EXCEPT ![p] = s], task[p] \notin {"append", "done"},
         s # "none" => names[p[1]] # NoName /\ names[p[1]] = names[p[2]],
         heard' = IF s = "found" THEN heard \cup {p} ELSE heard,
         cursor' = cursor \ {p},
         UNCHANGED <<names, mtxDevices, collDevices, seen, result>>
  PROVE  MidiInv'
<1> USE DEF MidiInv
<1>0. task \in [M!Pairs -> Places] /\ heard \subseteq M!Pairs
  BY DEF TaskInv
<1>1. TaskInv'
  <2>1. \A q \in M!Pairs : task'[q] = IF q = p THEN s ELSE task[q]
    BY <1>0
  <2>2. task' \in [M!Pairs -> Places] /\ heard' \subseteq M!Pairs
    BY <1>0 DEF Places
  <2>3. QED
    BY <1>0, <2>1, <2>2 DEF TaskInv
<1>2. MutexInv'
  <2>1. \A q \in M!Pairs : task'[q] = "append" <=> task[q] = "append"
    BY <1>0
  <2>2. QED
    BY <2>1 DEF MutexInv
<1>3. ListInv'
  <2>1. \A q \in heard : q # p /\ task'[q] = task[q] /\ q \in heard'
    BY <1>0
  <2>2. \A q \in heard' : task'[q] = "done" => q \in heard /\ task[q] = "done"
    BY <1>0
  <2>3. \A i \in DOMAIN collDevices : collDevices[i] \in heard' /\ task'[collDevices[i]] = "done"
    BY <2>1 DEF ListInv
  <2>4. QED
    BY <2>2, <2>3 DEF ListInv
<1>4. QED
  BY <1>1, <1>2, <1>3

\* The task that holds the mutex puts its device behind all others.
LEMMA EmplaceKeeps == ASSUME MidiInv, NEW p \in M!Pairs, M!EmplaceBack(p) PROVE MidiInv'
<1> USE DEF MidiInv
<1>1. /\ task[p] = "append" /\ mtxDevices = p /\ seen[p] = Len(collDevices) /\ p \in heard
      /\ task' = [task EXCEPT ![p] = "done"] /\ mtxDevices' = M!NoTask
      /\ UNCHANGED <<names, cursor, heard, seen>>
  BY DEF M!EmplaceBack, MutexInv, TaskInv
<1>2. collDevices' = Append(collDevices, p)
  <2>1. SubSeq(collDevices, 1, Len(collDevices)) = collDevices
    BY DEF ListInv
  <2>2. QED
    BY <1>1, <2>1 DEF M!EmplaceBack
<1>3. /\ collDevices' \in Seq(M!Pairs) /\ DOMAIN collDevices' = 1..Len(collDevices) + 1
      /\ DOMAIN collDevices = 1..Len(collDevices) /\ Len(collDevices) \in Nat
      /\ collDevices'[Len(collDevices) + 1] = p
      /\ \A i \in DOMAIN collDevices : collDevices'[i] = collDevices[i] /\ collDevices[i] \in M!Pairs
  BY <1>2, AppendFacts DEF ListInv
<1>4. \A i \in DOMAIN collDevices : collDevices[i] # p
  BY <1>1 DEF ListInv
<1>5. task \in [M!Pairs -> Places]
  BY DEF TaskInv
<1>6. TaskInv'
  BY <1>1, <1>5 DEF TaskInv, Places
<1>7. MutexInv'
  BY <1>1, <1>5, NoTaskIsNone DEF MutexInv
<1>8. ListInv'
  <2>1. \A i, j \in DOMAIN collDevices' : collDevices'[i] = collDevices'[j] => i = j
    BY <1>3, <1>4 DEF ListInv
  <2>2. \A i \in DOMAIN collDevices' : collDevices'[i] \in heard' /\ task'[collDevices'[i]] = "done"
    BY <1>1, <1>3, <1>4, <1>5 DEF ListInv
  <2>3. \A q \in heard' : task'[q] = "done" => \E i \in DOMAIN collDevices' : collDevices'[i] = q
    <3>1. ASSUME NEW q \in heard', task'[q] = "done", q # p
          PROVE  \E i \in DOMAIN collDevices' : collDevices'[i] = q
      <4>1. q \in heard /\ task[q] = "done"
        BY <1>1, <1>5, <3>1 DEF TaskInv
      <4>2. PICK i \in DOMAIN collDevices : collDevices[i] = q
        BY <4>1 DEF ListInv
      <4>3. QED
        BY <1>3, <4>2
    <3>2. QED
      BY <1>3, <3>1
  <2>4. result' # M!Running => result' = collDevices'
    BY DEF M!EmplaceBack, NRVO, ListInv
  <2>5. QED
    BY <1>3, <2>1, <2>2, <2>3, <2>4 DEF ListInv
<1>9. QED
  BY <1>6, <1>7, <1>8

\* Every step of the tasks keeps list and mutex together.
LEMMA MidiStep == MidiInv /\ [M!Next]_midiVars => MidiInv'
<1> SUFFICES ASSUME MidiInv, [M!Next]_midiVars PROVE MidiInv'
  OBVIOUS
<1>0. task \in [M!Pairs -> Places] /\ heard \subseteq M!Pairs /\ cursor \subseteq M!Pairs
  BY DEF MidiInv, TaskInv
<1>1. ASSUME NEW p \in M!Pairs, M!Look(p) PROVE MidiInv'
  <2>1. task[p] = "none" /\ p \notin heard
    BY <1>1 DEF M!Look, MidiInv, TaskInv
  <2>2. PICK s \in {"none", "launched"} :
          /\ task' = [task EXCEPT ![p] = s]
          /\ s = "launched" => names[p[1]] # NoName /\ names[p[1]] = names[p[2]]
    BY <1>1 DEF M!Look
  <2>3. cursor' = cursor \ {p} /\ UNCHANGED <<names, heard, mtxDevices, collDevices, seen, result>>
    BY <1>1 DEF M!Look
  <2>4. QED
    BY <2>1, <2>2, <2>3, TaskMoves
<1>2. ASSUME NEW p \in M!Pairs, task[p] \in {"launched", "open", "waiting"},
             UNCHANGED <<names, cursor, mtxDevices, collDevices, seen, result>>,
             NEW s \in {"open", "waiting", "found", "done"}, task' = [task EXCEPT ![p] = s],
             heard' = IF s = "found" THEN heard \cup {p} ELSE heard
      PROVE  MidiInv'
  <2>1. p \notin heard /\ names[p[1]] # NoName /\ names[p[1]] = names[p[2]]
    BY <1>2 DEF MidiInv, TaskInv
  <2>2. cursor' = cursor \ {p}
    BY <1>2 DEF MidiInv, TaskInv
  <2>3. QED
    BY <1>2, <2>1, <2>2, TaskMoves
<1>3. ASSUME NEW p \in M!Pairs, M!Open(p) \/ M!SendIdentityRequest(p) \/ M!Timeout(p) PROVE MidiInv'
  <2>1. task[p] \in {"launched", "open", "waiting"} /\ UNCHANGED <<names, cursor, heard, mtxDevices, collDevices, seen, result>>
    BY <1>3 DEF M!Open, M!SendIdentityRequest, M!Timeout
  <2>2. PICK s \in {"open", "waiting", "done"} : task' = [task EXCEPT ![p] = s]
    BY <1>3 DEF M!Open, M!SendIdentityRequest, M!Timeout
  <2>3. QED
    BY <1>2, <2>1, <2>2
<1>4. ASSUME NEW p \in M!Pairs, M!Poll(p) PROVE MidiInv'
  <2>1. task[p] = "waiting" /\ UNCHANGED <<names, cursor, mtxDevices, collDevices, seen, result>>
    BY <1>4 DEF M!Poll
  <2>2. CASE task' = [task EXCEPT ![p] = "found"] /\ heard' = heard \cup {p}
    BY <1>2, <2>1, <2>2
  <2>3. CASE UNCHANGED <<task, heard>>
    BY <2>1, <2>3 DEF MidiInv, TaskInv, MutexInv, ListInv
  <2>4. QED
    BY <1>4, <2>2, <2>3 DEF M!Poll
<1>5. ASSUME NEW p \in M!Pairs, M!Lock(p) PROVE MidiInv'
  <2>1. /\ task[p] = "found" /\ mtxDevices = M!NoTask /\ mtxDevices' = p
        /\ task' = [task EXCEPT ![p] = "append"] /\ seen' = [seen EXCEPT ![p] = Len(collDevices)]
        /\ UNCHANGED <<names, cursor, heard, collDevices, result>>
    BY <1>5 DEF M!Lock
  <2>2. p \in heard /\ collDevices \in Seq(M!Pairs) /\ \A q \in M!Pairs : task[q] # "append"
    BY <2>1, NoTaskIsNone DEF MidiInv, TaskInv, MutexInv, ListInv
  <2>3. TaskInv'
    BY <1>0, <2>1, <2>2 DEF MidiInv, TaskInv, Places
  <2>4. MutexInv'
    BY <1>0, <2>1, <2>2 DEF MidiInv, MutexInv
  <2>5. ListInv'
    BY <1>0, <2>1, <2>2 DEF MidiInv, ListInv
  <2>6. QED
    BY <2>3, <2>4, <2>5 DEF MidiInv
<1>6. ASSUME NEW p \in M!Pairs, M!EmplaceBack(p) PROVE MidiInv'
  BY <1>6, EmplaceKeeps
<1>7. ASSUME NEW n, NEW message, M!Arrive(n, message) PROVE MidiInv'
  BY <1>7 DEF M!Arrive, MidiInv, TaskInv, MutexInv, ListInv
<1>8. CASE M!Return
  <2>1. result' = collDevices /\ collDevices' = collDevices /\ UNCHANGED <<names, cursor, task, heard, mtxDevices, seen>>
    BY <1>8 DEF M!Return, NRVO
  <2>2. QED
    BY <2>1 DEF MidiInv, TaskInv, MutexInv, ListInv
<1>9. CASE UNCHANGED midiVars
  BY <1>9 DEF midiVars, MidiInv, TaskInv, MutexInv, ListInv
<1>10. QED
  BY <1>1, <1>3, <1>4, <1>5, <1>6, <1>7, <1>8, <1>9 DEF M!Next

\* When all tasks are done, the list is that of what was heard.
LEMMA MidiListed == MidiInv => M!DevicesAreListed
<1> SUFFICES ASSUME MidiInv, M!Returned PROVE
      /\ M!Range(result) = heard /\ Len(result) = M!Cardinality(heard)
      /\ M!Distinct => \A p \in heard : p[1] = p[2]
  BY DEF M!DevicesAreListed
<1>1. result = collDevices /\ \A p \in M!Pairs : task[p] \in {"none", "done"}
  BY DEF M!Returned, MidiInv, ListInv
<1>2. heard \subseteq M!Pairs /\ \A p \in heard : task[p] = "done"
  BY <1>1 DEF MidiInv, TaskInv
<1>3. /\ result \in Seq(M!Pairs) /\ Len(result) \in Nat /\ DOMAIN result = 1..Len(result)
      /\ \A i, j \in DOMAIN result : result[i] = result[j] => i = j
      /\ \A i \in DOMAIN result : result[i] \in heard
      /\ \A p \in heard : \E i \in DOMAIN result : result[i] = p
  BY <1>1, <1>2 DEF MidiInv, ListInv
<1>4. M!Range(result) = heard
  BY <1>3 DEF M!Range
<1>5. Len(result) = Cardinality(heard)
  <2>1. result \in Bijection(1..Len(result), heard)
    <3>1. result \in [1..Len(result) -> heard]
      BY <1>3
    <3>2. \A i, j \in 1..Len(result) : result[i] = result[j] => i = j
      BY <1>3
    <3>3. \A p \in heard : \E i \in 1..Len(result) : result[i] = p
      BY <1>3
    <3>4. result \in Injection(1..Len(result), heard) /\ result \in Surjection(1..Len(result), heard)
      BY <3>1, <3>2, <3>3 DEF Injection, IsInjective, Surjection
    <3>5. QED
      BY <3>4 DEF Bijection
  <2>2. ExistsBijection(1..Len(result), heard)
    BY <2>1 DEF ExistsBijection
  <2>3. IsFiniteSet(1..Len(result)) /\ Cardinality(1..Len(result)) = Len(result)
    <3>1. \A n \in Nat : IsFiniteSet(1..n) /\ Cardinality(1..n) = IF 1 > n THEN 0 ELSE n - 1 + 1
      BY FS_Interval
    <3>2. QED
      BY <1>3, <3>1
  <2>4. QED
    BY <2>2, <2>3, FS_Bijection
<1>6. M!Distinct => \A p \in heard : p[1] = p[2]
  <2>1. SUFFICES ASSUME M!Distinct, NEW p \in heard PROVE p[1] = p[2]
    OBVIOUS
  <2>2. p[1] \in Ports /\ p[2] \in Ports
    BY <1>2 DEF M!Pairs
  <2>3. names[p[1]] # NoName /\ names[p[1]] = names[p[2]]
    BY <1>2 DEF MidiInv, TaskInv
  <2>4. QED
    BY <2>1, <2>2, <2>3 DEF M!Distinct
<1>7. QED
  BY <1>4, <1>5, <1>6, MidiCardinality

-----------------------------------------------------------------------------
(* The canvas.                                                             *)

Picture == [white : SUBSET C!Area, marks : SUBSET Int]

\* From p to q: no mark was taken away, and if none of a chunk was set, no point changed.
Marked(p, q) ==
  /\ p.marks \subseteq q.marks
  /\ q.marks \cap C!Flags = {} => q.white = p.white

\* A row of the canvas is in one of its chunks.
LEMMA ChunkIsFlag ==
  ASSUME NEW y \in 0..(H - 1)
  PROVE  C!Chunk(y) \in C!Flags
<1>1. W \in Nat /\ H \in Nat /\ NCHUNKS \in 1..H
  BY CanvasAssumption
<1>2. H \div NCHUNKS \in Nat \ {0}
  <2>1. \A n \in Nat : \A d \in 1..n : n \div d \in Nat \ {0}
    OBVIOUS
  <2>2. QED
    BY <1>1, <2>1
<1>3. \A d \in Nat \ {0} : \A n \in Nat : n \div d \in Nat
  OBVIOUS
<1>4. y \div (H \div NCHUNKS) \in Nat
  BY <1>2, <1>3
<1>5. NCHUNKS - 1 \in Nat
  BY <1>1
<1>6. QED
  BY <1>1, <1>4, <1>5 DEF C!Chunk, C!LesserOf, C!Flags

\* setPixel(): a point that changes marks its chunk.
LEMMA StrokeMarks ==
  ASSUME NEW p \in Picture, NEW stroke
  PROVE  C!setPixels(p, stroke) \in Picture /\ Marked(p, C!setPixels(p, stroke))
<1> DEFINE inside == IF stroke.ink = C!Transparent THEN {} ELSE stroke.at \cap C!Area
           after == CASE stroke.ink = "white" -> p.white \cup inside
                      [] stroke.ink = "black" -> p.white \ inside
                      [] stroke.ink = "invert" -> (p.white \ inside) \cup (inside \ p.white)
                      [] OTHER -> p.white
           changed == (p.white \ after) \cup (after \ p.white)
           chunks == {C!Chunk(pt[2]) : pt \in changed}
<1>1. C!setPixels(p, stroke) = [white |-> after, marks |-> p.marks \cup chunks]
  BY DEF C!setPixels
<1>2. p.white \subseteq C!Area /\ p.marks \subseteq Int
  BY DEF Picture
<1>3. after \subseteq C!Area
  <2>1. inside \subseteq C!Area
    OBVIOUS
  <2> HIDE DEF inside
  <2>2. QED
    BY <2>1, <1>2
<1> HIDE DEF after
<1>4. \A pt \in changed : pt \in C!Area
  BY <1>2, <1>3
<1>5. \A pt \in C!Area : pt[2] \in 0..(H - 1)
  BY DEF C!Area
<1>6. \A pt \in changed : C!Chunk(pt[2]) \in C!Flags
  BY <1>4, <1>5, ChunkIsFlag
<1>7. chunks \subseteq C!Flags
  BY <1>6
<1>8. C!Flags \subseteq Int
  BY CanvasAssumption DEF C!Flags
<1>9. chunks = {} => after = p.white
  <2>1. changed # {} => chunks # {}
    OBVIOUS
  <2>2. changed = {} => after = p.white
    OBVIOUS
  <2>3. QED
    BY <2>1, <2>2
<1> HIDE DEF chunks, changed
<1>10. [white |-> after, marks |-> p.marks \cup chunks] \in Picture
  BY <1>2, <1>3, <1>7, <1>8 DEF Picture
<1>11. QED
  BY <1>1, <1>7, <1>9, <1>10 DEF Marked

\* The strokes of a figure are one after another, so what one of them marks stays marked.
LEMMA MarkedFollows ==
  ASSUME NEW p \in Picture, NEW q \in Picture, NEW r \in Picture, Marked(p, q), Marked(q, r)
  PROVE  Marked(p, r)
BY DEF Marked

\* Induction up to n: what has 0 and, with each number, the next, has all of them.
LEMMA UpTo ==
  ASSUME NEW n \in Nat, NEW good, 0 \in good, \A i \in 1..n : i - 1 \in good => i \in good
  PROVE  \A i \in 0..n : i \in good
<1> DEFINE bad == {i \in 0..n : i \notin good}
<1>1. CASE bad = {}
  BY <1>1
<1>2. CASE bad # {}
  <2>1. bad \subseteq Nat
    OBVIOUS
  <2>2. PICK i \in bad : \A j \in bad : i <= j
    BY <1>2, <2>1, LeastExists
  <2>3. i \in 1..n /\ i - 1 \in 0..n
    BY <2>2
  <2>4. i - 1 \notin bad
    BY <2>2, <2>3
  <2>5. QED
    BY <2>2, <2>3, <2>4
<1>3. QED
  BY <1>1, <1>2

\* The pictures after the first strokes, up to the m-th, of a sequence of them.
IsDrawing(f, p, strokes, m) ==
  f = [i \in 0..m |-> IF i = 0 THEN p ELSE C!setPixels(f[i - 1], strokes[i])]

\* There are such pictures for every sequence.
LEMMA DrawingExists ==
  ASSUME NEW p, NEW strokes, NEW n \in Nat
  PROVE  \E f : IsDrawing(f, p, strokes, n)
<1> DEFINE good == {m \in 0..n : \E f : IsDrawing(f, p, strokes, m)}
<1>1. 0 \in good
  <2>1. IsDrawing([i \in 0..0 |-> p], p, strokes, 0)
    BY DEF IsDrawing
  <2>2. QED
    BY <2>1
<1>2. ASSUME NEW m \in 1..n, m - 1 \in good PROVE m \in good
  <2>1. PICK f : IsDrawing(f, p, strokes, m - 1)
    BY <1>2
  <2> DEFINE next(i) == IF i = 0 THEN p ELSE C!setPixels(f[i - 1], strokes[i])
             g == [i \in 0..m |-> next(i)]
  <2>2. f = [i \in 0..(m - 1) |-> next(i)]
    BY <2>1 DEF IsDrawing
  <2> HIDE DEF next
  <2>3. \A i \in 0..(m - 1) : g[i] = f[i]
    BY <2>2
  <2>4. \A i \in 0..m : i # 0 => i - 1 \in 0..(m - 1)
    OBVIOUS
  <2>5. \A i \in 0..m : next(i) = IF i = 0 THEN p ELSE C!setPixels(g[i - 1], strokes[i])
    BY <2>3, <2>4 DEF next
  <2>6. g = [i \in 0..m |-> IF i = 0 THEN p ELSE C!setPixels(g[i - 1], strokes[i])]
    <3>1. g = [i \in 0..m |-> next(i)]
      OBVIOUS
    <3> HIDE DEF g
    <3>2. QED
      BY <3>1, <2>5
  <2> HIDE DEF g
  <2>7. IsDrawing(g, p, strokes, m)
    BY <2>6 DEF IsDrawing
  <2>8. m \in 0..n
    OBVIOUS
  <2>9. QED
    BY <2>7, <2>8
<1> HIDE DEF good
<1>3. \A m \in 0..n : m \in good
  BY <1>1, <1>2, UpTo
<1>4. QED
  BY <1>3 DEF good

\* Strokes one after another mark what they change.
LEMMA StrokesMark ==
  ASSUME NEW p \in Picture, NEW strokes, Len(strokes) \in Nat
  PROVE  C!AfterStrokes(p, strokes) \in Picture /\ Marked(p, C!AfterStrokes(p, strokes))
<1> DEFINE f == CHOOSE g : IsDrawing(g, p, strokes, Len(strokes))
           n == Len(strokes)
           good == {i \in 0..n : f[i] \in Picture /\ Marked(p, f[i])}
<1>1. C!AfterStrokes(p, strokes) = f[n]
  BY DEF C!AfterStrokes, IsDrawing
<1>2. IsDrawing(f, p, strokes, n)
  BY DrawingExists
<1> HIDE DEF f
<1>3. \A i \in 0..n : f[i] = IF i = 0 THEN p ELSE C!setPixels(f[i - 1], strokes[i])
  <2>1. f = [i \in 0..n |-> IF i = 0 THEN p ELSE C!setPixels(f[i - 1], strokes[i])]
    BY <1>2 DEF IsDrawing
  <2>2. QED
    BY <2>1
<1> HIDE DEF n
<1>4. n \in Nat
  BY DEF n
<1>5. 0 \in good
  <2>1. f[0] = p
    BY <1>3, <1>4
  <2>2. Marked(p, p)
    BY DEF Marked
  <2>3. QED
    BY <2>1, <2>2, <1>4
<1>6. ASSUME NEW i \in 1..n, i - 1 \in good PROVE i \in good
  <2>1. f[i - 1] \in Picture /\ Marked(p, f[i - 1]) /\ i \in 0..n
    BY <1>6
  <2>2. f[i] = C!setPixels(f[i - 1], strokes[i])
    BY <1>3, <2>1, <1>4
  <2>3. f[i] \in Picture /\ Marked(f[i - 1], f[i])
    BY <2>1, <2>2, StrokeMarks
  <2>4. Marked(p, f[i])
    BY <2>1, <2>3, MarkedFollows
  <2>5. QED
    BY <2>1, <2>3, <2>4
<1> HIDE DEF good
<1>7. n \in good
  BY <1>4, <1>5, <1>6, UpTo
<1>8. QED
  BY <1>1, <1>7 DEF good

\* A sequence of anything.
IsSeq(s) == \E A : s \in Seq(A)

\* A stroke is a sequence, and so are sequences one behind the other.
LEMMA SeqFacts ==
  /\ IsSeq(<< >>)
  /\ \A points, ink : IsSeq(C!Stroke(points, ink))
  /\ \A s, t : IsSeq(s) /\ IsSeq(t) => IsSeq(s \o t)
  /\ \A s : IsSeq(s) => Len(s) \in Nat
<1>1. << >> \in Seq({})
  OBVIOUS
<1>2. ASSUME NEW points, NEW ink PROVE IsSeq(C!Stroke(points, ink))
  <2>1. C!Stroke(points, ink) \in Seq({[at |-> points, ink |-> ink]})
    BY DEF C!Stroke
  <2>2. QED
    BY <2>1 DEF IsSeq
<1>3. ASSUME NEW s, NEW t, IsSeq(s), IsSeq(t) PROVE IsSeq(s \o t)
  <2>1. PICK A : s \in Seq(A)
    BY <1>3 DEF IsSeq
  <2>2. PICK B0 : t \in Seq(B0)
    BY <1>3 DEF IsSeq
  <2>3. s \in Seq(A \cup B0) /\ t \in Seq(A \cup B0)
    BY <2>1, <2>2
  <2>4. s \o t \in Seq(A \cup B0)
    BY <2>3
  <2>5. QED
    BY <2>4 DEF IsSeq
<1>4. ASSUME NEW s, IsSeq(s) PROVE Len(s) \in Nat
  BY <1>4 DEF IsSeq
<1>5. QED
  BY <1>1, <1>2, <1>3, <1>4 DEF IsSeq

\* The primitives of Canvas.cpp draw with one stroke after another.
LEMMA LinesAreSeq ==
  /\ \A x, y, w, z, ink : IsSeq(C!line(x, y, w, z, ink))
  /\ \A x, y, l, ink : IsSeq(C!lineVertical(x, y, l, ink)) /\ IsSeq(C!lineHorizontal(x, y, l, ink))
BY SeqFacts DEF C!line, C!lineVertical, C!lineHorizontal

\* The same of triangle() and triangleFilled(),
LEMMA TrianglesAreSeq ==
  ASSUME NEW p, NEW q, NEW r, NEW ink, NEW inside
  PROVE  IsSeq(C!triangle(p, q, r, ink)) /\ IsSeq(C!triangleFilled(p, q, r, ink, inside))
<1>1. \A a, b, c : IsSeq(C!triangle(a, b, c, ink))
  BY SeqFacts, LinesAreSeq DEF C!triangle
<1>2. QED
  BY <1>1, SeqFacts, LinesAreSeq DEF C!triangleFilled

\* of rectangle() and rectangleFilled(),
LEMMA RectanglesAreSeq ==
  \A w0, h0, x, y, w, h, ink, inside :
    /\ IsSeq(C!rectangleFilled(w0, h0, x, y, w, h, ink, inside))
    /\ IsSeq(C!rectangle(w0, h0, x, y, w, h, ink))
BY SeqFacts, LinesAreSeq DEF C!rectangleFilled, C!rectangle

\* of circle() and circleFilled(),
LEMMA CirclesAreSeq ==
  \A x, y, r, ink, inside, type :
    /\ IsSeq(C!circleFilled(x, y, r, ink, inside, type))
    /\ IsSeq(C!circle(x, y, r, ink, type))
BY SeqFacts DEF C!circleFilled, C!circle

\* of rectangleRounded() and rectangleRoundedFilled(),
LEMMA RoundedAreSeq ==
  \A w0, h0, x, y, w, h, r, ink, inside :
    /\ IsSeq(C!rectangleRoundedFilled(w0, h0, x, y, w, h, r, ink, inside))
    /\ IsSeq(C!rectangleRounded(w0, h0, x, y, w, h, r, ink))
<1>1. ASSUME NEW w0, NEW h0, NEW x, NEW y, NEW w, NEW h, NEW r0, NEW ink, NEW inside
      PROVE  IsSeq(C!rectangleRoundedFilled(w0, h0, x, y, w, h, r0, ink, inside))
  <2> DEFINE side == C!LesserOf(w, h)
             r == IF 2 * r0 > side THEN side \div 2 ELSE r0
             offset == IF 2 * r0 > side THEN side ELSE 2 * r0
             outline ==
               C!lineHorizontal(x + r, y, w - offset, ink)
               \o C!lineHorizontal(x + r, y + h - 1, w - offset, ink)
               \o C!lineVertical(x, y + r, h - offset, ink)
               \o C!lineVertical(x + w - 1, y + r, h - offset, ink)
               \o C!circleFilled(x + r, y + r, r, ink, inside, "QuarterTopLeft")
               \o C!circleFilled(x + w - r - 1, y + r, r, ink, inside, "QuarterTopRight")
               \o C!circleFilled(x + w - r - 1, y + h - r - 1, r, ink, inside, "QuarterBottomRight")
               \o C!circleFilled(x + r, y + h - r - 1, r, ink, inside, "QuarterBottomLeft")
             body ==
               C!rectangleFilled(w0, h0, x + r, y + 1, w - offset, r, inside, inside)
               \o C!rectangleFilled(w0, h0, x + 1, y + r, w - 2, h - offset, inside, inside)
               \o C!rectangleFilled(w0, h0, x + r, y + h - 1 - r, w - offset, r, inside, inside)
  <2>1. C!rectangleRoundedFilled(w0, h0, x, y, w, h, r0, ink, inside)
          = IF x > w0 \/ y > h0 \/ w = 0 \/ h = 0 THEN << >>
            ELSE outline \o (IF inside = C!Transparent \/ h <= 2 \/ w <= 2 THEN << >> ELSE body)
    BY DEF C!rectangleRoundedFilled
  <2> HIDE DEF side, r, offset
  <2>2. IsSeq(outline)
    BY SeqFacts, LinesAreSeq, CirclesAreSeq
  <2>3. IsSeq(body)
    BY SeqFacts, RectanglesAreSeq
  <2> HIDE DEF outline, body
  <2>4. QED
    BY <2>1, <2>2, <2>3, SeqFacts
<1>2. QED
  BY <1>1 DEF C!rectangleRounded

\* of putBitmap() and putCanvas(),
LEMMA CopiesAreSeq ==
  /\ \A w0, h0, x, y, w, h, bits, ink : IsSeq(C!putBitmap(w0, h0, x, y, w, h, bits, ink))
  /\ \A w0, h0, source, cw, ch, x, y, u, v, w, h :
       IsSeq(C!putCanvas(w0, h0, source, cw, ch, x, y, u, v, w, h))
BY SeqFacts DEF C!putBitmap, C!putCanvas

\* A set has as many elements for the canvas as here.
LEMMA CanvasCardinality == ASSUME NEW S PROVE C!Cardinality(S) = Cardinality(S)
BY DEF C!Cardinality, Cardinality

\* and of putText(), which draws the characters that fit.
LEMMA TextsAreSeq ==
  ASSUME NEW w0, NEW h0, NEW font, NEW x, NEW y, NEW text, NEW ink, NEW spacing, IsSeq(text)
  PROVE  IsSeq(C!putText(w0, h0, font, x, y, text, ink, spacing))
<1> DEFINE pitch == font.spacing + spacing
           visible == {i \in DOMAIN text : x + (i - 1) * pitch <= w0 + pitch}
           n == C!Cardinality(visible)
           stroke(i) == [at |-> C!CharacterPoints(w0, h0, font, x + (i - 1) * pitch, y, text[i]),
                         ink |-> ink]
<1>1. n \in Nat
  <2>1. DOMAIN text = 1..Len(text) /\ Len(text) \in Nat
    BY DEF IsSeq
  <2>2. IsFiniteSet(1..Len(text))
    BY <2>1, FS_Interval
  <2>3. visible \subseteq 1..Len(text)
    BY <2>1
  <2> HIDE DEF visible
  <2>4. Cardinality(visible) \in Nat
    BY <2>2, <2>3, FS_Subset, FS_CardinalityType
  <2>5. QED
    BY <2>4, CanvasCardinality
<1>2. C!putText(w0, h0, font, x, y, text, ink, spacing)
        = IF y >= h0 \/ x > w0 THEN << >> ELSE [i \in 1..n |-> stroke(i)]
  BY DEF C!putText
<1> HIDE DEF n, stroke
<1>3. [i \in 1..n |-> stroke(i)] \in Seq({stroke(i) : i \in 1..n})
  BY <1>1
<1>4. QED
  BY <1>2, <1>3, SeqFacts DEF IsSeq

\* Whatever is drawn has strokes, one after another.
LEMMA FiguresAreSeq ==
  ASSUME NEW fig \in Drawings, NEW ink, NEW inside
  PROVE  Len(C!Strokes(fig, ink, inside)) \in Nat
<1>1. fig.shape \in {"line", "triangle", "triangleFilled", "circle", "circleFilled", "rectangle",
                    "rectangleFilled", "rectangleRounded", "rectangleRoundedFilled", "bitmap",
                    "text", "canvas"}
  BY DrawingsAssumption
<1>2. fig.shape = "text" => IsSeq(fig.text)
  BY DrawingsAssumption DEF IsSeq
<1>3. fig.shape = "text" =>
        IsSeq(C!putText(W, H, fig.font, fig.p[1], fig.p[2], fig.text, ink, fig.spacing))
  BY <1>2, TextsAreSeq
<1>4. IsSeq(C!Strokes(fig, ink, inside))
  BY <1>1, <1>3, LinesAreSeq, TrianglesAreSeq, RectanglesAreSeq, CirclesAreSeq, RoundedAreSeq,
     CopiesAreSeq DEF C!Strokes
<1>5. QED
  BY <1>4, SeqFacts

\* The device shows the picture, unless there is a mark or fill() or invert() changed it.
CanvasInv ==
  /\ picture \subseteq C!Area /\ shown \subseteq C!Area
  /\ dirtyChunks \subseteq Int /\ stray \in BOOLEAN
  /\ dirtyChunks \cap C!Flags = {} /\ ~stray => picture = shown

\* The canvas has a chunk, and chunks are numbers.
LEMMA SomeFlag == 0 \in C!Flags /\ C!Flags \subseteq Int
BY CanvasAssumption DEF C!Flags

\* A new canvas is black and has every mark.
LEMMA CanvasInit == C!Init => CanvasInv
BY SomeFlag DEF C!Init, CanvasInv

\* A figure marks what it changes.
LEMMA DrawStep ==
  ASSUME CanvasInv, NEW fig \in Drawings, NEW ink, NEW inside, C!Draw(fig, ink, inside)
  PROVE  CanvasInv'
<1> DEFINE p == [white |-> picture, marks |-> dirtyChunks]
           done == C!AfterStrokes(p, C!Strokes(fig, ink, inside))
<1>1. picture' = done.white /\ dirtyChunks' = done.marks /\ shown' = shown /\ stray' = stray
  BY DEF C!Draw
<1>2. p \in Picture
  BY DEF CanvasInv, Picture
<1> HIDE DEF p
<1>3. done \in Picture /\ Marked(p, done)
  BY <1>2, FiguresAreSeq, StrokesMark
<1> HIDE DEF done
<1>4. done.white \subseteq C!Area /\ done.marks \subseteq Int
  BY <1>3 DEF Picture
<1>5. /\ dirtyChunks \subseteq done.marks
      /\ done.marks \cap C!Flags = {} => done.white = picture
  BY <1>3 DEF Marked, p
<1>6. QED
  BY <1>1, <1>4, <1>5 DEF CanvasInv, C!Area, C!Flags

\* white(), black(), fill() and invert(): what changes the picture marks it, or is counted
\* as stray.
LEMMA ClearStep ==
  ASSUME CanvasInv, NEW to \in SUBSET C!Area, NEW marks \in BOOLEAN, C!Clear(to, marks)
  PROVE  CanvasInv'
<1>1. CASE marks
  BY <1>1, SomeFlag DEF CanvasInv, C!Clear, C!Area, C!Flags
<1>2. CASE ~marks
  BY <1>2, SomeFlag DEF CanvasInv, C!Clear, C!Area, C!Flags
<1>3. QED
  BY <1>1, <1>2

\* Every step of a canvas and of the device that sends it.
LEMMA CanvasStep ==
  ASSUME CanvasInv, [C!Next]_canvasVars
  PROVE  CanvasInv'
<1>1. CASE \E fig \in Drawings, ink \in C!Inks, inside \in C!Inks : C!Draw(fig, ink, inside)
  BY <1>1, DrawStep
<1>2. CASE C!white
  <2>1. C!Area \in SUBSET C!Area /\ C!Clear(C!Area, TRUE)
    BY <1>2 DEF C!white
  <2>2. QED
    BY <2>1, ClearStep
<1>3. CASE C!black
  <2>1. {} \in SUBSET C!Area /\ C!Clear({}, TRUE)
    BY <1>3 DEF C!black
  <2>2. QED
    BY <2>1, ClearStep
<1>4. CASE C!fill
  <2>1. \E to \in SUBSET C!Area : C!Clear(to, FALSE)
    BY <1>4 DEF C!fill
  <2>2. QED
    BY <2>1, ClearStep
<1>5. CASE C!invert
  <2>1. C!Area \ picture \in SUBSET C!Area /\ C!Clear(C!Area \ picture, FALSE)
    BY <1>5 DEF C!invert
  <2>2. QED
    BY <2>1, ClearStep
<1>6. CASE C!Send
  <2>1. /\ picture' = picture /\ shown' = picture /\ dirtyChunks' = {} /\ stray' = FALSE
    BY <1>6 DEF C!Send
  <2>2. QED
    BY <2>1 DEF CanvasInv, C!Area, C!Flags
<1>7. CASE UNCHANGED canvasVars
  BY <1>7 DEF CanvasInv, canvasVars, C!Area, C!Flags
<1>8. QED
  BY <1>1, <1>2, <1>3, <1>4, <1>5, <1>6, <1>7 DEF C!Next

\* The invariant says of the canvas what is expected of it.
LEMMA CanvasShown == CanvasInv => C!PictureIsShown
BY DEF CanvasInv, C!PictureIsShown, C!dirty

-----------------------------------------------------------------------------
(* The recorder of traces.                                                 *)

\* Division: a number is so many times the divisor, and a rest.
LEMMA Division ==
  ASSUME NEW k \in Nat \ {0}, NEW a \in Nat
  PROVE  a \div k \in Nat /\ a = k * (a \div k) + (a % k) /\ a % k \in 0..k - 1
<1>1. a = k * (a \div k) + (a % k) /\ a % k \in 0..k - 1 /\ a \div k \in Int
  BY SMT
<1>2. ASSUME NEW x \in Int, x < 0 PROVE k * x <= -k
  BY <1>2, SMT
<1>3. QED
  BY <1>1, <1>2

\* Multiples of k are k apart.
LEMMA Multiples ==
  ASSUME NEW k \in Nat \ {0}, NEW p \in Int, NEW q \in Int, p < q
  PROVE  k * q - k * p >= k /\ k * p \in Int /\ k * q \in Int
<1>1. k * q - k * p = k * (q - p) /\ k * p \in Int /\ k * q \in Int
  BY SMT
<1>2. ASSUME NEW d \in Nat \ {0} PROVE k * d >= k
  BY <1>2, SMT
<1>3. QED
  BY <1>1, <1>2

\* The rest is the only one.
LEMMA RestIsUnique ==
  ASSUME NEW k \in Nat \ {0}, NEW q \in Nat, NEW s \in 0..k - 1
  PROVE  (k * q + s) % k = s
<1> DEFINE a == k * q + s
           p == a \div k
           r == a % k
<1>1. a \in Nat
  BY SMT
<1>2. p \in Nat /\ a = k * p + r /\ r \in 0..k - 1
  BY <1>1, Division
<1>3. a = k * q + s
  OBVIOUS
<1> HIDE DEF a, p, r
<1>4. p = q
  BY <1>2, <1>3, Multiples
<1>5. r = s
  BY <1>2, <1>3, <1>4
<1>6. QED
  BY <1>5 DEF a, r

\* An event has a slot of the ring.
LEMMA PlaceIsSlot ==
  ASSUME NEW n \in Nat \ {0}
  PROVE  R!Place(n) \in R!Slots
<1>1. n - 1 \in Nat
  OBVIOUS
<1>2. (n - 1) % kEventsPerThread \in 0..kEventsPerThread - 1
  BY <1>1, Division, RingAssumption
<1>3. QED
  BY <1>2, RingAssumption DEF R!Place, R!Slots

\* As many events in a row as the ring has slots have a slot each.
LEMMA PlacesApart ==
  ASSUME NEW m \in Nat \ {0}, NEW n \in Nat \ {0}, m < n, n < m + kEventsPerThread
  PROVE  R!Place(m) # R!Place(n)
<1> DEFINE k == kEventsPerThread
           p == (m - 1) \div k
           q == (n - 1) \div k
           r == (m - 1) % k
           s == (n - 1) % k
<1>1. m - 1 \in Nat /\ n - 1 \in Nat /\ k \in Nat \ {0}
  BY RingAssumption
<1>2. p \in Nat /\ m - 1 = k * p + r /\ r \in 0..k - 1
  BY <1>1, Division
<1>3. q \in Nat /\ n - 1 = k * q + s /\ s \in 0..k - 1
  BY <1>1, Division
<1>4. m < n /\ n < m + k
  OBVIOUS
<1>5. R!Place(m) = r + 1 /\ R!Place(n) = s + 1
  BY DEF R!Place
<1> HIDE DEF k, p, q, r, s
<1>6. r # s
  <2> SUFFICES ASSUME r = s PROVE FALSE
    OBVIOUS
  <2>1. k * p \in Int /\ k * q \in Int
    BY <1>1, <1>2, <1>3, Multiples
  <2>2. k * p < k * q /\ k * q < k * p + k
    BY <1>1, <1>2, <1>3, <1>4, <2>1
  <2>3. p < q
    BY <1>1, <1>2, <1>3, <2>2, Multiples
  <2>4. QED
    BY <1>1, <1>2, <1>3, <2>1, <2>2, <2>3, Multiples
<1>7. QED
  BY <1>1, <1>2, <1>3, <1>5, <1>6

\* The slots that are used are those of the last events.
LEMMA UsedIsPlaced ==
  ASSUME NEW w \in Nat, NEW i \in R!Slots, i <= w
  PROVE  \E n \in 1..w : n > w - kEventsPerThread /\ R!Place(n) = i
<1> DEFINE k == kEventsPerThread
           q == (w - i) \div k
           r == (w - i) % k
           n == w - r
<1>1. k \in Nat \ {0} /\ i \in 1..k /\ w - i \in Nat
  BY RingAssumption DEF R!Slots
<1>2. q \in Nat /\ w - i = k * q + r /\ r \in 0..k - 1
  BY <1>1, Division
<1>3. n = w - r
  OBVIOUS
<1> HIDE DEF q, r, n
<1>4. k * q \in Nat
  BY <1>1, <1>2, SMT
<1>5. n \in 1..w /\ n > w - k /\ n - 1 = k * q + (i - 1) /\ i - 1 \in 0..k - 1
  BY <1>1, <1>2, <1>3, <1>4
<1>6. (n - 1) % k = i - 1
  BY <1>1, <1>2, <1>5, RestIsUnique
<1>7. R!Place(n) = i
  BY <1>1, <1>6 DEF R!Place
<1>8. QED
  BY <1>5, <1>7

LEMMA PlaceIsUsed ==
  ASSUME NEW w \in Nat, NEW n \in 1..w
  PROVE  R!Place(n) \in 1..(IF w < kEventsPerThread THEN w ELSE kEventsPerThread)
<1>1. R!Place(n) \in 1..kEventsPerThread
  BY PlaceIsSlot DEF R!Slots
<1>2. ASSUME w < kEventsPerThread PROVE R!Place(n) = n
  <2>1. n - 1 \in 0..kEventsPerThread - 1 /\ kEventsPerThread \in Nat \ {0}
    BY <1>2, RingAssumption
  <2>2. (kEventsPerThread * 0 + (n - 1)) % kEventsPerThread = n - 1
    BY <2>1, RestIsUnique
  <2>3. kEventsPerThread * 0 + (n - 1) = n - 1
    BY <2>1
  <2>4. QED
    BY <2>2, <2>3 DEF R!Place
<1>3. QED
  BY <1>1, <1>2, RingAssumption

\* The threads that did not record since the dump began.
Resting == R!Range(buffers) \ busy

\* The last events that are whole in their slots.
Complete(t) == {n \in R!Latest(t) : n = writeIndex[t] => step[t] = "idle"}

AnyEvent == (Recorders \X Nat) \cup {R!NoEvent}

RingTypes ==
  /\ buffers \in Seq(Recorders)
  /\ writeIndex \in [Recorders -> 0..MaxEvents]
  /\ step \in [Recorders -> {"idle", "what", "when"}]
  /\ what \in [Recorders -> [R!Slots -> AnyEvent]]
  /\ when \in [Recorders -> [R!Slots -> Nat]]
  /\ stamped \in [R!Events -> Nat]
  /\ now \in Nat

\* The ring of a thread has its last events, each with its time.
RingInv ==
  /\ RingTypes
  /\ \A t \in Recorders :
       /\ step[t] # "idle" => writeIndex[t] > 0
       /\ step[t] = "when" => what[t][R!Slot(t)] = <<t, writeIndex[t]>>
       /\ \A n \in Complete(t) :
            what[t][R!Place(n)] = <<t, n>> /\ when[t][R!Place(n)] = stamped[<<t, n>>]

Dumping == dump \in {"what", "when", "done"}

\* What is written, but for an event the time of which was not read yet.
Finished == {i \in DOMAIN written : dump = "when" => i # Len(written)}

\* A thread is busy while it records; the dump has pointers to all slots of one that rests.
BusyInv ==
  dump # "idle" =>
    /\ \A t \in Recorders : step[t] # "idle" => t \in busy
    /\ \A t \in Resting : \A i \in R!Slots : <<t, i>> \in gathered <=> i \in R!Used(t)

DumpInv ==
  /\ dump \in {"idle", "sort", "what", "when", "done"} /\ summary \in BOOLEAN
  /\ gathered \subseteq Recorders \X R!Slots /\ IsFiniteSet(gathered)
  /\ rows \in Seq(gathered)
  /\ written \in Seq([row : gathered, event : AnyEvent, time : Int])
  /\ rows = << >> <=> dump \notin {"what", "when"}
  /\ ~Dumping => written = << >>
  /\ dump = "when" =>
       LET last == written[Len(written)]
       IN /\ written # << >> /\ last.row = rows[1] /\ ~(summary /\ last.event[2] % 2 = 0)
          /\ rows[1][1] \in Resting => last.event = what[rows[1][1]][rows[1][2]]

\* Each slot is written once, and those of the threads that rest in the order of time.
RowsInv ==
  /\ \A i, j \in DOMAIN rows : i # j => rows[i] # rows[j]
  /\ \A i \in Finished, j \in DOMAIN rows : written[i].row # rows[j]
  /\ \A i, j \in DOMAIN written : i # j => written[i].row # written[j].row

TimesInv ==
  /\ \A i, j \in DOMAIN rows : i < j /\ {rows[i][1], rows[j][1]} \subseteq Resting =>
       R!TimeOf(rows[i]) <= R!TimeOf(rows[j])
  /\ \A i \in Finished, j \in DOMAIN rows : {written[i].row[1], rows[j][1]} \subseteq Resting =>
       written[i].time <= R!TimeOf(rows[j])
  /\ \A i, j \in Finished : i < j /\ {written[i].row[1], written[j].row[1]} \subseteq Resting =>
       written[i].time <= written[j].time

\* An event waits to be written, or is written.
Waits(t, n) == \E j \in DOMAIN rows : rows[j] = <<t, R!Place(n)>>
Stands(t, n) == \E i \in Finished : written[i].event = <<t, n>> /\ written[i].row[1] = t

\* What was written is an event of its thread, with its time.
IsOf(t, w) ==
  \E n \in R!Dumped(t) :
    w.row = <<t, R!Place(n)>> /\ w.event = <<t, n>> /\ w.time = stamped[<<t, n>>]

\* All events of a thread that rests wait or are written, and nothing else is written of it.
WholeInv ==
  Dumping =>
    \A t \in Resting : /\ \A n \in R!Dumped(t) : Waits(t, n) \/ Stands(t, n)
                       /\ \A i \in Finished : written[i].row[1] = t => IsOf(t, written[i])

TraceInv == RingInv /\ BusyInv /\ DumpInv /\ RowsInv /\ TimesInv /\ WholeInv

LEMMA TraceInit == R!Init => TraceInv
<1> SUFFICES ASSUME R!Init PROVE TraceInv
  OBVIOUS
<1> USE DEF R!Init
<1>1. RingTypes
  BY RingAssumption DEF RingTypes, AnyEvent
<1>2. \A t \in Recorders : Complete(t) = {} /\ step[t] = "idle"
  BY DEF Complete, R!Latest
<1>3. RingInv
  BY <1>1, <1>2 DEF RingInv
<1>4. BusyInv
  BY DEF BusyInv
<1>5. DumpInv
  <2>1. rows \in Seq(gathered) /\ IsFiniteSet(gathered) /\ gathered = {} /\ summary = FALSE
    BY FS_EmptySet
  <2>2. written \in Seq([row : gathered, event : AnyEvent, time : Int])
    OBVIOUS
  <2>3. QED
    BY <2>1, <2>2 DEF DumpInv, Dumping
<1>6. RowsInv /\ TimesInv /\ WholeInv
  BY DEF RowsInv, TimesInv, WholeInv, Finished, Dumping
<1>7. QED
  BY <1>3, <1>4, <1>5, <1>6 DEF TraceInv

\* The latest events of a thread are numbers of events, in the slots that are used.
LEMMA LatestFacts ==
  ASSUME RingTypes, NEW t \in Recorders, NEW n \in R!Latest(t)
  PROVE  /\ n \in 1..writeIndex[t] /\ n \in Nat \ {0} /\ n > writeIndex[t] - kEventsPerThread
         /\ writeIndex[t] \in Nat /\ <<t, n>> \in R!Events
         /\ R!Place(n) \in R!Slots /\ R!Place(n) \in R!Used(t)
<1>1. writeIndex[t] \in 0..MaxEvents
  BY DEF RingTypes
<1>2. n \in 1..writeIndex[t] /\ n > writeIndex[t] - kEventsPerThread
  BY DEF R!Latest
<1>3. R!Place(n) \in R!Used(t)
  BY <1>1, <1>2, PlaceIsUsed, RingAssumption DEF R!Used
<1>4. QED
  BY <1>1, <1>2, <1>3, PlaceIsSlot, RingAssumption DEF R!Events

\* Two of the latest events of a thread are in two slots.
LEMMA LatestApart ==
  ASSUME RingTypes, NEW t \in Recorders, NEW m \in R!Latest(t), NEW n \in R!Latest(t), m # n
  PROVE  R!Place(m) # R!Place(n)
<1>1. m \in Nat \ {0} /\ n \in Nat \ {0} /\ writeIndex[t] \in Nat
      /\ {m, n} \subseteq 1..writeIndex[t]
      /\ m > writeIndex[t] - kEventsPerThread /\ n > writeIndex[t] - kEventsPerThread
  BY LatestFacts
<1>2. (m < n /\ n < m + kEventsPerThread) \/ (n < m /\ m < n + kEventsPerThread)
  BY <1>1, RingAssumption
<1>3. QED
  BY <1>1, <1>2, PlacesApart

\* record(): the ring gets what the thread writes, in a slot that none of its other last
\* events has.
LEMMA ClaimKeeps ==
  ASSUME RingInv, NEW t \in Recorders, R!Claim(t)
  PROVE  RingInv'
<1> USE DEF RingInv
<1>1. writeIndex' = [writeIndex EXCEPT ![t] = @ + 1] /\ step' = [step EXCEPT ![t] = "what"]
      /\ writeIndex[t] < MaxEvents /\ step[t] = "idle"
      /\ UNCHANGED <<now, buffers, what, when, stamped>>
  BY DEF R!Claim
<1>2. RingTypes'
  BY <1>1, RingAssumption DEF RingTypes
<1>3. writeIndex[t] \in Nat /\ writeIndex'[t] = writeIndex[t] + 1 /\ step'[t] = "what"
  BY <1>1, RingAssumption DEF RingTypes
<1>4. \A u \in Recorders : u # t => writeIndex'[u] = writeIndex[u] /\ step'[u] = step[u]
  BY <1>1 DEF RingTypes
<1>5. Complete(t)' \subseteq Complete(t)
  BY <1>1, <1>3, RingAssumption DEF Complete, R!Latest
<1>6. \A u \in Recorders : u # t => Complete(u)' = Complete(u) /\ R!Slot(u)' = R!Slot(u)
  BY <1>4 DEF Complete, R!Latest, R!Slot
<1>7. QED
  BY <1>1, <1>2, <1>3, <1>4, <1>5, <1>6

LEMMA WhatKeeps ==
  ASSUME RingInv, NEW t \in Recorders, R!WriteWhat(t)
  PROVE  RingInv'
<1> USE DEF RingInv
<1> DEFINE p == R!Slot(t)
           w == writeIndex[t]
<1>1. what' = [what EXCEPT ![t][p] = <<t, w>>] /\ step' = [step EXCEPT ![t] = "when"]
      /\ step[t] = "what" /\ UNCHANGED <<now, buffers, when, writeIndex, stamped>>
  BY DEF R!WriteWhat
<1>2. w \in Nat \ {0} /\ p = R!Place(w) /\ w \in R!Latest(t)
  <2>1. w \in 0..MaxEvents /\ w > 0
    BY <1>1 DEF RingTypes
  <2>2. QED
    BY <2>1, RingAssumption DEF R!Slot, R!Latest
<1>3. p \in R!Slots
  BY <1>2, PlaceIsSlot
<1>4. <<t, w>> \in AnyEvent
  BY <1>2 DEF AnyEvent
<1>5. RingTypes'
  BY <1>1, <1>3, <1>4 DEF RingTypes
<1>6. \A u \in Recorders : R!Slot(u)' = R!Slot(u) /\ R!Latest(u)' = R!Latest(u)
  BY <1>1 DEF R!Slot, R!Latest
<1>7. \A u \in Recorders : u # t => what'[u] = what[u] /\ step'[u] = step[u]
  BY <1>1 DEF RingTypes
<1>8. what'[t][p] = <<t, w>> /\ \A i \in R!Slots : i # p => what'[t][i] = what[t][i]
  BY <1>1, <1>3 DEF RingTypes
<1>9. \A u \in Recorders : Complete(u)' = Complete(u)
  BY <1>1, <1>6 DEF Complete, RingTypes
<1>10. \A n \in Complete(t) : R!Place(n) # p /\ R!Place(n) \in R!Slots
  <2>1. \A n \in Complete(t) : n \in R!Latest(t) /\ n # w
    BY <1>1 DEF Complete
  <2>2. QED
    BY <2>1, <1>2, LatestApart, LatestFacts
<1>11. \A u \in Recorders : \A n \in Complete(u) :
         what'[u][R!Place(n)] = <<u, n>> /\ when'[u][R!Place(n)] = stamped'[<<u, n>>]
  <2> SUFFICES ASSUME NEW u \in Recorders, NEW n \in Complete(u)
               PROVE  what'[u][R!Place(n)] = <<u, n>> /\ when'[u][R!Place(n)] = stamped'[<<u, n>>]
    OBVIOUS
  <2>1. what[u][R!Place(n)] = <<u, n>> /\ when'[u][R!Place(n)] = stamped'[<<u, n>>]
    BY <1>1
  <2>2. what'[u][R!Place(n)] = what[u][R!Place(n)]
    BY <1>7, <1>8, <1>10
  <2>3. QED
    BY <2>1, <2>2
<1>12. \A u \in Recorders : /\ step'[u] # "idle" => writeIndex'[u] > 0
                            /\ step'[u] = "when" => what'[u][R!Slot(u)] = <<u, writeIndex'[u]>>
  BY <1>1, <1>2, <1>7, <1>8
<1>13. QED
  BY <1>5, <1>6, <1>9, <1>11, <1>12

LEMMA WhenKeeps ==
  ASSUME RingInv, NEW t \in Recorders, R!WriteWhen(t)
  PROVE  RingInv'
<1> USE DEF RingInv
<1> DEFINE p == R!Slot(t)
           w == writeIndex[t]
<1>1. when' = [when EXCEPT ![t][p] = now] /\ step' = [step EXCEPT ![t] = "idle"]
      /\ stamped' = [stamped EXCEPT ![<<t, w>>] = now]
      /\ step[t] = "when" /\ UNCHANGED <<now, buffers, what, writeIndex>>
  BY DEF R!WriteWhen
<1>2. w \in Nat \ {0} /\ p = R!Place(w) /\ w \in R!Latest(t)
  <2>1. w \in 0..MaxEvents /\ w > 0
    BY <1>1 DEF RingTypes
  <2>2. QED
    BY <2>1, RingAssumption DEF R!Slot, R!Latest
<1>3. p \in R!Slots /\ <<t, w>> \in R!Events
  BY <1>2, PlaceIsSlot, LatestFacts
<1>4. RingTypes'
  BY <1>1, <1>3 DEF RingTypes
<1>5. \A u \in Recorders : R!Slot(u)' = R!Slot(u) /\ R!Latest(u)' = R!Latest(u)
  BY <1>1 DEF R!Slot, R!Latest
<1>6. \A u \in Recorders : u # t => when'[u] = when[u] /\ step'[u] = step[u]
  BY <1>1 DEF RingTypes
<1>7. when'[t][p] = now /\ \A i \in R!Slots : i # p => when'[t][i] = when[t][i]
  BY <1>1, <1>3 DEF RingTypes
<1>8. stamped'[<<t, w>>] = now /\ \A e \in R!Events : e # <<t, w>> => stamped'[e] = stamped[e]
  BY <1>1, <1>3 DEF RingTypes
<1>9. \A u \in Recorders : u # t => Complete(u)' = Complete(u)
  BY <1>1, <1>5, <1>6 DEF Complete
<1>10. \A n \in Complete(t)' : n = w \/ n \in Complete(t)
  BY <1>1, <1>5 DEF Complete
<1>11. \A n \in R!Latest(t) : n # w => /\ R!Place(n) # p /\ R!Place(n) \in R!Slots
                                       /\ <<t, n>> \in R!Events
  BY <1>2, LatestApart, LatestFacts
<1>12. \A n \in Complete(t)' :
         what'[t][R!Place(n)] = <<t, n>> /\ when'[t][R!Place(n)] = stamped'[<<t, n>>]
  <2> SUFFICES ASSUME NEW n \in Complete(t)'
               PROVE  what'[t][R!Place(n)] = <<t, n>> /\ when'[t][R!Place(n)] = stamped'[<<t, n>>]
    OBVIOUS
  <2>1. CASE n = w
    BY <2>1, <1>1, <1>2, <1>7, <1>8
  <2>2. CASE n # w
    <3>1. n \in Complete(t) /\ n \in R!Latest(t)
      BY <2>2, <1>10 DEF Complete
    <3>2. <<t, n>> # <<t, w>>
      BY <2>2
    <3>3. QED
      BY <2>2, <3>1, <3>2, <1>1, <1>7, <1>8, <1>11
  <2>3. QED
    BY <2>1, <2>2
<1>13. \A u \in Recorders : \A n \in Complete(u)' : u # t =>
         what'[u][R!Place(n)] = <<u, n>> /\ when'[u][R!Place(n)] = stamped'[<<u, n>>]
  <2> SUFFICES ASSUME NEW u \in Recorders, NEW n \in Complete(u), u # t
               PROVE  what'[u][R!Place(n)] = <<u, n>> /\ when'[u][R!Place(n)] = stamped'[<<u, n>>]
    BY <1>9
  <2>1. <<u, n>> \in R!Events /\ <<u, n>> # <<t, w>>
    BY LatestFacts DEF Complete
  <2>2. QED
    BY <2>1, <1>1, <1>6, <1>8
<1>14. \A u \in Recorders : /\ step'[u] # "idle" => writeIndex'[u] > 0
                            /\ step'[u] = "when" => what'[u][R!Slot(u)] = <<u, writeIndex'[u]>>
  BY <1>1, <1>6 DEF RingTypes
<1>15. QED
  BY <1>4, <1>5, <1>12, <1>13, <1>14

\* The dump is as it was, if the threads that rest are.
LEMMA DumpStays ==
  ASSUME TraceInv, UNCHANGED <<dump, summary, gathered, rows, written>>, Resting' \subseteq Resting,
         \A u \in Resting' : /\ what'[u] = what[u] /\ when'[u] = when[u]
                             /\ writeIndex'[u] = writeIndex[u]
                             /\ \A n \in R!Latest(u) : stamped'[<<u, n>>] = stamped[<<u, n>>],
         dump # "idle" => \A u \in Recorders : step'[u] # "idle" => u \in busy'
  PROVE  BusyInv' /\ DumpInv' /\ RowsInv' /\ TimesInv' /\ WholeInv'
<1> USE DEF TraceInv
<1>1. \A u \in Resting' : R!Used(u)' = R!Used(u) /\ R!Latest(u)' = R!Latest(u)
  BY DEF R!Used, R!Latest
<1>2. \A u \in Resting' : R!Dumped(u)' = R!Dumped(u)
  BY <1>1 DEF R!Dumped
<1>3. BusyInv'
  BY <1>1 DEF BusyInv
<1>4. Finished' = Finished /\ (Dumping' <=> Dumping)
  BY DEF Finished, Dumping
<1>5. DumpInv'
  BY <1>4 DEF DumpInv
<1>6. RowsInv'
  BY <1>4 DEF RowsInv
<1>7. \A row \in gathered : row[1] \in Resting' => R!TimeOf(row)' = R!TimeOf(row)
  BY DEF R!TimeOf
<1>8. rows \in Seq(gathered)
  BY DEF DumpInv
<1>9. \A i \in DOMAIN rows : rows[i] \in gathered
  BY <1>8
<1>10. TimesInv'
  <2>1. \A i, j \in DOMAIN rows : i < j /\ {rows[i][1], rows[j][1]} \subseteq Resting' =>
          R!TimeOf(rows[i])' <= R!TimeOf(rows[j])'
    BY <1>7, <1>9 DEF TimesInv
  <2>2. \A i \in Finished, j \in DOMAIN rows :
          {written[i].row[1], rows[j][1]} \subseteq Resting' => written[i].time <= R!TimeOf(rows[j])'
    BY <1>7, <1>9 DEF TimesInv
  <2>3. \A i, j \in Finished : i < j /\ {written[i].row[1], written[j].row[1]} \subseteq Resting' =>
          written[i].time <= written[j].time
    BY DEF TimesInv
  <2>4. rows' = rows /\ written' = written
    OBVIOUS
  <2>5. QED
    BY <2>1, <2>2, <2>3, <2>4, <1>4 DEF TimesInv
<1>11. WholeInv'
  <2>1. \A t \in Resting' : \A n : (Waits(t, n)' <=> Waits(t, n)) /\ (Stands(t, n)' <=> Stands(t, n))
    BY <1>4 DEF Waits, Stands, R!Place
  <2>2. \A t \in Resting' : \A w : IsOf(t, w) => IsOf(t, w)'
    <3> SUFFICES ASSUME NEW t \in Resting', NEW w, IsOf(t, w) PROVE IsOf(t, w)'
      OBVIOUS
    <3>1. PICK n \in R!Dumped(t) :
            w.row = <<t, R!Place(n)>> /\ w.event = <<t, n>> /\ w.time = stamped[<<t, n>>]
      BY DEF IsOf
    <3>2. n \in R!Latest(t) /\ n \in R!Dumped(t)'
      BY <1>2 DEF R!Dumped
    <3>3. stamped'[<<t, n>>] = stamped[<<t, n>>]
      BY <3>2
    <3>4. QED
      BY <3>1, <3>2, <3>3 DEF IsOf, R!Place
  <2>3. ASSUME Dumping, NEW t \in Resting'
        PROVE  /\ \A n \in R!Dumped(t) : Waits(t, n) \/ Stands(t, n)
               /\ \A i \in Finished : written[i].row[1] = t => IsOf(t, written[i])
    BY <2>3 DEF WholeInv
  <2>4. QED
    BY <2>1, <2>2, <2>3, <1>2, <1>4 DEF WholeInv
<1>12. QED
  BY <1>3, <1>5, <1>6, <1>10, <1>11

\* A thread that records touches nothing of the others.
LEMMA RecordTouches ==
  ASSUME RingTypes, NEW t \in Recorders, R!record(t), NEW u \in Recorders, u # t
  PROVE  /\ what'[u] = what[u] /\ when'[u] = when[u] /\ writeIndex'[u] = writeIndex[u]
         /\ step'[u] = step[u]
         /\ \A n \in R!Latest(u) : stamped'[<<u, n>>] = stamped[<<u, n>>]
<1>1. CASE R!Claim(t)
  BY <1>1 DEF R!Claim, RingTypes
<1>2. CASE R!WriteWhat(t)
  BY <1>2 DEF R!WriteWhat, RingTypes
<1>3. CASE R!WriteWhen(t)
  <2>1. \A n \in R!Latest(u) : <<u, n>> \in R!Events /\ <<u, n>> # <<t, writeIndex[t]>>
    BY LatestFacts
  <2>2. QED
    BY <1>3, <2>1 DEF R!WriteWhen, RingTypes
<1>4. QED
  BY <1>1, <1>2, <1>3 DEF R!record

LEMMA RecordKeeps ==
  ASSUME TraceInv, NEW t \in Recorders, R!record(t)
  PROVE  TraceInv'
<1>1. RingInv'
  BY ClaimKeeps, WhatKeeps, WhenKeeps DEF R!record, TraceInv
<1>2. UNCHANGED <<dump, summary, gathered, rows, written, buffers>> /\ busy' = busy \cup {t}
  BY DEF R!record, R!Claim, R!WriteWhat, R!WriteWhen, R!Working
<1>3. Resting' = Resting \ {t} /\ Resting \subseteq Recorders
  BY <1>2 DEF Resting, R!Range, TraceInv, RingInv, RingTypes
<1>4. \A u \in Resting' : /\ what'[u] = what[u] /\ when'[u] = when[u]
                          /\ writeIndex'[u] = writeIndex[u]
                          /\ \A n \in R!Latest(u) : stamped'[<<u, n>>] = stamped[<<u, n>>]
  BY <1>3, RecordTouches DEF TraceInv, RingInv
<1>5. dump # "idle" => \A u \in Recorders : step'[u] # "idle" => u \in busy'
  <2>1. \A u \in Recorders : u # t => step'[u] = step[u]
    BY RecordTouches DEF TraceInv, RingInv
  <2>2. QED
    BY <2>1, <1>2 DEF TraceInv, BusyInv
<1>6. QED
  BY <1>1, <1>2, <1>3, <1>4, <1>5, DumpStays DEF TraceInv

LEMMA RegisterKeeps ==
  ASSUME TraceInv, NEW t \in Recorders, R!threadBuffer(t)
  PROVE  TraceInv'
<1>1. buffers' = Append(buffers, t) /\ busy' = busy \cup {t}
      /\ UNCHANGED <<now, what, when, writeIndex, step, stamped, dump, summary, gathered, rows,
                     written>>
  BY DEF R!threadBuffer, R!Working
<1>2. buffers \in Seq(Recorders)
  BY DEF TraceInv, RingInv, RingTypes
<1>3. R!Range(buffers)' = R!Range(buffers) \cup {t} /\ buffers' \in Seq(Recorders)
  <2>1. /\ DOMAIN buffers' = 1..Len(buffers) + 1 /\ DOMAIN buffers = 1..Len(buffers)
        /\ Len(buffers) \in Nat /\ buffers'[Len(buffers) + 1] = t /\ buffers' \in Seq(Recorders)
        /\ \A i \in DOMAIN buffers : i \in DOMAIN buffers' /\ buffers'[i] = buffers[i]
        /\ \A i \in DOMAIN buffers' : i = Len(buffers) + 1 \/ i \in DOMAIN buffers
    BY <1>1, <1>2, AppendFacts
  <2>2. Len(buffers) + 1 \in DOMAIN buffers'
    BY <2>1
  <2>3. QED
    BY <2>1, <2>2 DEF R!Range
<1>4. Resting' \subseteq Resting
  BY <1>1, <1>3 DEF Resting
<1>5. RingInv'
  <2>1. RingTypes'
    BY <1>1, <1>3 DEF TraceInv, RingInv, RingTypes
  <2>2. \A u \in Recorders : Complete(u)' = Complete(u) /\ R!Slot(u)' = R!Slot(u)
    BY <1>1 DEF Complete, R!Latest, R!Slot
  <2>3. QED
    BY <1>1, <2>1, <2>2 DEF TraceInv, RingInv
<1>6. dump # "idle" => \A u \in Recorders : step'[u] # "idle" => u \in busy'
  BY <1>1 DEF TraceInv, BusyInv
<1>7. QED
  BY <1>1, <1>4, <1>5, <1>6, DumpStays DEF TraceInv

\* The places of a sequence are not without end.
LEMMA SeqIsFinite ==
  ASSUME NEW S, NEW q \in Seq(S)
  PROVE  IsFiniteSet(R!Range(q)) /\ R!Range(q) \subseteq S
<1>1. Len(q) \in Nat /\ DOMAIN q = 1..Len(q) /\ R!Range(q) = {q[i] : i \in 1..Len(q)}
  BY DEF R!Range
<1>2. IsFiniteSet(1..Len(q))
  BY <1>1, FS_Interval
<1>3. [i \in 1..Len(q) |-> q[i]] \in Surjection(1..Len(q), R!Range(q))
  BY <1>1 DEF Surjection
<1>4. IsFiniteSet(R!Range(q))
  BY <1>2, <1>3, FS_Surjection
<1>5. QED
  BY <1>1, <1>4

LEMMA GatherKeeps ==
  ASSUME TraceInv, NEW s \in BOOLEAN, R!Gather(s)
  PROVE  TraceInv'
<1>1. /\ gathered' = {row \in R!Range(buffers) \X R!Slots : row[2] \in R!Used(row[1])}
      /\ dump' = "sort" /\ summary' = s /\ rows' = << >> /\ written' = << >>
      /\ busy' = {t \in Recorders : step[t] # "idle"}
      /\ UNCHANGED <<now, buffers, what, when, writeIndex, step, stamped>>
  BY DEF R!Gather
<1>2. RingInv'
  <2>1. \A u \in Recorders : Complete(u)' = Complete(u) /\ R!Slot(u)' = R!Slot(u)
    BY <1>1 DEF Complete, R!Latest, R!Slot
  <2>2. QED
    BY <1>1, <2>1 DEF TraceInv, RingInv, RingTypes
<1>3. buffers \in Seq(Recorders)
  BY DEF TraceInv, RingInv, RingTypes
<1>4. IsFiniteSet(R!Range(buffers)) /\ R!Range(buffers) \subseteq Recorders
  BY <1>3, SeqIsFinite
<1>5. IsFiniteSet(R!Range(buffers) \X R!Slots)
  <2>1. IsFiniteSet(R!Slots)
    BY FS_Interval, RingAssumption DEF R!Slots
  <2>2. QED
    BY <1>4, <2>1, FS_Product
<1>6. gathered' \in SUBSET (R!Range(buffers) \X R!Slots)
  BY <1>1
<1>7. IsFiniteSet(gathered') /\ gathered' \subseteq Recorders \X R!Slots
  BY <1>4, <1>5, <1>6, FS_Subset
<1>8. DumpInv'
  <2>1. rows' \in Seq(gathered') /\ written' \in Seq([row : gathered', event : AnyEvent, time : Int])
    BY <1>1
  <2>2. QED
    BY <1>1, <1>7, <2>1 DEF DumpInv, Dumping, AnyEvent
<1>9. BusyInv'
  <2>1. \A t \in Resting' : t \in R!Range(buffers) /\ R!Used(t)' = R!Used(t)
    BY <1>1 DEF Resting, R!Range, R!Used
  <2>2. \A t \in Resting' : \A i \in R!Slots : <<t, i>> \in gathered' <=> i \in R!Used(t)'
    BY <1>1, <2>1
  <2>3. QED
    BY <1>1, <2>2 DEF BusyInv
<1>10. RowsInv' /\ TimesInv' /\ WholeInv'
  BY <1>1 DEF RowsInv, TimesInv, WholeInv, Finished, Dumping
<1>11. QED
  BY <1>2, <1>8, <1>9, <1>10 DEF TraceInv

\* The elements of a set, arranged: each of them once.
LEMMA ArrangedFacts ==
  ASSUME NEW S, IsFiniteSet(S), NEW q \in R!Bijection(1..Cardinality(S), S)
  PROVE  /\ q \in Seq(S) /\ (q = << >> <=> S = {})
         /\ \A i, j \in DOMAIN q : i # j => q[i] # q[j]
         /\ \A x \in S : \E i \in DOMAIN q : q[i] = x
<1> DEFINE n == Cardinality(S)
<1>1. n \in Nat
  BY FS_CardinalityType
<1>2. q \in [1..n -> S] /\ \A i, j \in 1..n : i # j => q[i] # q[j]
  BY DEF R!Bijection, R!Injection, R!IsInjective
<1>3. \A x \in S : \E i \in 1..n : q[i] = x
  BY DEF R!Bijection, R!Surjection
<1> HIDE DEF n
<1>4. q \in Seq(S) /\ DOMAIN q = 1..n
  BY <1>1, <1>2
<1>5. q = << >> <=> S = {}
  <2>1. ASSUME q = << >> PROVE S = {}
    BY <1>3, <1>4, <2>1
  <2>2. ASSUME S = {} PROVE q = << >>
    BY <1>4, <2>2
  <2>3. QED
    BY <2>1, <2>2
<1>6. QED
  BY <1>2, <1>3, <1>4, <1>5

LEMMA SortKeeps ==
  ASSUME TraceInv, R!Sort
  PROVE  TraceInv'
<1>1. /\ dump = "sort" /\ rows' \in R!Bijection(1..Cardinality(gathered), gathered)
      /\ \A i, j \in DOMAIN rows' : i < j => R!TimeOf(rows'[i]) <= R!TimeOf(rows'[j])
      /\ dump' = IF gathered = {} THEN "done" ELSE "what"
      /\ UNCHANGED <<now, buffers, what, when, writeIndex, step, stamped, summary, gathered, written,
                     busy>>
  BY DEF R!Sort, R!Cardinality, Cardinality
<1>2. /\ rows' \in Seq(gathered) /\ (rows' = << >> <=> gathered = {})
      /\ \A i, j \in DOMAIN rows' : i # j => rows'[i] # rows'[j]
      /\ \A x \in gathered : \E i \in DOMAIN rows' : rows'[i] = x
  BY <1>1, ArrangedFacts DEF TraceInv, DumpInv
<1>3. written' = << >> /\ written = << >>
  BY <1>1 DEF TraceInv, DumpInv, Dumping
<1>4. RingInv'
  <2>1. \A u \in Recorders : Complete(u)' = Complete(u) /\ R!Slot(u)' = R!Slot(u)
    BY <1>1 DEF Complete, R!Latest, R!Slot
  <2>2. QED
    BY <1>1, <2>1 DEF TraceInv, RingInv, RingTypes
<1>5. Resting' = Resting /\ \A t : R!Used(t)' = R!Used(t) /\ R!Dumped(t)' = R!Dumped(t)
  BY <1>1 DEF Resting, R!Range, R!Used, R!Dumped, R!Latest
<1>6. BusyInv'
  BY <1>1, <1>5 DEF TraceInv, BusyInv
<1>7. DumpInv'
  <2>1. written' \in Seq([row : gathered', event : AnyEvent', time : Int])
    BY <1>3
  <2>2. rows' \in Seq(gathered') /\ (rows' = << >> <=> dump' \notin {"what", "when"})
    BY <1>1, <1>2
  <2>3. gathered' \subseteq Recorders \X R!Slots /\ IsFiniteSet(gathered') /\ summary' \in BOOLEAN
    BY <1>1 DEF TraceInv, DumpInv
  <2>4. QED
    BY <1>1, <1>3, <2>1, <2>2, <2>3 DEF DumpInv, Dumping
<1>8. Finished' = {}
  BY <1>3 DEF Finished
<1>9. RowsInv'
  BY <1>2, <1>3, <1>8 DEF RowsInv
<1>10. TimesInv'
  <2>1. \A row : R!TimeOf(row)' = R!TimeOf(row)
    BY <1>1 DEF R!TimeOf
  <2>2. QED
    BY <1>1, <1>8, <2>1 DEF TimesInv
<1>11. WholeInv'
  <2> SUFFICES ASSUME NEW t \in Resting, NEW n \in R!Dumped(t) PROVE Waits(t, n)'
    BY <1>5, <1>8 DEF WholeInv
  <2>1. t \in Recorders /\ n \in R!Latest(t)
    BY DEF Resting, R!Range, TraceInv, RingInv, RingTypes, R!Dumped
  <2>2. <<t, R!Place(n)>> \in gathered
    BY <1>1, <2>1, LatestFacts DEF TraceInv, RingInv, BusyInv
  <2>3. QED
    BY <1>2, <2>2 DEF Waits, R!Place
<1>12. QED
  BY <1>4, <1>6, <1>7, <1>9, <1>10, <1>11 DEF TraceInv

\* The rows that are left are pointers that were gathered.
LEMMA RowsFacts ==
  ASSUME TraceInv, dump \in {"what", "when"}
  PROVE  /\ rows \in Seq(gathered) /\ rows # << >> /\ 1 \in DOMAIN rows /\ Head(rows) = rows[1]
         /\ rows[1] \in gathered /\ rows[1][1] \in Recorders /\ rows[1][2] \in R!Slots
         /\ rows[1] = <<rows[1][1], rows[1][2]>>
         /\ what[rows[1][1]][rows[1][2]] \in AnyEvent /\ R!TimeOf(rows[1]) \in Nat
<1>1. rows \in Seq(gathered) /\ rows # << >> /\ gathered \subseteq Recorders \X R!Slots
  BY DEF TraceInv, DumpInv
<1>2. 1 \in DOMAIN rows /\ Head(rows) = rows[1] /\ rows[1] \in gathered
  BY <1>1, TailFacts
<1>3. rows[1] \in Recorders \X R!Slots
  BY <1>1, <1>2
<1>4. what \in [Recorders -> [R!Slots -> AnyEvent]] /\ when \in [Recorders -> [R!Slots -> Nat]]
  BY DEF TraceInv, RingInv, RingTypes
<1>5. QED
  BY <1>1, <1>2, <1>3, <1>4 DEF R!TimeOf

\* A thread that rests has a whole event in the slot the next row points to.
LEMMA FirstRow ==
  ASSUME TraceInv, dump \in {"what", "when"}, rows[1][1] \in Resting
  PROVE  \E n \in R!Latest(rows[1][1]) :
           /\ rows[1] = <<rows[1][1], R!Place(n)>>
           /\ what[rows[1][1]][rows[1][2]] = <<rows[1][1], n>>
           /\ R!TimeOf(rows[1]) = stamped[<<rows[1][1], n>>]
<1> DEFINE t == rows[1][1]
           s == rows[1][2]
<1>1. t \in Recorders /\ s \in R!Slots /\ rows[1] = <<t, s>> /\ rows[1] \in gathered
  BY RowsFacts
<1>2. t \in Resting
  OBVIOUS
<1> HIDE DEF t, s
<1>3. s \in R!Used(t) /\ t \notin busy
  BY <1>1, <1>2 DEF TraceInv, BusyInv, Resting
<1>4. step[t] = "idle"
  BY <1>1, <1>3 DEF TraceInv, BusyInv
<1>5. writeIndex[t] \in Nat /\ s <= writeIndex[t]
  <2>1. writeIndex[t] \in 0..MaxEvents
    BY <1>1 DEF TraceInv, RingInv, RingTypes
  <2>2. QED
    BY <2>1, <1>3, RingAssumption DEF R!Used
<1>6. PICK n \in 1..writeIndex[t] : n > writeIndex[t] - kEventsPerThread /\ R!Place(n) = s
  BY <1>1, <1>5, UsedIsPlaced
<1>7. n \in R!Latest(t)
  BY <1>6 DEF R!Latest
<1>8. n \in Complete(t)
  BY <1>4, <1>7 DEF Complete
<1>9. what[t][R!Place(n)] = <<t, n>> /\ when[t][R!Place(n)] = stamped[<<t, n>>]
  BY <1>1, <1>8 DEF TraceInv, RingInv
<1>10. R!TimeOf(rows[1]) = when[t][s]
  BY DEF R!TimeOf, t, s
<1>11. QED
  BY <1>1, <1>6, <1>7, <1>9, <1>10 DEF t, s

\* The dump reads, and changes nothing of the rings.
LEMMA ReadingKeepsRings ==
  ASSUME TraceInv, UNCHANGED <<now, buffers, what, when, writeIndex, step, stamped, summary, gathered, busy>>
  PROVE  /\ RingInv' /\ Resting' = Resting
         /\ \A t : R!Used(t)' = R!Used(t) /\ R!Latest(t)' = R!Latest(t) /\ R!Dumped(t)' = R!Dumped(t)
         /\ \A row : R!TimeOf(row)' = R!TimeOf(row)
         /\ (dump # "idle" => BusyInv')
<1>1. RingInv'
  <2>1. \A u \in Recorders : Complete(u)' = Complete(u) /\ R!Slot(u)' = R!Slot(u)
    BY DEF Complete, R!Latest, R!Slot
  <2>2. QED
    BY <2>1 DEF TraceInv, RingInv, RingTypes
<1>2. Resting' = Resting
  BY DEF Resting, R!Range
<1>3. \A t : R!Used(t)' = R!Used(t) /\ R!Latest(t)' = R!Latest(t) /\ R!Dumped(t)' = R!Dumped(t)
  BY DEF R!Used, R!Latest, R!Dumped
<1>4. \A row : R!TimeOf(row)' = R!TimeOf(row)
  BY DEF R!TimeOf
<1>5. dump # "idle" => BusyInv'
  BY <1>2, <1>3 DEF TraceInv, BusyInv
<1>6. QED
  BY <1>1, <1>2, <1>3, <1>4, <1>5

\* printSummary() goes past the end of a scope.
LEMMA SkipKeeps ==
  ASSUME TraceInv, R!ReadWhat, summary, what[rows[1][1]][rows[1][2]][2] % 2 = 0
  PROVE  TraceInv'
<1>1. dump = "what" /\ UNCHANGED <<now, buffers, what, when, writeIndex, step, stamped, summary, gathered, busy>>
  BY DEF R!ReadWhat
<1>2. /\ rows \in Seq(gathered) /\ rows # << >> /\ Head(rows) = rows[1]
  BY <1>1, RowsFacts
<1>3. rows' = Tail(rows) /\ written' = written /\ dump' = IF Len(rows) = 1 THEN "done" ELSE "what"
  BY <1>2 DEF R!ReadWhat
<1>4. /\ Tail(rows) \in Seq(gathered) /\ Len(rows) \in Nat \ {0}
      /\ DOMAIN rows = 1..Len(rows) /\ DOMAIN Tail(rows) = 1..Len(rows) - 1
      /\ \A i \in DOMAIN Tail(rows) : i + 1 \in DOMAIN rows /\ Tail(rows)[i] = rows[i + 1]
      /\ \A i \in DOMAIN rows : i # 1 => i - 1 \in DOMAIN Tail(rows) /\ Tail(rows)[i - 1] = rows[i]
  BY <1>2, TailFacts
<1>5. Finished = DOMAIN written /\ Finished' = Finished /\ Dumping /\ dump' \in {"what", "done"}
  BY <1>1, <1>3 DEF Finished, Dumping
<1>6. RingInv' /\ BusyInv' /\ Resting' = Resting
  BY <1>1, ReadingKeepsRings
<1>7. Tail(rows) = << >> <=> Len(rows) = 1
  <2>1. Len(Tail(rows)) = Len(rows) - 1
    BY <1>2, <1>4
  <2>2. QED
    BY <2>1, <1>4
<1>8. DumpInv'
  <2>1. written' \in Seq([row : gathered', event : AnyEvent', time : Int])
    BY <1>1, <1>3 DEF TraceInv, DumpInv, AnyEvent, R!NoEvent
  <2>2. gathered' \subseteq Recorders \X R!Slots /\ IsFiniteSet(gathered') /\ summary' \in BOOLEAN
    BY <1>1 DEF TraceInv, DumpInv
  <2>3. rows' \in Seq(gathered') /\ (rows' = << >> <=> dump' \notin {"what", "when"})
    BY <1>1, <1>3, <1>4, <1>7
  <2>4. dump' \in {"idle", "sort", "what", "when", "done"} /\ dump' # "when" /\ Dumping'
    BY <1>5 DEF Dumping
  <2>5. QED
    BY <2>1, <2>2, <2>3, <2>4 DEF DumpInv
<1>9. RowsInv'
  <2>1. \A i, j \in DOMAIN rows' : i # j => rows'[i] # rows'[j]
    <3>1. SUFFICES ASSUME NEW i \in DOMAIN rows', NEW j \in DOMAIN rows', i # j
                   PROVE  rows'[i] # rows'[j]
      OBVIOUS
    <3>2. i + 1 \in DOMAIN rows /\ j + 1 \in DOMAIN rows /\ rows'[i] = rows[i + 1]
          /\ rows'[j] = rows[j + 1] /\ i + 1 # j + 1
      BY <1>3, <1>4, <3>1
    <3>3. QED
      BY <3>2 DEF TraceInv, RowsInv
  <2>2. \A i \in Finished, j \in DOMAIN rows' : written[i].row # rows'[j]
    BY <1>3, <1>4 DEF TraceInv, RowsInv
  <2>3. \A i, j \in DOMAIN written : i # j => written[i].row # written[j].row
    BY DEF TraceInv, RowsInv
  <2>4. QED
    BY <2>1, <2>2, <2>3, <1>3, <1>5 DEF RowsInv
<1>10. TimesInv'
  <2>1. \A row : R!TimeOf(row)' = R!TimeOf(row)
    BY <1>1, ReadingKeepsRings
  <2>2. \A i, j \in DOMAIN rows' : i < j /\ {rows'[i][1], rows'[j][1]} \subseteq Resting =>
          R!TimeOf(rows'[i]) <= R!TimeOf(rows'[j])
    <3>1. SUFFICES ASSUME NEW i \in DOMAIN rows', NEW j \in DOMAIN rows', i < j,
                          {rows'[i][1], rows'[j][1]} \subseteq Resting
                   PROVE  R!TimeOf(rows'[i]) <= R!TimeOf(rows'[j])
      OBVIOUS
    <3>2. i + 1 \in DOMAIN rows /\ j + 1 \in DOMAIN rows /\ rows'[i] = rows[i + 1]
          /\ rows'[j] = rows[j + 1] /\ i + 1 < j + 1
      BY <1>3, <1>4, <3>1
    <3>3. QED
      BY <3>1, <3>2 DEF TraceInv, TimesInv
  <2>3. \A i \in Finished, j \in DOMAIN rows' : {written[i].row[1], rows'[j][1]} \subseteq Resting =>
          written[i].time <= R!TimeOf(rows'[j])
    BY <1>3, <1>4 DEF TraceInv, TimesInv
  <2>4. \A i, j \in Finished : i < j /\ {written[i].row[1], written[j].row[1]} \subseteq Resting =>
          written[i].time <= written[j].time
    BY DEF TraceInv, TimesInv
  <2>5. QED
    BY <2>1, <2>2, <2>3, <2>4, <1>3, <1>5, <1>6 DEF TimesInv
<1>11. WholeInv'
  <2>1. \A t \in Resting : \A n \in R!Dumped(t) : Waits(t, n) => Waits(t, n)'
    <3>1. SUFFICES ASSUME NEW t \in Resting, NEW n \in R!Dumped(t), Waits(t, n) PROVE Waits(t, n)'
      OBVIOUS
    <3>2. PICK j \in DOMAIN rows : rows[j] = <<t, R!Place(n)>>
      BY <3>1 DEF Waits
    <3>3. n \in R!Latest(t) /\ n % 2 = 1 /\ t \in Recorders
      BY DEF R!Dumped, Resting, R!Range, TraceInv, RingInv, RingTypes
    <3>4. j # 1
      <4>1. SUFFICES ASSUME j = 1 PROVE FALSE
        OBVIOUS
      <4>2. rows[1][1] = t
        BY <3>2, <4>1
      <4>3. PICK m \in R!Latest(t) : /\ rows[1] = <<t, R!Place(m)>>
                                     /\ what[rows[1][1]][rows[1][2]] = <<t, m>>
        BY <1>1, <4>2, FirstRow
      <4>4. m = n
        <5>1. R!Place(m) = R!Place(n)
          BY <4>1, <4>3, <3>2
        <5>2. QED
          BY <5>1, <3>3, LatestApart DEF TraceInv, RingInv
      <4>5. m % 2 = 0
        BY <4>3
      <4>6. QED
        BY <4>4, <4>5, <3>3
    <3>5. j - 1 \in DOMAIN rows' /\ rows'[j - 1] = <<t, R!Place(n)>>
      BY <1>3, <1>4, <3>2, <3>4
    <3>6. QED
      BY <3>5 DEF Waits, R!Place
  <2>2. \A t, n : Stands(t, n)' <=> Stands(t, n)
    BY <1>3, <1>5 DEF Stands
  <2>3. \A t : R!Dumped(t)' = R!Dumped(t)
    BY <1>1, ReadingKeepsRings
  <2>4. ASSUME NEW t \in Resting
        PROVE  /\ \A n \in R!Dumped(t) : Waits(t, n) \/ Stands(t, n)
               /\ \A i \in Finished : written[i].row[1] = t => IsOf(t, written[i])
    BY <1>5 DEF TraceInv, WholeInv
  <2>5. \A t \in Resting : \A n \in R!Dumped(t) : Waits(t, n)' \/ Stands(t, n)'
    BY <2>1, <2>2, <2>4
  <2>6. ASSUME NEW t \in Resting, NEW i \in Finished, written[i].row[1] = t
        PROVE  IsOf(t, written[i])'
    <3>1. PICK n \in R!Dumped(t) : /\ written[i].row = <<t, R!Place(n)>> /\ written[i].event = <<t, n>>
                                   /\ written[i].time = stamped[<<t, n>>]
      BY <2>4, <2>6 DEF IsOf
    <3>2. n \in R!Dumped(t)' /\ written' = written /\ stamped' = stamped
      BY <2>3, <1>1, <1>3
    <3>3. QED
      BY <3>1, <3>2 DEF IsOf, R!Place
  <2>7. QED
    BY <2>3, <2>5, <2>6, <1>3, <1>5, <1>6 DEF WholeInv
<1>12. QED
  BY <1>6, <1>8, <1>9, <1>10, <1>11 DEF TraceInv

\* What the event is has been read.
LEMMA ReadWhatKeeps ==
  ASSUME TraceInv, R!ReadWhat, ~(summary /\ what[rows[1][1]][rows[1][2]][2] % 2 = 0)
  PROVE  TraceInv'
<1> DEFINE new == [row |-> rows[1], event |-> what[rows[1][1]][rows[1][2]], time |-> -1]
<1>1. dump = "what" /\ UNCHANGED <<now, buffers, what, when, writeIndex, step, stamped, summary, gathered, busy>>
  BY DEF R!ReadWhat
<1>2. /\ rows \in Seq(gathered) /\ rows # << >> /\ Head(rows) = rows[1] /\ rows[1] \in gathered
      /\ 1 \in DOMAIN rows /\ what[rows[1][1]][rows[1][2]] \in AnyEvent
  BY <1>1, RowsFacts
<1>3. rows' = rows /\ written' = Append(written, new) /\ dump' = "when"
  BY <1>2 DEF R!ReadWhat
<1>4. written \in Seq([row : gathered, event : AnyEvent, time : Int])
  BY DEF TraceInv, DumpInv
<1>5. new \in [row : gathered, event : AnyEvent, time : Int]
  BY <1>2
<1>6. /\ new.row = rows[1] /\ new.event = what[rows[1][1]][rows[1][2]]
  OBVIOUS
<1> HIDE DEF new
<1>7. /\ written' \in Seq([row : gathered, event : AnyEvent, time : Int])
      /\ Len(written) \in Nat /\ DOMAIN written = 1..Len(written)
      /\ DOMAIN written' = 1..Len(written) + 1 /\ written'[Len(written) + 1] = new
      /\ \A i \in DOMAIN written : i \in DOMAIN written' /\ written'[i] = written[i]
      /\ \A i \in DOMAIN written' : i = Len(written) + 1 \/ i \in DOMAIN written
  BY <1>3, <1>4, <1>5, AppendFacts
<1>8. Len(written') = Len(written) + 1 /\ written' # << >>
  BY <1>7
<1>9. Finished = DOMAIN written /\ Finished' = DOMAIN written /\ Dumping /\ Dumping'
  <2>1. Finished = DOMAIN written /\ Dumping /\ Dumping'
    BY <1>1, <1>3 DEF Finished, Dumping
  <2>2. Finished' = {i \in DOMAIN written' : i # Len(written')}
    BY <1>3 DEF Finished
  <2>3. QED
    BY <2>1, <2>2, <1>7, <1>8
<1>10. RingInv' /\ BusyInv' /\ Resting' = Resting
  BY <1>1, ReadingKeepsRings
<1>11. DumpInv'
  <2>1. written' \in Seq([row : gathered', event : AnyEvent', time : Int])
    BY <1>1, <1>7 DEF AnyEvent, R!NoEvent
  <2>2. gathered' \subseteq Recorders \X R!Slots /\ IsFiniteSet(gathered') /\ summary' \in BOOLEAN
    BY <1>1 DEF TraceInv, DumpInv
  <2>3. rows' \in Seq(gathered') /\ (rows' = << >> <=> dump' \notin {"what", "when"})
    BY <1>1, <1>2, <1>3
  <2>4. written'[Len(written')] = new
    BY <1>7, <1>8
  <2>5. /\ new.row = rows'[1] /\ ~(summary' /\ new.event[2] % 2 = 0)
        /\ new.event = what'[rows'[1][1]][rows'[1][2]]
    BY <1>1, <1>3, <1>6
  <2>6. QED
    BY <1>3, <1>8, <1>9, <2>1, <2>2, <2>3, <2>4, <2>5 DEF DumpInv
<1>12. RowsInv'
  <2>1. \A i \in DOMAIN written : written[i].row # new.row
    BY <1>2, <1>6, <1>9 DEF TraceInv, RowsInv
  <2>2. \A i, j \in DOMAIN written' : i # j => written'[i].row # written'[j].row
    <3>1. SUFFICES ASSUME NEW i \in DOMAIN written', NEW j \in DOMAIN written', i # j
                   PROVE  written'[i].row # written'[j].row
      OBVIOUS
    <3>2. CASE i \in DOMAIN written /\ j \in DOMAIN written
      BY <3>1, <3>2, <1>7 DEF TraceInv, RowsInv
    <3>3. CASE i = Len(written) + 1 /\ j \in DOMAIN written
      BY <3>3, <1>7, <2>1
    <3>4. CASE j = Len(written) + 1 /\ i \in DOMAIN written
      BY <3>4, <1>7, <2>1
    <3>5. QED
      BY <3>1, <3>2, <3>3, <3>4, <1>7
  <2>3. \A i \in DOMAIN written, j \in DOMAIN rows : written'[i].row # rows[j]
    BY <1>7, <1>9 DEF TraceInv, RowsInv
  <2>4. \A i, j \in DOMAIN rows : i # j => rows[i] # rows[j]
    BY DEF TraceInv, RowsInv
  <2>5. QED
    BY <1>3, <1>9, <2>2, <2>3, <2>4 DEF RowsInv
<1>13. \A i \in Finished : written'[i] = written[i]
  BY <1>7, <1>9
<1>14. TimesInv'
  <2>1. \A row : R!TimeOf(row)' = R!TimeOf(row)
    BY <1>1, ReadingKeepsRings
  <2>2. \A i, j \in DOMAIN rows : i < j /\ {rows[i][1], rows[j][1]} \subseteq Resting =>
          R!TimeOf(rows[i]) <= R!TimeOf(rows[j])
    BY DEF TraceInv, TimesInv
  <2>3. \A i \in Finished, j \in DOMAIN rows : {written'[i].row[1], rows[j][1]} \subseteq Resting =>
          written'[i].time <= R!TimeOf(rows[j])
    BY <1>13 DEF TraceInv, TimesInv
  <2>4. \A i, j \in Finished : i < j /\ {written'[i].row[1], written'[j].row[1]} \subseteq Resting =>
          written'[i].time <= written'[j].time
    BY <1>13 DEF TraceInv, TimesInv
  <2>5. QED
    BY <2>1, <2>2, <2>3, <2>4, <1>3, <1>9, <1>10 DEF TimesInv
<1>15. WholeInv'
  <2>1. \A t, n : (Waits(t, n)' <=> Waits(t, n)) /\ (Stands(t, n)' <=> Stands(t, n))
    BY <1>3, <1>9, <1>13 DEF Stands, Waits, R!Place
  <2>2. \A t : R!Dumped(t)' = R!Dumped(t)
    BY <1>1, ReadingKeepsRings
  <2>3. ASSUME NEW t \in Resting
        PROVE  /\ \A n \in R!Dumped(t) : Waits(t, n) \/ Stands(t, n)
               /\ \A i \in Finished : written[i].row[1] = t => IsOf(t, written[i])
    BY <1>9 DEF TraceInv, WholeInv
  <2>4. \A t \in Resting : \A n \in R!Dumped(t) : Waits(t, n)' \/ Stands(t, n)'
    BY <2>1, <2>3
  <2>5. ASSUME NEW t \in Resting, NEW i \in Finished, written'[i].row[1] = t
        PROVE  IsOf(t, written[i])'
    <3>1. PICK n \in R!Dumped(t) : /\ written[i].row = <<t, R!Place(n)>> /\ written[i].event = <<t, n>>
                                   /\ written[i].time = stamped[<<t, n>>]
      BY <2>3, <2>5, <1>13 DEF IsOf
    <3>2. n \in R!Dumped(t)' /\ written'[i] = written[i] /\ stamped' = stamped
      BY <2>2, <1>1, <1>13
    <3>3. QED
      BY <3>1, <3>2 DEF IsOf, R!Place
  <2>6. QED
    BY <2>2, <2>4, <2>5, <1>9, <1>10 DEF WholeInv
<1>16. QED
  BY <1>10, <1>11, <1>12, <1>14, <1>15 DEF TraceInv

\* Its time has been read, and the event is written.
LEMMA ReadWhenKeeps ==
  ASSUME TraceInv, R!ReadWhen
  PROVE  TraceInv'
<1> DEFINE k == Len(written)
           Records == [row : gathered, event : AnyEvent, time : Int]
           done == [written[k] EXCEPT !.time = R!TimeOf(rows[1])]
<1>1. dump = "when" /\ UNCHANGED <<now, buffers, what, when, writeIndex, step, stamped, summary, gathered, busy>>
  BY DEF R!ReadWhen
<1>2. /\ rows \in Seq(gathered) /\ rows # << >> /\ Head(rows) = rows[1] /\ rows[1] \in gathered
      /\ 1 \in DOMAIN rows /\ R!TimeOf(rows[1]) \in Nat
  BY <1>1, RowsFacts
<1>3. /\ rows' = Tail(rows) /\ dump' = IF Len(rows) = 1 THEN "done" ELSE "what"
      /\ written' = [written EXCEPT ![k] = done]
  BY <1>2 DEF R!ReadWhen
<1>4. /\ written \in Seq(Records) /\ written # << >> /\ written[k].row = rows[1]
      /\ ~(summary /\ written[k].event[2] % 2 = 0)
      /\ rows[1][1] \in Resting => written[k].event = what[rows[1][1]][rows[1][2]]
  BY <1>1 DEF TraceInv, DumpInv
<1>5. /\ k \in Nat \ {0} /\ DOMAIN written = 1..k /\ k \in DOMAIN written /\ written[k] \in Records
      /\ \A i \in DOMAIN written : written[i] \in Records
  <2> HIDE DEF Records
  <2>1. QED
    BY <1>4, LastFacts
<1>6. done \in Records /\ done.row = rows[1] /\ done.event = written[k].event
      /\ done.time = R!TimeOf(rows[1])
  <2>1. ASSUME NEW A, NEW E, NEW w \in [row : A, event : E, time : Int], NEW x \in Nat
        PROVE  LET d == [w EXCEPT !.time = x]
               IN /\ d \in [row : A, event : E, time : Int] /\ d.row = w.row /\ d.event = w.event
                  /\ d.time = x
    OBVIOUS
  <2>2. QED
    BY <1>2, <1>4, <1>5, <2>1
<1> HIDE DEF done
<1>7. /\ written' \in Seq(Records) /\ DOMAIN written' = DOMAIN written /\ written'[k] = done
      /\ \A i \in DOMAIN written : i # k => written'[i] = written[i]
  <2> HIDE DEF Records
  <2>1. written = [i \in 1..k |-> written[i]]
    BY <1>4
  <2>2. written' \in [1..k -> Records]
    BY <1>3, <1>5, <1>6, <2>1
  <2>3. written' \in Seq(Records) /\ DOMAIN written' = 1..k
    BY <1>5, <2>2
  <2>4. written'[k] = done /\ \A i \in 1..k : i # k => written'[i] = written[i]
    BY <1>3, <1>5, <2>1
  <2>5. QED
    BY <1>5, <2>3, <2>4
<1>8. /\ Tail(rows) \in Seq(gathered) /\ Len(rows) \in Nat \ {0}
      /\ DOMAIN rows = 1..Len(rows) /\ DOMAIN Tail(rows) = 1..Len(rows) - 1
      /\ \A i \in DOMAIN Tail(rows) : i + 1 \in DOMAIN rows /\ Tail(rows)[i] = rows[i + 1]
      /\ \A i \in DOMAIN rows : i # 1 => i - 1 \in DOMAIN Tail(rows) /\ Tail(rows)[i - 1] = rows[i]
  BY <1>2, TailFacts
<1>9. Finished = {i \in DOMAIN written : i # k} /\ Finished' = DOMAIN written /\ Dumping /\ Dumping'
      /\ dump' \in {"what", "done"}
  BY <1>1, <1>3, <1>7 DEF Finished, Dumping
<1>10. RingInv' /\ BusyInv' /\ Resting' = Resting
  BY <1>1, ReadingKeepsRings
<1>11. Tail(rows) = << >> <=> Len(rows) = 1
  <2>1. Len(Tail(rows)) = Len(rows) - 1
    BY <1>2, <1>8
  <2>2. QED
    BY <2>1, <1>8
<1>12. DumpInv'
  <2>1. written' \in Seq([row : gathered', event : AnyEvent', time : Int])
    BY <1>1, <1>7 DEF AnyEvent, R!NoEvent
  <2>2. gathered' \subseteq Recorders \X R!Slots /\ IsFiniteSet(gathered') /\ summary' \in BOOLEAN
    BY <1>1 DEF TraceInv, DumpInv
  <2>3. rows' \in Seq(gathered') /\ (rows' = << >> <=> dump' \notin {"what", "when"})
    BY <1>1, <1>3, <1>8, <1>11
  <2>4. dump' \in {"idle", "sort", "what", "when", "done"} /\ dump' # "when"
    BY <1>9
  <2>5. QED
    BY <1>9, <2>1, <2>2, <2>3, <2>4 DEF DumpInv
<1>13. \A i \in DOMAIN written : written'[i].row = written[i].row
  BY <1>4, <1>6, <1>7
<1>14. RowsInv'
  <2>1. \A i, j \in DOMAIN rows' : i # j => rows'[i] # rows'[j]
    <3>1. SUFFICES ASSUME NEW i \in DOMAIN rows', NEW j \in DOMAIN rows', i # j
                   PROVE  rows'[i] # rows'[j]
      OBVIOUS
    <3>2. i + 1 \in DOMAIN rows /\ j + 1 \in DOMAIN rows /\ rows'[i] = rows[i + 1]
          /\ rows'[j] = rows[j + 1] /\ i + 1 # j + 1
      BY <1>3, <1>8, <3>1
    <3>3. QED
      BY <3>2 DEF TraceInv, RowsInv
  <2>2. \A i \in DOMAIN written, j \in DOMAIN rows' : written'[i].row # rows'[j]
    <3>1. SUFFICES ASSUME NEW i \in DOMAIN written, NEW j \in DOMAIN rows'
                   PROVE  written'[i].row # rows'[j]
      OBVIOUS
    <3>2. j + 1 \in DOMAIN rows /\ rows'[j] = rows[j + 1] /\ j + 1 # 1
      BY <1>3, <1>8
    <3>3. CASE i = k
      BY <3>2, <3>3, <1>2, <1>6, <1>7 DEF TraceInv, RowsInv
    <3>4. CASE i # k
      BY <3>2, <3>4, <1>9, <1>13 DEF TraceInv, RowsInv
    <3>5. QED
      BY <3>3, <3>4
  <2>3. \A i, j \in DOMAIN written : i # j => written'[i].row # written'[j].row
    BY <1>13 DEF TraceInv, RowsInv
  <2>4. QED
    BY <1>7, <1>9, <2>1, <2>2, <2>3 DEF RowsInv
<1>15. TimesInv'
  <2>1. \A row : R!TimeOf(row)' = R!TimeOf(row)
    BY <1>1, ReadingKeepsRings
  <2>2. \A i, j \in DOMAIN rows' : i < j /\ {rows'[i][1], rows'[j][1]} \subseteq Resting =>
          R!TimeOf(rows'[i]) <= R!TimeOf(rows'[j])
    <3>1. SUFFICES ASSUME NEW i \in DOMAIN rows', NEW j \in DOMAIN rows', i < j,
                          {rows'[i][1], rows'[j][1]} \subseteq Resting
                   PROVE  R!TimeOf(rows'[i]) <= R!TimeOf(rows'[j])
      OBVIOUS
    <3>2. i + 1 \in DOMAIN rows /\ j + 1 \in DOMAIN rows /\ rows'[i] = rows[i + 1]
          /\ rows'[j] = rows[j + 1] /\ i + 1 < j + 1
      BY <1>3, <1>8, <3>1
    <3>3. QED
      BY <3>1, <3>2 DEF TraceInv, TimesInv
  <2>3. \A i \in DOMAIN written, j \in DOMAIN rows' :
          {written'[i].row[1], rows'[j][1]} \subseteq Resting =>
            written'[i].time <= R!TimeOf(rows'[j])
    <3>1. SUFFICES ASSUME NEW i \in DOMAIN written, NEW j \in DOMAIN rows',
                          {written'[i].row[1], rows'[j][1]} \subseteq Resting
                   PROVE  written'[i].time <= R!TimeOf(rows'[j])
      OBVIOUS
    <3>2. j + 1 \in DOMAIN rows /\ rows'[j] = rows[j + 1] /\ 1 < j + 1
      BY <1>3, <1>8
    <3>3. CASE i = k
      <4>1. written'[i] = done
        BY <3>3, <1>7
      <4>2. {rows[1][1], rows[j + 1][1]} \subseteq Resting
        BY <3>1, <3>2, <4>1, <1>6
      <4>3. R!TimeOf(rows[1]) <= R!TimeOf(rows[j + 1])
        BY <3>2, <4>2, <1>2 DEF TraceInv, TimesInv
      <4>4. QED
        BY <3>2, <4>1, <4>3, <1>6
    <3>4. CASE i # k
      BY <3>1, <3>2, <3>4, <1>7, <1>9 DEF TraceInv, TimesInv
    <3>5. QED
      BY <3>3, <3>4
  <2>4. \A i, j \in DOMAIN written :
          i < j /\ {written'[i].row[1], written'[j].row[1]} \subseteq Resting =>
            written'[i].time <= written'[j].time
    <3>1. SUFFICES ASSUME NEW i \in DOMAIN written, NEW j \in DOMAIN written, i < j,
                          {written'[i].row[1], written'[j].row[1]} \subseteq Resting
                   PROVE  written'[i].time <= written'[j].time
      OBVIOUS
    <3>2. i \in Finished /\ i # k /\ written'[i] = written[i]
      BY <3>1, <1>5, <1>7, <1>9
    <3>3. CASE j = k
      <4>1. written'[j] = done
        BY <3>3, <1>7
      <4>2. {written[i].row[1], rows[1][1]} \subseteq Resting
        BY <3>1, <3>2, <4>1, <1>6
      <4>3. written[i].time <= R!TimeOf(rows[1])
        BY <3>2, <4>2, <1>2 DEF TraceInv, TimesInv
      <4>4. QED
        BY <3>2, <4>1, <4>3, <1>6
    <3>4. CASE j # k
      BY <3>1, <3>2, <3>4, <1>7, <1>9 DEF TraceInv, TimesInv
    <3>5. QED
      BY <3>3, <3>4
  <2>5. QED
    BY <2>1, <2>2, <2>3, <2>4, <1>9, <1>10 DEF TimesInv
<1>16. WholeInv'
  <2>1. ASSUME rows[1][1] \in Resting PROVE IsOf(rows[1][1], done)
    <3> DEFINE t == rows[1][1]
    <3>1. PICK n \in R!Latest(t) : /\ rows[1] = <<t, R!Place(n)>>
                                   /\ what[t][rows[1][2]] = <<t, n>>
                                   /\ R!TimeOf(rows[1]) = stamped[<<t, n>>]
      BY <1>1, <2>1, FirstRow
    <3>2. done.event = <<t, n>> /\ done.row = rows[1] /\ ~(summary /\ done.event[2] % 2 = 0)
      BY <2>1, <3>1, <1>4, <1>6
    <3>3. n \in Nat \ {0}
      BY <3>1, <2>1, LatestFacts DEF Resting, R!Range, TraceInv, RingInv, RingTypes
    <3>4. ~(summary /\ n % 2 = 0)
      BY <3>2
    <3>5. n \in R!Dumped(t)
      BY <3>3, <3>4 DEF R!Dumped
    <3>6. QED
      BY <3>1, <3>2, <3>5, <1>6 DEF IsOf
  <2>2. \A t : R!Dumped(t)' = R!Dumped(t)
    BY <1>1, ReadingKeepsRings
  <2>3. ASSUME NEW t \in Resting
        PROVE  /\ \A n \in R!Dumped(t) : Waits(t, n) \/ Stands(t, n)
               /\ \A i \in Finished : written[i].row[1] = t => IsOf(t, written[i])
    BY <1>9 DEF TraceInv, WholeInv
  <2>4. ASSUME NEW t \in Resting, NEW i \in DOMAIN written, written'[i].row[1] = t
        PROVE  IsOf(t, written'[i])
    <3>1. CASE i = k
      BY <3>1, <2>1, <2>4, <1>6, <1>7
    <3>2. CASE i # k
      BY <3>2, <2>3, <2>4, <1>7, <1>9
    <3>3. QED
      BY <3>1, <3>2
  <2>5. ASSUME NEW t \in Resting, NEW n \in R!Dumped(t)
        PROVE  Waits(t, n)' \/ Stands(t, n)'
    <3>1. CASE Stands(t, n)
      <4>1. PICK i \in Finished : written[i].event = <<t, n>> /\ written[i].row[1] = t
        BY <3>1 DEF Stands
      <4>2. i \in Finished' /\ written'[i] = written[i]
        BY <4>1, <1>7, <1>9
      <4>3. QED
        BY <4>1, <4>2 DEF Stands
    <3>2. CASE Waits(t, n)
      <4>1. PICK j \in DOMAIN rows : rows[j] = <<t, R!Place(n)>>
        BY <3>2 DEF Waits
      <4>2. CASE j # 1
        <5>1. j - 1 \in DOMAIN rows' /\ rows'[j - 1] = <<t, R!Place(n)>>
          BY <1>3, <1>8, <4>1, <4>2
        <5>2. QED
          BY <5>1 DEF Waits, R!Place
      <4>3. CASE j = 1
        <5>1. rows[1][1] = t /\ IsOf(t, done)
          BY <4>1, <4>3, <2>1
        <5>2. PICK m \in R!Dumped(t) : done.row = <<t, R!Place(m)>> /\ done.event = <<t, m>>
          BY <5>1 DEF IsOf
        <5>3. m \in R!Latest(t) /\ n \in R!Latest(t) /\ t \in Recorders /\ R!Place(m) = R!Place(n)
          BY <4>1, <4>3, <5>2, <1>6 DEF R!Dumped, Resting, R!Range, TraceInv, RingInv, RingTypes
        <5>4. m = n
          BY <5>3, LatestApart DEF TraceInv, RingInv
        <5>5. k \in Finished' /\ written'[k].event = <<t, n>> /\ written'[k].row[1] = t
          BY <1>5, <1>6, <1>7, <1>9, <5>1, <5>2, <5>4
        <5>6. QED
          BY <5>5 DEF Stands
      <4>4. QED
        BY <4>2, <4>3
    <3>3. QED
      BY <2>3, <3>1, <3>2
  <2>6. ASSUME NEW t \in Resting, NEW i \in DOMAIN written, written'[i].row[1] = t
        PROVE  IsOf(t, written[i])'
    <3>1. IsOf(t, written'[i])
      BY <2>4, <2>6
    <3>2. PICK n \in R!Dumped(t) : /\ written'[i].row = <<t, R!Place(n)>>
                                   /\ written'[i].event = <<t, n>>
                                   /\ written'[i].time = stamped[<<t, n>>]
      BY <3>1 DEF IsOf
    <3>3. n \in R!Dumped(t)' /\ stamped' = stamped
      BY <2>2, <1>1
    <3>4. QED
      BY <3>2, <3>3 DEF IsOf, R!Place
  <2>7. QED
    BY <2>2, <2>5, <2>6, <1>9, <1>10 DEF WholeInv
<1>17. QED
  BY <1>10, <1>12, <1>14, <1>15, <1>16 DEF TraceInv

LEMMA TickKeeps ==
  ASSUME TraceInv, R!Tick
  PROVE  TraceInv'
<1>1. now' = now + 1 /\ UNCHANGED <<buffers, what, when, writeIndex, step, stamped, dump, summary,
                                    gathered, rows, written, busy>>
  BY DEF R!Tick
<1>2. Resting' = Resting
  BY <1>1 DEF Resting, R!Range
<1>3. RingInv'
  <2>1. \A u \in Recorders : Complete(u)' = Complete(u) /\ R!Slot(u)' = R!Slot(u)
    BY <1>1 DEF Complete, R!Latest, R!Slot
  <2>2. QED
    BY <1>1, <2>1 DEF TraceInv, RingInv, RingTypes
<1>4. dump # "idle" => \A u \in Recorders : step'[u] # "idle" => u \in busy'
  BY <1>1 DEF TraceInv, BusyInv
<1>5. QED
  BY <1>1, <1>2, <1>3, <1>4, DumpStays DEF TraceInv

LEMMA TraceStep == TraceInv /\ [R!Next]_traceVars => TraceInv'
<1> SUFFICES ASSUME TraceInv, [R!Next]_traceVars PROVE TraceInv'
  OBVIOUS
<1>1. CASE \E t \in Recorders : R!threadBuffer(t) \/ R!record(t)
  BY <1>1, RegisterKeeps, RecordKeeps
<1>2. CASE R!writeJson \/ R!printSummary
  BY <1>2, GatherKeeps DEF R!writeJson, R!printSummary
<1>3. CASE R!Sort
  BY <1>3, SortKeeps
<1>4. CASE R!ReadWhat
  BY <1>4, SkipKeeps, ReadWhatKeeps
<1>5. CASE R!ReadWhen
  BY <1>5, ReadWhenKeeps
<1>6. CASE R!Tick
  BY <1>6, TickKeeps
<1>7. CASE UNCHANGED traceVars
  <2>1. UNCHANGED <<now, buffers, what, when, writeIndex, step, stamped, dump, summary, gathered,
                    rows, written, busy>>
    BY <1>7 DEF traceVars
  <2>2. RingInv' /\ Resting' = Resting
    BY <2>1, ReadingKeepsRings
  <2>3. dump # "idle" => \A u \in Recorders : step'[u] # "idle" => u \in busy'
    BY <2>1 DEF TraceInv, BusyInv
  <2>4. QED
    BY <2>1, <2>2, <2>3, DumpStays DEF TraceInv
<1>8. QED
  BY <1>1, <1>2, <1>3, <1>4, <1>5, <1>6, <1>7 DEF R!Next

LEMMA TraceIsWhole == TraceInv => R!RestingThreadsAreWhole
<1> SUFFICES ASSUME TraceInv, dump = "done", NEW t \in Resting
             PROVE  LET mine == {i \in DOMAIN written : written[i].row[1] = t}
                    IN /\ \A n \in R!Dumped(t) : \E i \in mine : written[i].event = <<t, n>>
                       /\ \A i \in mine : /\ \E n \in R!Dumped(t) : written[i].event = <<t, n>>
                                          /\ written[i].time = stamped[written[i].event]
                       /\ \A i, j \in mine : i < j => /\ written[i].event # written[j].event
                                                     /\ written[i].time <= written[j].time
  BY DEF R!RestingThreadsAreWhole, Resting
<1> DEFINE mine == {i \in DOMAIN written : written[i].row[1] = t}
<1>1. rows = << >> /\ Dumping /\ Finished = DOMAIN written
  BY DEF TraceInv, DumpInv, Dumping, Finished
<1>2. /\ \A n \in R!Dumped(t) : Waits(t, n) \/ Stands(t, n)
      /\ \A i \in Finished : written[i].row[1] = t => IsOf(t, written[i])
  BY <1>1 DEF TraceInv, WholeInv
<1>3. \A n \in R!Dumped(t) : \E i \in mine : written[i].event = <<t, n>>
  <2>1. \A n : ~Waits(t, n)
    BY <1>1 DEF Waits
  <2>2. QED
    BY <1>1, <1>2, <2>1 DEF Stands
<1>4. \A i \in mine : IsOf(t, written[i])
  BY <1>1, <1>2
<1>5. \A i \in mine : /\ \E n \in R!Dumped(t) : written[i].event = <<t, n>>
                      /\ written[i].time = stamped[written[i].event]
  BY <1>4 DEF IsOf
<1>6. ASSUME NEW i \in mine, NEW j \in mine, i < j
      PROVE  written[i].event # written[j].event /\ written[i].time <= written[j].time
  <2>1. PICK m \in R!Dumped(t) : written[i].row = <<t, R!Place(m)>> /\ written[i].event = <<t, m>>
    BY <1>4 DEF IsOf
  <2>2. PICK n \in R!Dumped(t) : written[j].row = <<t, R!Place(n)>> /\ written[j].event = <<t, n>>
    BY <1>4 DEF IsOf
  <2>3. i \in DOMAIN written /\ j \in DOMAIN written /\ i # j /\ DOMAIN written = 1..Len(written)
        /\ Len(written) \in Nat
    BY <1>6 DEF TraceInv, DumpInv
  <2>4. written[i].row # written[j].row
    BY <2>3 DEF TraceInv, RowsInv
  <2>5. m # n
    BY <2>1, <2>2, <2>4
  <2>6. {written[i].row[1], written[j].row[1]} \subseteq Resting
    OBVIOUS
  <2>7. written[i].time <= written[j].time
    BY <1>1, <1>6, <2>3, <2>6 DEF TraceInv, TimesInv
  <2>8. QED
    BY <2>1, <2>2, <2>5, <2>7
<1>7. QED
  BY <1>3, <1>5, <1>6

-----------------------------------------------------------------------------
(* The text displays.                                                      *)

Byte == 0..255
Code == 0..127

\* A stretch of a sequence.
LEMMA SubSeqFacts ==
  ASSUME NEW S, NEW q \in Seq(S), NEW m \in Nat \ {0}, NEW n \in Nat, m <= n + 1, n <= Len(q)
  PROVE  /\ SubSeq(q, m, n) \in Seq(S) /\ Len(SubSeq(q, m, n)) = n - m + 1
         /\ \A i \in 1..n - m + 1 : SubSeq(q, m, n)[i] = q[i + m - 1]
OBVIOUS

\* What is in a sequence of blanks, a text and blanks.
LEMMA OneFacts ==
  ASSUME NEW S
  PROVE  /\ << >> \in Seq(S) /\ Len(<< >>) = 0
         /\ \A x \in S : <<x>> \in Seq(S) /\ Len(<<x>>) = 1
OBVIOUS

LEMMA BetweenFacts ==
  ASSUME NEW S, NEW p \in Seq(S), NEW q \in Seq(S)
  PROVE  p \o q \in Seq(S) /\ Len(p \o q) = Len(p) + Len(q)
OBVIOUS

\* The sizes of the displays.
LEMMA Sizes ==
  ASSUME display \in T!Kinds
  PROVE  /\ T!width \in {2, 8, 17} /\ T!height \in 1..4 /\ T!Unit \in {1, 2}
         /\ T!width * T!Unit \in {2, 16, 17} /\ T!height * T!width * T!Unit \in Nat
         /\ \A row \in 0..T!height - 1 :
              /\ row * T!width * T!Unit \in Nat
              /\ (row + 1) * T!width * T!Unit = row * T!width * T!Unit + T!width * T!Unit
              /\ (row + 1) * T!width * T!Unit <= T!height * T!width * T!Unit
<1>1. CASE display = "KK"
  <2>1. T!width = 8 /\ T!height = 3 /\ T!Unit = 2
    BY <1>1 DEF T!width, T!height, T!Unit
  <2>2. QED
    BY <2>1
<1>2. CASE display = "Seven"
  <2>1. T!width = 2 /\ T!height = 1 /\ T!Unit = 1
    BY <1>2 DEF T!width, T!height, T!Unit
  <2>2. QED
    BY <2>1
<1>3. CASE display = "Generic"
  <2>1. T!width = 17 /\ T!height = 4 /\ T!Unit = 1
    BY <1>3 DEF T!width, T!height, T!Unit
  <2>2. QED
    BY <2>1
<1>4. QED
  BY <1>1, <1>2, <1>3 DEF T!Kinds

\* The bytes of a character.
LEMMA GlyphIsBytes ==
  ASSUME display \in T!Kinds, NEW c \in Code
  PROVE  T!Glyph(c) \in [1..T!Unit -> Byte]
<1>1. CASE display = "KK"
  BY <1>1, FontsAssumption DEF T!Glyph, T!Unit, Code, Byte
<1>2. CASE display = "Seven"
  <2>1. T!toupper(c) \in Code
    BY DEF T!toupper, Code
  <2>2. T!Seven(T!toupper(c)) \in Byte
    BY <2>1, FontsAssumption DEF Code, Byte
  <2>3. QED
    BY <1>2, <2>2 DEF T!Glyph, T!Unit
<1>3. CASE display = "Generic"
  BY <1>3 DEF T!Glyph, T!Unit, Code, Byte
<1>4. QED
  BY <1>1, <1>2, <1>3 DEF T!Kinds

\* The bytes of a text.
LEMMA GlyphsAreBytes ==
  ASSUME display \in T!Kinds, NEW text \in Seq(Code), Len(text) = T!width
  PROVE  T!GlyphsOf(text) \in [1..T!width * T!Unit -> Byte]
<1>1. ASSUME NEW i \in 1..T!width * T!Unit
      PROVE  (i - 1) \div T!Unit + 1 \in 1..T!width /\ ((i - 1) % T!Unit) + 1 \in 1..T!Unit
  <2>1. CASE T!Unit = 1
    BY <2>1, Sizes
  <2>2. CASE T!Unit = 2
    BY <2>2, Sizes
  <2>3. QED
    BY <2>1, <2>2, Sizes
<1>2. ASSUME NEW k \in 1..T!width PROVE T!Glyph(text[k]) \in [1..T!Unit -> Byte]
  <2>1. text[k] \in Code
    BY Sizes
  <2>2. QED
    BY <2>1, GlyphIsBytes
<1>3. \A i \in 1..T!width * T!Unit :
        T!Glyph(text[(i - 1) \div T!Unit + 1])[((i - 1) % T!Unit) + 1] \in Byte
  BY <1>1, <1>2
<1>4. QED
  BY <1>3 DEF T!GlyphsOf

\* Blanks are characters.
LEMMA BlanksFacts ==
  ASSUME NEW n \in Nat
  PROVE  T!Blanks(n) \in Seq(Code) /\ Len(T!Blanks(n)) = n /\ (n = 0 => T!Blanks(n) = << >>)
BY DEF T!Blanks, T!Blank, Code

\* A text that is shown is cut, or has blanks before and behind it as it is aligned.
LEMMA AlignFacts ==
  ASSUME display \in T!Kinds, NEW text \in Seq(Code), NEW align \in T!Alignments
  PROVE  LET visible == SubSeq(text, 1, IF Len(text) < T!width THEN Len(text) ELSE T!width)
         IN /\ T!alignText(text, align) \in Seq(Code) /\ Len(T!alignText(text, align)) = T!width
            /\ \E b \in T!Before(Len(visible), align) :
                 T!alignText(text, align) = T!Blanks(b) \o visible \o T!Blanks(T!width - b - Len(visible))
<1> DEFINE n == Len(text)
           w == T!width
           visible == SubSeq(text, 1, IF n < w THEN n ELSE w)
<1>1. n \in Nat /\ w \in Nat
  BY Sizes
<1>2. CASE n >= w
  <2>1. T!alignText(text, align) = SubSeq(text, 1, w)
    BY <1>1, <1>2 DEF T!alignText
  <2>2. visible = SubSeq(text, 1, w)
    BY <1>1, <1>2
  <2>3. visible \in Seq(Code) /\ Len(visible) = w
    BY <1>1, <1>2, <2>2, SubSeqFacts
  <2>4. 0 \in T!Before(w, align)
    BY <1>1 DEF T!Before, T!Alignments
  <2>5. T!Blanks(0) = << >>
    BY BlanksFacts
  <2> HIDE DEF visible, w
  <2>6. T!Blanks(0) \o visible \o T!Blanks(w - 0 - Len(visible)) = visible
    BY <1>1, <2>3, <2>5
  <2>7. QED
    BY <2>1, <2>2, <2>3, <2>4, <2>6 DEF visible, w, n
<1>3. CASE n < w
  <2>1. visible = text
    BY <1>1, <1>3
  <2> DEFINE b == CASE align = "Right" -> w - n [] align = "Center" -> (w - n) \div 2 [] OTHER -> 0
  <2>2. b \in 0..w - n /\ b \in T!Before(n, align)
    <3>1. CASE align = "Right"
      BY <3>1, <1>1, <1>3 DEF T!Before
    <3>2. CASE align = "Left"
      BY <3>2, <1>1, <1>3 DEF T!Before
    <3>3. CASE align = "Center"
      <4>1. b = (w - n) \div 2 /\ w - n \in Nat
        BY <3>3, <1>1, <1>3
      <4> DEFINE f == w - n
      <4>2. f \div 2 \in 0..f /\ f \div 2 - (f - f \div 2) \in {-1, 0, 1}
        BY <4>1
      <4>3. T!Before(n, align) = {x \in 0..f : x - (w - n - x) \in {-1, 0, 1}}
        BY <3>3 DEF T!Before
      <4>4. QED
        BY <4>1, <4>2, <4>3
    <3>4. QED
      BY <3>1, <3>2, <3>3 DEF T!Alignments
  <2>3. T!alignText(text, align) = T!Blanks(b) \o text \o T!Blanks(w - b - n)
    <3>1. ~(w - n <= 0)
      BY <1>1, <1>3
    <3>2. QED
      BY <3>1 DEF T!alignText, T!filled, T!Alignments
  <2> HIDE DEF b
  <2> HIDE DEF visible, n, w
  <2>4. /\ T!Blanks(b) \in Seq(Code) /\ Len(T!Blanks(b)) = b
        /\ T!Blanks(w - b - n) \in Seq(Code) /\ Len(T!Blanks(w - b - n)) = w - b - n
    <3>1. b \in Nat /\ w - b - n \in Nat
      BY <1>1, <1>3, <2>2
    <3>2. QED
      BY <3>1, BlanksFacts
  <2>5. T!Blanks(b) \o text \in Seq(Code) /\ Len(T!Blanks(b) \o text) = b + n
    BY <2>4, BetweenFacts DEF n
  <2>6. T!alignText(text, align) \in Seq(Code) /\ Len(T!alignText(text, align)) = w
    <3>1. b + n + (w - b - n) = w
      BY <1>1, <2>2
    <3> DEFINE p == T!Blanks(b) \o text
               q == T!Blanks(w - b - n)
    <3>2. p \in Seq(Code) /\ q \in Seq(Code) /\ Len(p) = b + n /\ Len(q) = w - b - n
      BY <2>4, <2>5
    <3>3. T!alignText(text, align) = p \o q
      BY <2>3
    <3> HIDE DEF p, q
    <3>4. p \o q \in Seq(Code) /\ Len(p \o q) = Len(p) + Len(q)
      BY <3>2, BetweenFacts
    <3>5. QED
      BY <3>1, <3>2, <3>3, <3>4
  <2>7. Len(visible) = n
    BY <2>1 DEF n
  <2>8. /\ b \in T!Before(Len(visible), align)
        /\ T!alignText(text, align) = T!Blanks(b) \o visible \o T!Blanks(w - b - Len(visible))
    BY <2>1, <2>2, <2>3, <2>7
  <2>9. QED
    BY <2>6, <2>8 DEF visible, n, w
<1>4. n >= w \/ n < w
  BY <1>1
<1>5. QED
  BY <1>2, <1>3, <1>4

\* A text that is put stands in its row as it is aligned, and nothing else changes.
LEMMA TextOnFacts ==
  ASSUME display \in T!Kinds, NEW d \in [1..T!height * T!width * T!Unit -> Byte],
         NEW text \in Seq(Code), NEW align \in T!Alignments, NEW row \in 0..T!height - 1
  PROVE  LET after == T!TextOn(d, text, row, align)
             start == row * T!width * T!Unit
         IN /\ after \in [1..T!height * T!width * T!Unit -> Byte]
            /\ SubSeq(after, start + 1, (row + 1) * T!width * T!Unit)
                 = T!GlyphsOf(T!alignText(text, align))
            /\ \A i \in DOMAIN after \ T!RowBytes(row) : after[i] = d[i]
<1> DEFINE n == T!height * T!width * T!Unit
           k == T!width * T!Unit
           start == row * T!width * T!Unit
           end == (row + 1) * T!width * T!Unit
           glyphs == T!GlyphsOf(T!alignText(text, align))
           after == T!Write(d, start, glyphs)
<1>1. n \in Nat /\ k \in Nat \ {0} /\ start \in Nat /\ end = start + k /\ end <= n
  BY Sizes
<1>2. glyphs \in [1..k -> Byte]
  BY AlignFacts, GlyphsAreBytes
<1>3. d \in [1..n -> Byte]
  OBVIOUS
<1> HIDE DEF n
<1>4. T!TextOn(d, text, row, align) = after
  BY DEF T!TextOn
<1>5. T!RowBytes(row) = start + 1..end
  BY DEF T!RowBytes
<1> HIDE DEF k, start, end, glyphs
<1>6. /\ after \in [1..n -> Byte]
      /\ \A i \in 1..k : i + start <= n => after[i + start] = glyphs[i]
      /\ \A i \in 1..n : i \notin start + 1..start + k => after[i] = d[i]
  <2>1. n \in Nat /\ k \in Nat /\ start \in Nat /\ d \in [1..n -> Byte]
    BY <1>1, <1>3
  <2>2. after = [i \in 1..n |-> IF i - start \in 1..k THEN glyphs[i - start] ELSE d[i]]
    BY <1>2, <2>1 DEF T!Write
  <2> HIDE DEF after
  <2>3. \A i \in 1..k : i + start <= n => after[i + start] = glyphs[i]
    <3>1. \A i \in 1..k : (i + start) - start = i /\ (i + start <= n => i + start \in 1..n)
      BY <2>1
    <3>2. QED
      BY <2>2, <3>1
  <2>4. \A i \in 1..n : i \notin start + 1..start + k => after[i] = d[i]
    <3>1. \A i \in 1..n : i \notin start + 1..start + k => i - start \notin 1..k
      BY <2>1
    <3>2. QED
      BY <2>2, <3>1
  <2>5. after \in [1..n -> Byte]
    BY <1>2, <2>1, <2>2
  <2>6. QED
    BY <2>3, <2>4, <2>5
<1> HIDE DEF after
<1>7. after \in Seq(Byte) /\ Len(after) = n
  BY <1>1, <1>6
<1>8. SubSeq(after, start + 1, end) = glyphs
  <2>1. /\ SubSeq(after, start + 1, end) \in Seq(Byte) /\ Len(SubSeq(after, start + 1, end)) = k
        /\ \A i \in 1..k : SubSeq(after, start + 1, end)[i] = after[i + (start + 1) - 1]
    <3>1. start + 1 \in Nat \ {0} /\ end \in Nat /\ start + 1 <= end + 1 /\ end <= Len(after)
          /\ end - (start + 1) + 1 = k
      BY <1>1, <1>7
    <3>2. QED
      BY <1>7, <3>1, SubSeqFacts
  <2>2. \A i \in 1..k : SubSeq(after, start + 1, end)[i] = glyphs[i]
    <3>1. \A i \in 1..k : i + (start + 1) - 1 = i + start /\ i + start <= n
      BY <1>1
    <3>2. QED
      BY <1>6, <2>1, <3>1
  <2> DEFINE s == SubSeq(after, start + 1, end)
  <2>3. s = [i \in 1..k |-> s[i]] /\ glyphs = [i \in 1..k |-> glyphs[i]]
    BY <1>2, <2>1
  <2> HIDE DEF s
  <2>4. \A i \in 1..k : s[i] = glyphs[i]
    BY <2>2 DEF s
  <2>5. s = glyphs
    BY <2>3, <2>4
  <2>6. QED
    BY <2>5 DEF s
<1>9. \A i \in DOMAIN after \ T!RowBytes(row) : after[i] = d[i]
  BY <1>1, <1>5, <1>6
<1>10. QED
  BY <1>4, <1>6, <1>8, <1>9 DEF n, start, end, glyphs

-----------------------------------------------------------------------------

\* A digit, and the number of digits.
LEMMA LengthExists ==
  ASSUME NEW m \in Nat, m < 1000 * 1000 * 1000
  PROVE  \E d \in 1..9 : T!Tens[d + 1] > m /\ (d = 1 \/ T!Tens[d] <= m)
<1> DEFINE Good(d) == T!Tens[d + 1] > m /\ (d = 1 \/ T!Tens[d] <= m)
<1>1. /\ T!Tens[2] = 10 /\ T!Tens[3] = 100 /\ T!Tens[4] = 1000 /\ T!Tens[5] = 10 * 1000
      /\ T!Tens[6] = 100 * 1000 /\ T!Tens[7] = 1000 * 1000 /\ T!Tens[8] = 10 * 1000 * 1000
      /\ T!Tens[9] = 100 * 1000 * 1000 /\ T!Tens[10] = 1000 * 1000 * 1000
  BY DEF T!Tens
<1>2. m < 10 => Good(1)
  BY <1>1
<1>3. m >= 10 /\ m < 100 => Good(2)
  BY <1>1
<1>4. m >= 100 /\ m < 1000 => Good(3)
  BY <1>1
<1>5. m >= 1000 /\ m < 10 * 1000 => Good(4)
  BY <1>1
<1>6. m >= 10 * 1000 /\ m < 100 * 1000 => Good(5)
  BY <1>1
<1>7. m >= 100 * 1000 /\ m < 1000 * 1000 => Good(6)
  BY <1>1
<1>8. m >= 1000 * 1000 /\ m < 10 * 1000 * 1000 => Good(7)
  BY <1>1
<1>9. m >= 10 * 1000 * 1000 /\ m < 100 * 1000 * 1000 => Good(8)
  BY <1>1
<1>10. m >= 100 * 1000 * 1000 /\ m < 1000 * 1000 * 1000 => Good(9)
  BY <1>1
<1>11. \E d \in 1..9 : Good(d)
  <2> HIDE DEF Good
  <2>1. Good(1) \/ Good(2) \/ Good(3) \/ Good(4) \/ Good(5) \/ Good(6) \/ Good(7) \/ Good(8) \/ Good(9)
    BY <1>2, <1>3, <1>4, <1>5, <1>6, <1>7, <1>8, <1>9, <1>10
  <2>2. QED
    BY <2>1
<1>12. QED
  BY <1>11

LEMMA DigitsFacts ==
  ASSUME NEW v \in Int, -(1000 * 1000 * 1000) < v, v < 1000 * 1000 * 1000
  PROVE  T!Digits(v) \in Seq(Code) /\ Len(T!Digits(v)) \in Nat \ {0}
<1> DEFINE m == IF v < 0 THEN -v ELSE v
           length == CHOOSE d \in 1..9 : T!Tens[d + 1] > m /\ (d = 1 \/ T!Tens[d] <= m)
           sign == IF v < 0 THEN <<45>> ELSE << >>
           digits == [i \in 1..length |-> 48 + ((m \div T!Tens[length - i + 1]) % 10)]
<1>1. m \in Nat /\ m < 1000 * 1000 * 1000
  OBVIOUS
<1>2. T!Digits(v) = sign \o digits
  BY DEF T!Digits
<1> HIDE DEF m
<1>3. length \in 1..9
  BY <1>1, LengthExists
<1> HIDE DEF length
<1>4. \A k \in 1..10 : T!Tens[k] \in Nat \ {0}
  BY DEF T!Tens
<1>5. ASSUME NEW t \in Nat \ {0} PROVE 48 + ((m \div t) % 10) \in Code
  <2> DEFINE a == m \div t
  <2>1. a \in Nat
    BY <1>1, Division
  <2> HIDE DEF a
  <2>2. a % 10 \in 0..9
    BY <2>1, Division
  <2>3. 48 + (a % 10) \in Code
    BY <2>2 DEF Code
  <2>4. QED
    BY <2>3 DEF a
<1>6. digits \in Seq(Code) /\ Len(digits) = length
  <2>1. \A i \in 1..length : 48 + ((m \div T!Tens[length - i + 1]) % 10) \in Code
    BY <1>3, <1>4, <1>5
  <2>2. QED
    BY <1>3, <2>1
<1>7. sign \in Seq(Code) /\ Len(sign) \in Nat
  <2>1. 45 \in Code
    BY DEF Code
  <2>2. QED
    BY <2>1, OneFacts
<1> HIDE DEF digits, sign
<1>8. QED
  BY <1>2, <1>3, <1>6, <1>7, BetweenFacts

\* The parts of a number that is put have less digits than there are.
LEMMA PartsFacts ==
  ASSUME NEW v \in Sixteenths
  PROVE  /\ T!Digits(T!Integral(v)) \in Seq(Code) /\ Len(T!Digits(T!Integral(v))) \in Nat \ {0}
         /\ \A unit \in {10, 1000} : /\ T!Digits(T!Fraction(v, unit)) \in Seq(Code)
                                    /\ Len(T!Digits(T!Fraction(v, unit))) \in Nat \ {0}
<1> DEFINE big == 1000 * 1000 * 1000
<1>1. v \in Int /\ -big <= v /\ v <= big
  <2>1. T!Tens[10] = big
    BY DEF T!Tens
  <2> HIDE DEF big
  <2>2. v \in Int /\ -big < v /\ v < big
    BY <2>1, TextsAssumption
  <2>3. big \in Int
    BY DEF big
  <2>4. QED
    BY <2>2, <2>3
<1>2. ASSUME NEW a \in Nat, a <= big PROVE a \div 16 \in Nat /\ a \div 16 < big
  <2>1. a \div 16 \in Nat /\ a = 16 * (a \div 16) + (a % 16) /\ a % 16 \in 0..15
    BY Division
  <2>2. QED
    BY <2>1, <1>2
<1>3. T!Integral(v) \in Int /\ -big < T!Integral(v) /\ T!Integral(v) < big
  <2>1. CASE v < 0
    <3>1. -v \in Nat /\ -v <= big
      BY <1>1, <2>1
    <3>2. (-v) \div 16 \in Nat /\ (-v) \div 16 < big
      BY <1>2, <3>1
    <3>3. QED
      BY <2>1, <3>2 DEF T!Integral
  <2>2. CASE ~(v < 0)
    <3>1. v \in Nat
      BY <1>1, <2>2
    <3>2. v \div 16 \in Nat /\ v \div 16 < big
      BY <1>1, <1>2, <3>1
    <3>3. QED
      BY <2>2, <3>2 DEF T!Integral
  <2>3. QED
    BY <2>1, <2>2
<1>4. ASSUME NEW unit \in {10, 1000}
      PROVE  T!Fraction(v, unit) \in Int /\ -big < T!Fraction(v, unit) /\ T!Fraction(v, unit) < big
  <2>1. ASSUME NEW a \in Nat PROVE ((a % 16) * unit) \div 16 \in Nat /\ ((a % 16) * unit) \div 16 < big
    <3>1. a % 16 \in 0..15
      BY Division
    <3>2. (a % 16) * unit \in Nat /\ (a % 16) * unit <= 15 * 1000
      BY <3>1
    <3>3. QED
      BY <1>2, <3>2
  <2>2. CASE v < 0
    <3>1. -v \in Nat
      BY <1>1, <2>2
    <3>2. (((-v) % 16) * unit) \div 16 \in Nat /\ (((-v) % 16) * unit) \div 16 < big
      BY <2>1, <3>1
    <3>3. QED
      BY <2>2, <3>2 DEF T!Fraction
  <2>3. CASE ~(v < 0)
    <3>1. v \in Nat
      BY <1>1, <2>3
    <3>2. ((v % 16) * unit) \div 16 \in Nat /\ ((v % 16) * unit) \div 16 < big
      BY <2>1, <3>1
    <3>3. QED
      BY <2>3, <3>2 DEF T!Fraction
  <2>4. QED
    BY <2>2, <2>3
<1> HIDE DEF big
<1>5. QED
  BY <1>3, <1>4, DigitsFacts DEF big

\* The text of a number is one of characters.
LEMMA NumberIsText ==
  ASSUME NEW v \in Sixteenths
  PROVE  T!NumberText(v) \in Seq(Code)
<1> DEFINE i == T!Digits(T!Integral(v))
           f == T!Digits(T!Fraction(v, 1000))
           g == T!Digits(T!Fraction(v, 10))
           point == IF display = "Generic" THEN <<46>> ELSE << >>
           zeros == [j \in 1..3 - Len(f) |-> 48]
<1>1. i \in Seq(Code) /\ f \in Seq(Code) /\ g \in Seq(Code)
  BY PartsFacts
<1>2. T!NumberText(v) = IF display = "Seven" THEN i \o g ELSE i \o point \o zeros \o f
  BY DEF T!NumberText, T!SevenNumberText
<1>3. point \in Seq(Code)
  <2>1. 46 \in Code
    BY DEF Code
  <2>2. QED
    BY <2>1, OneFacts
<1> HIDE DEF i, f, g, point
<1>4. zeros \in Seq(Code)
  <2>1. CASE Len(f) <= 3
    <3>1. 3 - Len(f) \in Nat
      BY <1>1, <2>1
    <3>2. QED
      BY <3>1 DEF Code
  <2>2. CASE Len(f) > 3
    <3>1. 1..3 - Len(f) = {}
      BY <1>1, <2>2
    <3>2. zeros = << >>
      BY <3>1
    <3> HIDE DEF zeros
    <3>3. QED
      BY <3>2, OneFacts
  <2>3. QED
    BY <1>1, <2>1, <2>2
<1> HIDE DEF zeros
<1>5. i \o point \in Seq(Code)
  BY <1>1, <1>3, BetweenFacts
<1>6. i \o point \o zeros \in Seq(Code)
  BY <1>4, <1>5, BetweenFacts
<1>7. i \o point \o zeros \o f \in Seq(Code) /\ i \o g \in Seq(Code)
  BY <1>1, <1>6, BetweenFacts
<1>8. QED
  BY <1>2, <1>7

-----------------------------------------------------------------------------

\* Bits 0 and 1 of a byte.
LEMMA BitFacts ==
  ASSUME NEW b \in Byte, NEW n \in {0, 1}
  PROVE  /\ T!SetBit(b, n) \in Byte /\ T!ResetBit(b, n) \in Byte
         /\ T!BitOf(T!SetBit(b, n), n) = 1 /\ T!BitOf(T!ResetBit(b, n), n) = 0
<1> USE DEF Byte, T!SetBit, T!ResetBit, T!BitOf, T!Weight
<1>1. CASE n = 0
  <2> DEFINE r == b % 2
             q == b \div 2
  <2>1. b \in Nat
    OBVIOUS
  <2>2. q \in Nat /\ b = 2 * q + r /\ r \in 0..1
    BY <2>1, Division
  <2>3. T!BitOf(b, n) = r
    BY <1>1, <2>1
  <2> HIDE DEF q, r
  <2>4. T!SetBit(b, n) = 2 * q + 1 /\ T!ResetBit(b, n) = 2 * q
    BY <1>1, <2>2, <2>3
  <2>5. (2 * q + 1) % 2 = 1 /\ (2 * q) % 2 = 0
    BY <2>2
  <2>6. T!BitOf(2 * q + 1, n) = 1 /\ T!BitOf(2 * q, n) = 0
    BY <1>1, <2>2, <2>5
  <2>7. QED
    BY <2>2, <2>4, <2>6
<1>2. CASE n = 1
  <2> DEFINE q == b \div 4
             r == b % 4
  <2>1. q \in Nat /\ b = 4 * q + r /\ r \in 0..3
    BY Division
  <2> HIDE DEF q, r
  <2>2. T!BitOf(b, n) = IF r < 2 THEN 0 ELSE 1
    BY <1>2, <2>1
  <2>3. T!SetBit(b, n) = IF r < 2 THEN 4 * q + r + 2 ELSE 4 * q + r
    BY <1>2, <2>1, <2>2
  <2>4. T!ResetBit(b, n) = IF r < 2 THEN 4 * q + r ELSE 4 * q + r - 2
    BY <1>2, <2>1, <2>2
  <2>5. \A x \in 0..1 : T!BitOf(4 * q + x, n) = 0 /\ T!BitOf(4 * q + x + 2, n) = 1
    BY <1>2, <2>1
  <2>6. QED
    BY <2>1, <2>3, <2>4, <2>5
<1>3. QED
  BY <1>1, <1>2

Bytes == [1..T!height * T!width * T!Unit -> Byte]

\* What is written are bytes.
LEMMA WriteIsBytes ==
  ASSUME display \in T!Kinds, NEW d \in Bytes, NEW k \in Nat, NEW s \in [1..k -> Byte],
         NEW index \in Nat
  PROVE  T!Write(d, index, s) \in Bytes
<1> DEFINE n == T!height * T!width * T!Unit
<1>1. n \in Nat
  BY Sizes
<1>2. d \in [1..n -> Byte]
  BY DEF Bytes
<1> HIDE DEF n
<1>3. T!Write(d, index, s) \in [1..n -> Byte]
  BY <1>1, <1>2 DEF T!Write
<1>4. QED
  BY <1>3 DEF n, Bytes

\* The glyphs of a character.
LEMMA FontFacts ==
  ASSUME NEW c \in Code PROVE T!Sixteen(c) \in [1..2 -> Byte] /\ T!Seven(c) \in Byte
BY FontsAssumption DEF Code, Byte

\* The bytes that have the points of the texts: those of KK are in its first row.
Points == IF display = "KK" THEN {2 * n : n \in 1..8} ELSE {}

\* Only points and the row changed since.
PointsOnly(d, row) == \A i \in DOMAIN d \ (T!RowBytes(row) \cup Points) : d[i] = bytes[i]

IsText(op) ==
  /\ op.op \in {"text", "number"} /\ op.text \in Seq(Code) /\ op.align \in T!Alignments
  /\ op.row \in 0..T!height - 1

\* What a display is, and what was put on it last.
TextInv ==
  /\ display \in T!Kinds /\ bytes \in Bytes
  /\ T!TextStandsInItsRow /\ T!PointIsBehindInteger

\* The points: in the upper bytes of the first row of KK, and in each byte of F1.
LEMMA PointsFacts ==
  ASSUME display \in T!Kinds, NEW d \in Bytes, NEW p \in Int, NEW row \in T!TextRows
  PROVE  /\ display = "KK" =>
              LET dotted == T!KKSetDot(T!KKResetDots(d, row), p, row)
              IN /\ dotted \in Bytes
                 /\ \A i \in DOMAIN d \ {2 * n : n \in 1..8} : dotted[i] = d[i]
                 /\ \A n \in 0..6 : T!BitOf(dotted[2 * n + 2], row - 1) = (IF n = p THEN 1 ELSE 0)
         /\ display = "Seven" => T!SevenSetDot(T!SevenResetDots(d), p) \in Bytes
<1>1. ASSUME display = "KK"
      PROVE  LET dotted == T!KKSetDot(T!KKResetDots(d, row), p, row)
             IN /\ dotted \in Bytes
                /\ \A i \in DOMAIN d \ {2 * n : n \in 1..8} : dotted[i] = d[i]
                /\ \A n \in 0..6 : T!BitOf(dotted[2 * n + 2], row - 1) = (IF n = p THEN 1 ELSE 0)
  <2> DEFINE reset == T!KKResetDots(d, row)
             dotted == T!KKSetDot(reset, p, row)
  <2>1. T!width = 8 /\ T!height = 3 /\ T!Unit = 2 /\ row \in 1..2
    BY <1>1 DEF T!width, T!height, T!Unit, T!TextRows
  <2>2. Bytes = [1..48 -> Byte] /\ row - 1 \in {0, 1}
    BY <2>1 DEF Bytes
  <2>3. reset = [i \in 1..48 |-> IF i \in {2 * n : n \in 1..7} THEN T!ResetBit(d[i], row - 1) ELSE d[i]]
    BY <2>2 DEF T!KKResetDots
  <2>4. dotted = IF p \in 0..7 THEN [reset EXCEPT ![2 * p + 2] = T!SetBit(@, row - 1)] ELSE reset
    BY <2>1 DEF T!KKSetDot
  <2> HIDE DEF reset, dotted
  <2>5. \A i \in 1..48 : d[i] \in Byte
    BY <2>2
  <2>6. /\ reset \in [1..48 -> Byte]
        /\ \A i \in 1..48 : i \notin {2 * n : n \in 1..7} => reset[i] = d[i]
        /\ \A n \in 1..7 : T!BitOf(reset[2 * n], row - 1) = 0
    <3>1. \A i \in 1..48 : T!ResetBit(d[i], row - 1) \in Byte
          /\ T!BitOf(T!ResetBit(d[i], row - 1), row - 1) = 0
      BY <2>2, <2>5, BitFacts
    <3>2. \A i \in 1..48 : reset[i] = IF i \in {2 * n : n \in 1..7} THEN T!ResetBit(d[i], row - 1) ELSE d[i]
      BY <2>3
    <3>3. \A n \in 1..7 : 2 * n \in 1..48 /\ 2 * n \in {2 * k : k \in 1..7}
      OBVIOUS
    <3>4. \A n \in 1..7 : T!BitOf(reset[2 * n], row - 1) = 0
      BY <3>1, <3>2, <3>3
    <3>5. \A i \in 1..48 : reset[i] \in Byte
      BY <2>5, <3>1, <3>2
    <3>6. QED
      BY <2>3, <3>2, <3>4, <3>5
  <2>7. CASE p \notin 0..7
    <3>1. dotted = reset
      BY <2>4, <2>7
    <3>2. \A n \in 0..6 : T!BitOf(reset[2 * n + 2], row - 1) = 0 /\ n # p
      <4> SUFFICES ASSUME NEW n \in 0..6 PROVE T!BitOf(reset[2 * n + 2], row - 1) = 0 /\ n # p
        OBVIOUS
      <4>1. n + 1 \in 1..7 /\ 2 * (n + 1) = 2 * n + 2
        OBVIOUS
      <4>2. QED
        BY <2>6, <2>7, <4>1
    <3>3. \A i \in DOMAIN d \ {2 * n : n \in 1..8} : reset[i] = d[i]
      BY <2>2, <2>6
    <3>4. QED
      BY <2>2, <2>6, <3>1, <3>2, <3>3 DEF dotted, reset
  <2>8. CASE p \in 0..7
    <3> DEFINE at == 2 * p + 2
    <3>1. at \in 1..48 /\ at = 2 * (p + 1) /\ p + 1 \in 1..8
      BY <2>8
    <3> HIDE DEF at
    <3>2. dotted = [reset EXCEPT ![at] = T!SetBit(@, row - 1)]
      BY <2>4, <2>8 DEF at
    <3>3. reset[at] \in Byte
      BY <2>6, <3>1
    <3>4. T!SetBit(reset[at], row - 1) \in Byte /\ T!BitOf(T!SetBit(reset[at], row - 1), row - 1) = 1
      BY <2>2, <3>3, BitFacts
    <3>5. /\ dotted \in [1..48 -> Byte] /\ dotted[at] = T!SetBit(reset[at], row - 1)
          /\ \A i \in 1..48 : i # at => dotted[i] = reset[i]
      BY <2>6, <3>1, <3>2, <3>4
    <3>6. \A i \in DOMAIN d \ {2 * n : n \in 1..8} : dotted[i] = d[i]
      <4> SUFFICES ASSUME NEW i \in 1..48, i \notin {2 * n : n \in 1..8} PROVE dotted[i] = d[i]
        BY <2>2
      <4>1. i # at /\ i \notin {2 * n : n \in 1..7}
        BY <3>1
      <4>2. QED
        BY <2>6, <3>5, <4>1
    <3>7. \A n \in 0..6 : T!BitOf(dotted[2 * n + 2], row - 1) = (IF n = p THEN 1 ELSE 0)
      <4> SUFFICES ASSUME NEW n \in 0..6
                   PROVE  T!BitOf(dotted[2 * n + 2], row - 1) = (IF n = p THEN 1 ELSE 0)
        OBVIOUS
      <4>1. CASE n = p
        <5>1. 2 * n + 2 = at
          BY <4>1 DEF at
        <5>2. QED
          BY <3>4, <3>5, <4>1, <5>1
      <4>2. CASE n # p
        <5>1. 2 * n + 2 # at /\ 2 * n + 2 \in 1..48 /\ n + 1 \in 1..7 /\ 2 * (n + 1) = 2 * n + 2
          BY <2>8, <4>2 DEF at
        <5>2. T!BitOf(reset[2 * n + 2], row - 1) = 0
          BY <2>6, <5>1
        <5>3. QED
          BY <3>5, <4>2, <5>1, <5>2
      <4>3. QED
        BY <4>1, <4>2
    <3>8. QED
      BY <2>2, <3>5, <3>6, <3>7 DEF dotted, reset
  <2>9. QED
    BY <2>7, <2>8
<1>2. ASSUME display = "Seven" PROVE T!SevenSetDot(T!SevenResetDots(d), p) \in Bytes
  <2>1. T!width = 2 /\ T!height = 1 /\ T!Unit = 1
    BY <1>2 DEF T!width, T!height, T!Unit
  <2>2. Bytes = [1..2 -> Byte]
    BY <2>1 DEF Bytes
  <2> DEFINE reset == T!SevenResetDots(d)
  <2>3. reset = [i \in 1..2 |-> T!ResetBit(d[i], 0)]
    BY <2>2 DEF T!SevenResetDots
  <2>4. reset \in [1..2 -> Byte]
    <3>1. \A i \in 1..2 : d[i] \in Byte
      BY <2>2
    <3>2. \A i \in 1..2 : T!ResetBit(d[i], 0) \in Byte
      BY <3>1, BitFacts
    <3>3. QED
      BY <2>3, <3>2
  <2>5. T!SevenSetDot(reset, p) = IF p \in 0..1 THEN [reset EXCEPT ![p + 1] = T!SetBit(@, 0)] ELSE reset
    BY <2>1 DEF T!SevenSetDot
  <2> HIDE DEF reset
  <2>6. \A i \in 1..2 : T!SetBit(reset[i], 0) \in Byte
    BY <2>4, BitFacts
  <2>7. CASE p \in 0..1
    <3>1. p + 1 \in 1..2 /\ T!SetBit(reset[p + 1], 0) \in Byte
      BY <2>6, <2>7
    <3>2. QED
      BY <2>2, <2>4, <2>5, <2>7, <3>1 DEF reset
  <2>8. CASE p \notin 0..1
    BY <2>2, <2>4, <2>5, <2>8 DEF reset
  <2>9. QED
    BY <2>7, <2>8
<1>3. QED
  BY <1>1, <1>2

-----------------------------------------------------------------------------

\* A display stays what it is.
LEMMA DisplayStays ==
  ASSUME display' = display
  PROVE  /\ T!width' = T!width /\ T!height' = T!height /\ T!Unit' = T!Unit
         /\ Bytes' = Bytes
BY DEF T!width, T!height, T!Unit, Bytes

LEMMA GlyphsStay ==
  ASSUME display' = display, NEW text PROVE T!GlyphsOf(text)' = T!GlyphsOf(text)
BY DEF T!GlyphsOf, T!Glyph, T!Unit

LEMMA BeforeStays ==
  ASSUME display' = display, NEW n, NEW align PROVE T!Before(n, align)' = T!Before(n, align)
BY DEF T!Before, T!width

LEMMA RowStays ==
  ASSUME display' = display, NEW row PROVE T!RowBytes(row)' = T!RowBytes(row)
BY DEF T!RowBytes, T!width, T!Unit

LEMMA TextInit == T!Init => TextInv
<1> SUFFICES ASSUME T!Init PROVE TextInv
  OBVIOUS
<1>1. display \in T!Kinds /\ put.op = "clear"
  BY DEF T!Init
<1>2. bytes \in Bytes
  BY DEF T!Init, Bytes, Byte
<1>3. QED
  BY <1>1, <1>2 DEF TextInv, T!TextStandsInItsRow, T!PointIsBehindInteger

\* What is no text only has to be bytes.
LEMMA PutKeeps ==
  ASSUME TextInv, NEW op, op.op \in {"clear", "character", "value"}, NEW after \in Bytes, NEW marks,
         T!Put(op, after, marks)
  PROVE  TextInv'
<1>1. display' = display /\ bytes' = after /\ put' = op
  BY DEF T!Put
<1>2. display' \in T!Kinds /\ bytes' \in Bytes'
  BY <1>1, DisplayStays DEF TextInv
<1>3. put'.op \notin {"text", "number"}
  BY <1>1
<1>4. QED
  BY <1>2, <1>3 DEF TextInv, T!TextStandsInItsRow, T!PointIsBehindInteger, T!Kinds

\* The text `vis' stands with `b' blanks before it.
StandsAs(op, after, before, vis, b) ==
  /\ vis = SubSeq(op.text, 1, IF Len(op.text) < T!width THEN Len(op.text) ELSE T!width)
  /\ b \in T!Before(Len(vis), op.align)
  /\ SubSeq(after, op.row * T!width * T!Unit + 1, (op.row + 1) * T!width * T!Unit)
       = T!GlyphsOf(T!Blanks(b) \o vis \o T!Blanks(T!width - b - Len(vis)))
  /\ \A i \in DOMAIN after \ (T!RowBytes(op.row) \cup Points) : after[i] = before[i]

\* A text stands in its row after a step when the bytes then are those of it.
LEMMA StandsThere ==
  ASSUME NEW op, NEW after, NEW before, NEW vis, NEW b, StandsAs(op, after, before, vis, b),
         display' = display, bytes' = after, was' = before, put' = op, op.row \in dirtyRows'
  PROVE  T!TextStandsInItsRow'
<1> USE DEF StandsAs
<1>1. PICK w, u, points, row : w = T!width /\ u = T!Unit /\ points = Points /\ row = T!RowBytes(op.row)
  OBVIOUS
<1>2. T!width' = w /\ T!Unit' = u
  BY <1>1, DisplayStays
<1>3. (IF display' = "KK" THEN {2 * n : n \in 1..8} ELSE {}) = points
  BY <1>1 DEF Points
<1>4. T!Before(Len(vis), put.align)' = T!Before(Len(vis), op.align)
  BY BeforeStays
<1>5. T!RowBytes(put.row)' = row
  BY <1>1, RowStays
<1>6. PICK text : text = T!Blanks(b) \o vis \o T!Blanks(w - b - Len(vis))
  OBVIOUS
<1>7. T!GlyphsOf(text)' = T!GlyphsOf(text)
  BY GlyphsStay
<1>8. vis = SubSeq(put'.text, 1, IF Len(put'.text) < T!width' THEN Len(put'.text) ELSE T!width')
  BY <1>1, <1>2
<1>9. /\ b \in T!Before(Len(vis), put.align)'
      /\ SubSeq(bytes', put'.row * T!width' * T!Unit' + 1, (put'.row + 1) * T!width' * T!Unit')
           = T!GlyphsOf(T!Blanks(b) \o vis \o T!Blanks(T!width - b - Len(vis)))'
  <2>1. text = T!Blanks(b) \o vis \o T!Blanks(T!width' - b - Len(vis))
    BY <1>2, <1>6
  <2>2. T!GlyphsOf(T!Blanks(b) \o vis \o T!Blanks(T!width - b - Len(vis)))' = T!GlyphsOf(text)'
    BY <2>1
  <2>3. QED
    BY <1>1, <1>2, <1>4, <1>6, <1>7, <2>2
<1>10. /\ \A i \in DOMAIN bytes' \ (T!RowBytes(put.row)' \cup points) : bytes'[i] = was'[i]
       /\ put'.row \in dirtyRows'
  BY <1>1, <1>5
<1>11. QED
  BY <1>3, <1>8, <1>9, <1>10 DEF T!TextStandsInItsRow

\* A text stands in its row when the points, at most, changed before.
LEMMA TextKeeps ==
  ASSUME TextInv, NEW op, IsText(op), NEW d \in Bytes, PointsOnly(d, op.row),
         T!Put(op, T!TextOn(d, op.text, op.row, op.align), {op.row})
  PROVE  /\ display' \in T!Kinds /\ bytes' \in Bytes' /\ T!TextStandsInItsRow'
         /\ \A i \in DOMAIN d \ T!RowBytes(op.row) : bytes'[i] = d[i]
<1> DEFINE after == T!TextOn(d, op.text, op.row, op.align)
           w == T!width
           start == op.row * w * T!Unit
           end == (op.row + 1) * w * T!Unit
           visible == SubSeq(op.text, 1, IF Len(op.text) < w THEN Len(op.text) ELSE w)
<1> USE DEF IsText, PointsOnly
<1>1. display' = display /\ bytes' = after /\ put' = op /\ was' = bytes /\ op.row \in dirtyRows'
  BY DEF T!Put
<1>2. display \in T!Kinds /\ bytes \in Bytes
  BY DEF TextInv
<1>3. /\ after \in Bytes
      /\ SubSeq(after, start + 1, end) = T!GlyphsOf(T!alignText(op.text, op.align))
      /\ \A i \in DOMAIN after \ T!RowBytes(op.row) : after[i] = d[i]
  BY <1>2, TextOnFacts DEF Bytes
<1>4. PICK vis : vis = visible
  OBVIOUS
<1>5. PICK b \in T!Before(Len(vis), op.align) :
        T!alignText(op.text, op.align) = T!Blanks(b) \o vis \o T!Blanks(w - b - Len(vis))
  BY <1>2, <1>4, AlignFacts
<1>6. DOMAIN after = DOMAIN d
  BY <1>3 DEF Bytes
<1>7. bytes' \in Bytes'
  BY <1>1, <1>3, DisplayStays
<1>8. \A i \in DOMAIN after \ (T!RowBytes(op.row) \cup Points) : after[i] = bytes[i]
  BY <1>3, <1>6
<1> HIDE DEF after, w
<1>9. PICK later, before : later = after /\ before = bytes
  OBVIOUS
<1>10. T!TextStandsInItsRow'
  <2>1. StandsAs(op, later, before, vis, b)
    BY <1>3, <1>4, <1>5, <1>8, <1>9 DEF StandsAs, w
  <2>2. QED
    BY <1>1, <1>9, <2>1, StandsThere
<1>11. QED
  BY <1>1, <1>2, <1>3, <1>6, <1>7, <1>10

\* A text, or a number that is put without points.
LEMMA PutTextKeeps ==
  ASSUME TextInv, NEW text \in Seq(Code), NEW row \in 0..T!height - 1, NEW align \in T!Alignments,
         T!putText(text, row, align)
  PROVE  TextInv'
<1> DEFINE op == [op |-> "text", row |-> row, text |-> text, align |-> align]
<1>1. T!Put(op, T!TextOn(bytes, op.text, op.row, op.align), {op.row}) /\ put' = op
  BY DEF T!putText, T!Put
<1>2. bytes \in Bytes /\ put'.op = "text"
  BY <1>1 DEF TextInv
<1>3. IsText(op) /\ PointsOnly(bytes, op.row)
  BY DEF IsText, PointsOnly
<1> HIDE DEF op
<1>4. display' \in T!Kinds /\ bytes' \in Bytes' /\ T!TextStandsInItsRow'
  BY <1>1, <1>2, <1>3, TextKeeps
<1>5. T!PointIsBehindInteger'
  BY <1>2 DEF T!PointIsBehindInteger
<1>6. QED
  BY <1>4, <1>5 DEF TextInv

\* Where the point of a number goes.
LEMMA PlaceFacts ==
  ASSUME display \in T!Kinds, NEW v \in Sixteenths
  PROVE  /\ T!DotPlace(v) \in Int
         /\ display = "KK" /\ Len(T!Digits(T!Fraction(v, 1000))) = 3 /\ Len(T!NumberText(v)) <= 8
              => T!DotPlace(v) = (T!width - Len(T!NumberText(v))) \div 2
                                  + Len(T!Digits(T!Integral(v))) - 1
<1> DEFINE integral == T!Digits(T!Integral(v))
           fraction(unit) == T!Digits(T!Fraction(v, unit))
           unit == IF display = "KK" THEN 1000 ELSE 10
           empty == T!width - Len(integral) - Len(fraction(unit))
<1>1. /\ integral \in Seq(Code) /\ Len(integral) \in Nat
      /\ \A u \in {10, 1000} : fraction(u) \in Seq(Code) /\ Len(fraction(u)) \in Nat
  BY PartsFacts
<1>2. T!width \in Nat
  BY Sizes
<1>3. T!DotPlace(v) = IF empty < 0 THEN T!width ELSE Len(integral) - 1 + empty \div 2
  BY DEF T!DotPlace
<1>4. ASSUME display = "KK", Len(fraction(1000)) = 3
      PROVE  Len(T!NumberText(v)) = Len(integral) + 3
  <2> DEFINE zeros == [i \in 1..3 - Len(fraction(1000)) |-> 48]
  <2>1. T!NumberText(v) = integral \o << >> \o zeros \o fraction(1000)
    BY <1>4 DEF T!NumberText
  <2>2. zeros = << >>
    BY <1>4
  <2> HIDE DEF zeros, integral, fraction
  <2>3. integral \o << >> \o << >> \o fraction(1000) = integral \o fraction(1000)
    BY <1>1
  <2>4. Len(integral \o fraction(1000)) = Len(integral) + 3
    <3>0. PICK f, g : f = fraction(1000) /\ g = integral
      OBVIOUS
    <3>1. f \in Seq(Code) /\ Len(f) = 3 /\ g \in Seq(Code)
      BY <1>1, <1>4, <3>0
    <3>2. Len(g \o f) = Len(g) + 3
      BY <3>1, BetweenFacts
    <3>3. QED
      BY <3>0, <3>2
  <2>5. QED
    BY <2>1, <2>2, <2>3, <2>4
<1>5. unit \in {10, 1000} /\ (display = "KK" => unit = 1000 /\ T!width = 8)
  BY DEF T!width
<1> HIDE DEF integral, fraction, unit
<1>6. Len(integral) \in Nat /\ Len(fraction(unit)) \in Nat
  BY <1>1, <1>5
<1>7. T!DotPlace(v) \in Int
  <2>1. empty \in Int
    BY <1>2, <1>6
  <2> HIDE DEF empty
  <2>2. ~(empty < 0) => empty \div 2 \in Nat
    BY <2>1, Division
  <2>3. QED
    BY <1>2, <1>3, <1>6, <2>1, <2>2
<1>8. ASSUME display = "KK", Len(fraction(1000)) = 3, Len(T!NumberText(v)) <= 8
      PROVE  T!DotPlace(v) = (T!width - Len(T!NumberText(v))) \div 2 + Len(integral) - 1
  <2>1. empty = T!width - Len(T!NumberText(v)) /\ ~(empty < 0) /\ empty \in Nat
    <3>1. Len(T!NumberText(v)) = Len(integral) + 3 /\ T!width = 8 /\ unit = 1000
      BY <1>4, <1>5, <1>8
    <3>2. Len(fraction(unit)) = 3
      BY <1>8, <3>1
    <3> DEFINE i == Len(integral)
               x == Len(fraction(unit))
               t == Len(T!NumberText(v))
    <3>3. i \in Nat /\ x = 3 /\ t = i + 3 /\ t <= 8 /\ T!width = 8 /\ empty = T!width - i - x
      BY <1>6, <1>8, <3>1, <3>2
    <3> HIDE DEF i, x, t, empty
    <3>4. empty = T!width - t /\ ~(empty < 0) /\ empty \in Nat
      BY <3>3
    <3>5. QED
      BY <3>4 DEF t
  <2>2. T!DotPlace(v) = Len(integral) - 1 + empty \div 2
    BY <1>3, <2>1
  <2> DEFINE half == empty \div 2
  <2>3. half \in Nat /\ (T!width - Len(T!NumberText(v))) \div 2 = half
    BY <2>1, Division
  <2> HIDE DEF half, empty
  <2>4. Len(integral) - 1 + half = half + Len(integral) - 1
    BY <1>6, <2>3
  <2>5. QED
    BY <2>2, <2>3, <2>4 DEF half
<1>9. QED
  BY <1>7, <1>8 DEF integral, fraction

\* A number: its text stands in its row, and its point behind its integral part.
LEMMA PutNumberKeeps ==
  ASSUME TextInv, NEW v \in Sixteenths, NEW row \in 0..T!height - 1, NEW align \in T!Alignments,
         T!putNumber(v, row, align)
  PROVE  TextInv'
<1> DEFINE text == T!NumberText(v)
           op == [op |-> "number", row |-> row, text |-> text, align |-> align, v |-> v]
           dotted == CASE display = "Generic" -> bytes
                       [] display = "KK" -> T!KKSetDot(T!KKResetDots(bytes, row), T!DotPlace(v), row)
                       [] OTHER -> T!SevenSetDot(T!SevenResetDots(bytes), T!DotPlace(v))
<1>1. /\ T!Put(op, T!TextOn(dotted, op.text, op.row, op.align), {op.row}) /\ put' = op
      /\ row \in T!TextRows
  BY DEF T!putNumber, T!Put
<1>2. display \in T!Kinds /\ bytes \in Bytes /\ display' = display
  BY <1>1 DEF TextInv, T!Put
<1>3. text \in Seq(Code) /\ T!DotPlace(v) \in Int
  BY <1>2, NumberIsText, PlaceFacts
<1>4. /\ display = "Generic" => dotted = bytes
      /\ display = "KK" => dotted = T!KKSetDot(T!KKResetDots(bytes, row), T!DotPlace(v), row)
      /\ display = "Seven" => dotted = T!SevenSetDot(T!SevenResetDots(bytes), T!DotPlace(v))
  OBVIOUS
<1> HIDE DEF text, dotted
<1>5. IsText(op)
  BY <1>3 DEF IsText
<1>6. put'.op = "number" /\ put'.row = row /\ put'.text = text /\ put'.v = v /\ op.row = row
  BY <1>1
<1> HIDE DEF op
<1>7. /\ dotted \in Bytes
      /\ display = "KK" =>
           /\ \A i \in DOMAIN bytes \ {2 * n : n \in 1..8} : dotted[i] = bytes[i]
           /\ \A n \in 0..6 : T!BitOf(dotted[2 * n + 2], row - 1)
                              = (IF n = T!DotPlace(v) THEN 1 ELSE 0)
  <2>1. row \in T!TextRows
    BY <1>1
  <2>2. CASE display = "Generic"
    BY <1>2, <1>4, <2>2
  <2>3. CASE display = "Seven"
    BY <1>2, <1>3, <1>4, <2>1, <2>3, PointsFacts
  <2>4. CASE display = "KK"
    BY <1>2, <1>3, <1>4, <2>1, <2>4, PointsFacts
  <2>5. QED
    BY <1>2, <2>2, <2>3, <2>4 DEF T!Kinds
<1>8. /\ display' \in T!Kinds /\ bytes' \in Bytes' /\ T!TextStandsInItsRow'
      /\ \A i \in DOMAIN dotted \ T!RowBytes(row) : bytes'[i] = dotted[i]
  <2>1. PointsOnly(dotted, row)
    <3>1. DOMAIN dotted = DOMAIN bytes
      BY <1>2, <1>7 DEF Bytes
    <3>2. CASE display = "KK"
      BY <1>7, <3>1, <3>2 DEF PointsOnly, Points
    <3>3. CASE display = "Generic"
      BY <1>4, <3>3 DEF PointsOnly
    <3>4. CASE display = "Seven"
      <4>1. T!width = 2 /\ T!height = 1 /\ T!Unit = 1
        BY <3>4 DEF T!width, T!height, T!Unit
      <4>2. row = 0 /\ DOMAIN dotted = 1..2
        BY <1>7, <4>1 DEF Bytes
      <4>3. T!RowBytes(row) = 1..2
        BY <4>1, <4>2 DEF T!RowBytes
      <4>4. QED
        BY <4>2, <4>3 DEF PointsOnly
    <3>5. QED
      BY <1>2, <3>2, <3>3, <3>4 DEF T!Kinds
  <2>2. QED
    BY <1>1, <1>5, <1>6, <1>7, <2>1, TextKeeps
<1>9. T!PointIsBehindInteger'
  <2> DEFINE integral == Len(T!Digits(T!Integral(v)))
             place == (T!width - Len(text)) \div 2 + integral - 1
  <2>1. ASSUME display = "KK", Len(T!Digits(T!Fraction(v, 1000))) = 3, Len(text) <= 8, NEW n \in 0..6
        PROVE  T!BitOf(bytes'[2 * n + 2], row - 1) = (IF n = place THEN 1 ELSE 0)
    <3>1. T!DotPlace(v) = place
      BY <1>2, <2>1, PlaceFacts DEF text
    <3>2. T!width = 8 /\ T!height = 3 /\ T!Unit = 2 /\ row \in 1..2
      BY <1>1, <2>1 DEF T!width, T!height, T!Unit, T!TextRows
    <3>3. 2 * n + 2 \in DOMAIN dotted
      BY <1>7, <3>2 DEF Bytes
    <3>4. 2 * n + 2 \notin T!RowBytes(row)
      BY <3>2 DEF T!RowBytes
    <3>5. bytes'[2 * n + 2] = dotted[2 * n + 2]
      BY <1>8, <3>3, <3>4
    <3> HIDE DEF place
    <3>6. QED
      BY <1>7, <2>1, <3>1, <3>5
  <2>2. T!width' = T!width
    BY <1>2, DisplayStays
  <2>3. ASSUME display' = "KK", put'.op = "number", put'.align = "Center",
               Len(T!Digits(T!Fraction(put'.v, 1000))) = 3, Len(put'.text) <= 8, NEW n \in 0..6
        PROVE  T!BitOf(bytes'[2 * n + 2], put'.row - 1)
                 = (IF n = (T!width' - Len(put'.text)) \div 2 + Len(T!Digits(T!Integral(put'.v))) - 1
                    THEN 1 ELSE 0)
    BY <1>2, <1>6, <2>1, <2>2, <2>3
  <2>4. QED
    BY <2>3 DEF T!PointIsBehindInteger
<1>10. QED
  BY <1>8, <1>9 DEF TextInv

\* Parts of the bar, glyphs and blanks are bytes.
LEMMA ValueIsBytes ==
  ASSUME display \in T!Kinds, NEW d \in Bytes, NEW row \in 0..T!height - 1, NEW full \in {0, 5, 8}
  PROVE  T!ValueOn(d, row, full) \in Bytes
<1>1. T!height * T!width * T!Unit \in Nat
  BY Sizes
<1>2. CASE display = "KK" /\ row = 0
  <2> DEFINE parts == (2 * full * 9 + 8) \div 16
             part(n) == IF parts >= n THEN 3 ELSE 0
  <2>1. \A n \in Int : part(n) \in {0, 3}
    OBVIOUS
  <2>2. \A n \in Int : part(n) \in Byte
    BY <2>1 DEF Byte
  <2>3. 4 + part(1) \in Byte
    BY <2>1 DEF Byte
  <2>4. T!ValueOn(d, row, full)
          = [i \in DOMAIN d |-> CASE i = 1 -> 4 + part(1)
                                 [] i \in {2 * n - 1 : n \in 2..8} -> part((i + 1) \div 2)
                                 [] i = 16 -> part(9)
                                 [] OTHER -> d[i]]
    BY <1>2 DEF T!ValueOn, T!BarOn
  <2> HIDE DEF part
  <2>5. ASSUME NEW i \in DOMAIN d
        PROVE  (CASE i = 1 -> 4 + part(1)
                  [] i \in {2 * n - 1 : n \in 2..8} -> part((i + 1) \div 2)
                  [] i = 16 -> part(9)
                  [] OTHER -> d[i]) \in Byte
    <3>1. d[i] \in Byte /\ i \in Nat
      BY <1>1 DEF Bytes
    <3>2. i \in {2 * n - 1 : n \in 2..8} => i # 1 /\ i # 16
      OBVIOUS
    <3>3. part((i + 1) \div 2) \in Byte
      <4>1. (i + 1) \div 2 \in Int
        BY <3>1, Division
      <4>2. QED
        BY <2>2, <4>1
    <3>4. part(9) \in Byte
      BY <2>2
    <3>5. CASE i = 1
      BY <2>3, <3>2, <3>5
    <3>6. CASE i \in {2 * n - 1 : n \in 2..8}
      BY <3>2, <3>3, <3>6
    <3>7. CASE i = 16
      BY <3>2, <3>4, <3>7
    <3>8. CASE i # 1 /\ i \notin {2 * n - 1 : n \in 2..8} /\ i # 16
      BY <3>1, <3>8
    <3>9. QED
      BY <3>5, <3>6, <3>7, <3>8
  <2>6. QED
    BY <2>4, <2>5 DEF Bytes
<1>3. CASE display = "KK" /\ row > 0
  <2> DEFINE s == [i \in 1..16 |-> IF i <= 2 * full THEN T!Sixteen(43)[((i - 1) % 2) + 1] ELSE 0]
  <2>1. T!Sixteen(43) \in [1..2 -> Byte]
    <3>1. 43 \in Code
      BY DEF Code
    <3>2. QED
      BY <3>1, FontFacts
  <2>2. \A i \in 1..16 : ((i - 1) % 2) + 1 \in 1..2
    OBVIOUS
  <2>3. s \in [1..16 -> Byte]
    BY <2>1, <2>2 DEF Byte
  <2>4. T!ValueOn(d, row, full) = T!Write(d, row * 16, s)
    BY <1>3 DEF T!ValueOn
  <2> HIDE DEF s
  <2>5. row \in Int /\ row * 16 \in Nat
    BY <1>3, Sizes
  <2>6. QED
    BY <1>1, <2>3, <2>4, <2>5, WriteIsBytes
<1>4. CASE display = "Generic"
  <2>1. T!ValueOn(d, row, full) = T!Write(d, row * 16, T!Blanks(8 - full))
    BY <1>4 DEF T!ValueOn
  <2>2. T!Blanks(8 - full) \in [1..8 - full -> Byte] /\ 8 - full \in Nat
    BY DEF T!Blanks, T!Blank, Byte
  <2>3. row \in Int /\ row * 16 \in Nat
    BY Sizes
  <2>4. QED
    BY <1>1, <2>1, <2>2, <2>3, WriteIsBytes
<1>5. CASE display = "Seven"
  BY <1>5 DEF T!ValueOn
<1>6. QED
  <2>1. row = 0 \/ row > 0
    BY Sizes
  <2>2. QED
    BY <1>2, <1>3, <1>4, <1>5, <2>1 DEF T!Kinds

\* A character.
LEMMA PutCharacterKeeps ==
  ASSUME TextInv, NEW row \in 0..T!height - 1, NEW col \in {0, T!width - 1},
         T!putCharacter(col, row, 65)
  PROVE  TextInv'
<1>1. display \in T!Kinds /\ bytes \in Bytes
  BY DEF TextInv
<1>2. PICK k \in {1, 2} : \E s \in [1..k -> Byte] : T!PutCharacter(col, row, s)
  <2>1. T!Sixteen(65) \in [1..2 -> Byte] /\ T!Seven(65) \in Byte /\ 65 \in Byte
    <3>1. 65 \in Code /\ 65 \in Byte
      BY DEF Code, Byte
    <3>2. QED
      BY <3>1, FontFacts
  <2>2. <<T!Seven(65)>> \in [1..1 -> Byte] /\ <<65>> \in [1..1 -> Byte]
    BY <2>1
  <2>3. QED
    BY <2>1, <2>2
       DEF T!putCharacter, T!KKPutCharacter, T!GenericPutCharacter, T!SevenPutCharacter
<1>3. PICK s \in [1..k -> Byte] : T!PutCharacter(col, row, s)
  BY <1>2
<1> DEFINE index == row * T!width * T!Unit + col
           after == T!Write(bytes, index, s)
           op == [op |-> "character", row |-> row]
<1>4. index \in Nat /\ T!height * T!width * T!Unit \in Nat
  <2>1. row * T!width * T!Unit \in Nat /\ col \in Nat /\ T!height * T!width * T!Unit \in Nat
    BY <1>1, Sizes
  <2>2. QED
    BY <2>1
<1>5. T!Put(op, after, {row})
  BY <1>3 DEF T!PutCharacter
<1> HIDE DEF index
<1>6. after \in Bytes
  BY <1>1, <1>4, WriteIsBytes
<1>7. op.op \in {"clear", "character", "value"}
  OBVIOUS
<1> HIDE DEF op, after
<1>8. QED
  BY <1>5, <1>6, <1>7, PutKeeps

LEMMA TextStep == TextInv /\ [T!Next]_textVars => TextInv'
<1> SUFFICES ASSUME TextInv, [T!Next]_textVars PROVE TextInv'
  OBVIOUS
<1>1. display \in T!Kinds /\ bytes \in Bytes
  BY DEF TextInv
<1>2. ASSUME T!clear PROVE TextInv'
  <2> DEFINE after == [i \in DOMAIN bytes |-> IF display = "Generic" THEN 32 ELSE 0]
             op == [op |-> "clear"]
  <2>1. after \in Bytes
    BY <1>1 DEF Bytes, Byte
  <2>2. T!Put(op, after, 0..T!height - 1) /\ op.op \in {"clear", "character", "value"}
    BY <1>2 DEF T!clear
  <2> HIDE DEF op, after
  <2>3. QED
    BY <2>1, <2>2, PutKeeps
<1>3. ASSUME NEW row \in 0..T!height - 1, NEW align \in T!Alignments, NEW text \in Texts,
             T!putText(text, row, align)
      PROVE  TextInv'
  <2>1. text \in Seq(Code)
    BY TextsAssumption DEF Code
  <2>2. QED
    BY <1>3, <2>1, PutTextKeeps
<1>4. ASSUME NEW row \in 0..T!height - 1, NEW align \in T!Alignments, NEW v \in Sixteenths,
             T!putInteger(T!Integral(v), row, align)
      PROVE  TextInv'
  <2>1. T!Digits(T!Integral(v)) \in Seq(Code)
    BY PartsFacts
  <2>2. QED
    BY <1>4, <2>1, PutTextKeeps DEF T!putInteger
<1>5. ASSUME NEW row \in 0..T!height - 1, NEW align \in T!Alignments, NEW v \in Sixteenths,
             T!putNumber(v, row, align)
      PROVE  TextInv'
  BY <1>5, PutNumberKeeps
<1>6. ASSUME NEW row \in 0..T!height - 1, NEW col \in {0, T!width - 1}, T!putCharacter(col, row, 65)
      PROVE  TextInv'
  BY <1>6, PutCharacterKeeps
<1>7. ASSUME NEW row \in 0..T!height - 1, NEW full \in {0, 5, 8}, T!putValue(full, row)
      PROVE  TextInv'
  <2> DEFINE op == [op |-> "value", row |-> row]
             after == T!ValueOn(bytes, row, full)
  <2>1. after \in Bytes
    BY <1>1, ValueIsBytes
  <2>2. T!Put(op, after, {row}) /\ op.op \in {"clear", "character", "value"}
    BY <1>7 DEF T!putValue
  <2> HIDE DEF op, after
  <2>3. QED
    BY <2>1, <2>2, PutKeeps
<1>8. ASSUME T!resetDirtyFlags PROVE TextInv'
  <2>1. display' = display /\ bytes' = bytes /\ put'.op = "sent"
    BY <1>8 DEF T!resetDirtyFlags
  <2>2. QED
    BY <1>1, <2>1, DisplayStays DEF TextInv, T!TextStandsInItsRow, T!PointIsBehindInteger
<1>9. ASSUME UNCHANGED textVars PROVE TextInv'
  <2>0. display' = display /\ bytes' = bytes /\ put' = put /\ was' = was /\ dirtyRows' = dirtyRows
    BY <1>9 DEF textVars
  <2>1. display' \in T!Kinds /\ bytes' \in Bytes'
    BY <1>1, <2>0, DisplayStays
  <2>2. T!TextStandsInItsRow'
    <3>1. CASE put.op \in {"text", "number"}
      <4>1. PICK p, after, before, vis : 
              /\ p = put /\ after = bytes /\ before = was
              /\ vis = SubSeq(put.text, 1, IF Len(put.text) < T!width THEN Len(put.text) ELSE T!width)
        OBVIOUS
      <4>2. /\ p.row \in dirtyRows
            /\ \A i \in DOMAIN after \ (T!RowBytes(p.row) \cup Points) : after[i] = before[i]
        BY <3>1, <4>1 DEF TextInv, T!TextStandsInItsRow, Points
      <4>3. PICK b \in T!Before(Len(vis), p.align) :
              SubSeq(after, p.row * T!width * T!Unit + 1, (p.row + 1) * T!width * T!Unit)
                = T!GlyphsOf(T!Blanks(b) \o vis \o T!Blanks(T!width - b - Len(vis)))
        BY <3>1, <4>1 DEF TextInv, T!TextStandsInItsRow
      <4>4. StandsAs(p, after, before, vis, b)
        BY <4>1, <4>2, <4>3 DEF StandsAs
      <4>5. QED
        BY <2>0, <4>1, <4>2, <4>4, StandsThere
    <3>2. CASE put.op \notin {"text", "number"}
      BY <2>0, <3>2 DEF T!TextStandsInItsRow
    <3>3. QED
      BY <3>1, <3>2
  <2>3. T!PointIsBehindInteger'
    <3>1. T!width' = T!width
      BY <2>0, DisplayStays
    <3>2. QED
      BY <2>0, <3>1 DEF TextInv, T!PointIsBehindInteger
  <2>4. QED
    BY <2>1, <2>2, <2>3 DEF TextInv
<1>10. QED
  BY <1>2, <1>3, <1>4, <1>5, <1>6, <1>7, <1>8, <1>9 DEF T!Next

\* What stands there is bytes.
LEMMA TextIsShown == TextInv => T!TextsAreShown
<1> SUFFICES ASSUME TextInv PROVE T!TextsAreShown
  OBVIOUS
<1>1. \A i \in DOMAIN bytes : bytes[i] \in 0..255
  BY DEF TextInv, Bytes, Byte
<1>2. QED
  BY <1>1 DEF TextInv, T!TextsAreShown, T!BytesAreBytes

-----------------------------------------------------------------------------

-----------------------------------------------------------------------------
(* The displays: the bits of a point, and what is stored there.            *)

\* A number is a multiple and a rest in one way only.
LEMMA OneWay ==
  ASSUME NEW k \in Nat \ {0}, NEW a \in Int, NEW b \in Int, NEW r \in 0..k - 1, NEW s \in 0..k - 1,
         k * a + r = k * b + s
  PROVE  a = b /\ r = s
<1>1. ASSUME NEW x \in Int, x > 0 PROVE k * x >= k
  BY <1>1
<1>2. k * (a - b) = s - r /\ k * (b - a) = r - s
  OBVIOUS
<1>3. ~(a - b > 0) /\ ~(b - a > 0)
  BY <1>1, <1>2
<1>4. QED
  BY <1>3

\* The whole bytes of a point that has `n' of them, in rows of k points.
LEMMA BytesApart ==
  ASSUME NEW n \in 1..3, NEW k \in Nat \ {0}, NEW x \in 0..k - 1, NEW u \in 0..k - 1,
         NEW y \in Nat, NEW v \in Nat, <<x, y>> # <<u, v>>
  PROVE  D!Bytes(n * (k * y + x), n) \cap D!Bytes(n * (k * v + u), n) = {}
<1> DEFINE a == k * y + x
           c == k * v + u
<1>1. a \in Nat /\ c \in Nat
  OBVIOUS
<1>2. a # c
  BY OneWay
<1> HIDE DEF a, c
<1>3. \A b \in Int : ~(b \in n * a..n * a + n - 1 /\ b \in n * c..n * c + n - 1)
  <2>1. CASE n = 1
    BY <1>1, <1>2, <2>1
  <2>2. CASE n = 2
    BY <1>1, <1>2, <2>2
  <2>3. CASE n = 3
    BY <1>1, <1>2, <2>3
  <2>4. QED
    BY <2>1, <2>2, <2>3
<1>4. QED
  BY <1>1, <1>3 DEF D!Bytes, a, c

\* ... and within the buffer.
LEMMA BytesWithin ==
  ASSUME NEW n \in 1..3, NEW k \in Nat \ {0}, NEW h \in Nat, NEW x \in 0..k - 1, NEW y \in 0..h - 1
  PROVE  \A b \in D!Bytes(n * (k * y + x), n) : b[1] \in 0..n * (k * h) - 1 /\ b[2] \in 0..7
<1>1. k * y + x \in Nat /\ k * h \in Nat /\ k * y + x + 1 <= k * h
  <2>1. k * y \in Nat /\ k * h \in Nat
    OBVIOUS
  <2>2. k * y + k <= k * h
    <3>1. k * (y + 1) = k * y + k
      OBVIOUS
    <3>2. ASSUME NEW z \in Nat PROVE k * z >= 0
      OBVIOUS
    <3>3. k * (h - (y + 1)) >= 0
      BY <3>2
    <3>4. k * (h - (y + 1)) = k * h - k * (y + 1)
      OBVIOUS
    <3>5. QED
      BY <2>1, <3>1, <3>3, <3>4
  <2>3. QED
    BY <2>1, <2>2
<1> DEFINE a == k * y + x
           c == k * h
<1>2. a \in Nat /\ c \in Nat /\ a + 1 <= c
  BY <1>1
<1> HIDE DEF a, c
<1>3. \A b \in Int : b \in n * a..n * a + n - 1 => b \in 0..n * c - 1
  <2>1. CASE n = 1
    BY <1>2, <2>1
  <2>2. CASE n = 2
    BY <1>2, <2>2
  <2>3. CASE n = 3
    BY <1>2, <2>3
  <2>4. QED
    BY <2>1, <2>2, <2>3
<1>4. n * a..n * a + n - 1 \subseteq Int
  OBVIOUS
<1>5. QED
  BY <1>3, <1>4 DEF D!Bytes, a, c

PointsOf(kind) == (0..D!Geometry[kind].W - 1) \X (0..D!Geometry[kind].H - 1)

\* A point of a display of w times h points.
LEMMA PointIs ==
  ASSUME NEW kind, NEW p \in PointsOf(kind)
  PROVE  /\ p = <<p[1], p[2]>>
         /\ p[1] \in 0..D!Geometry[kind].W - 1 /\ p[2] \in 0..D!Geometry[kind].H - 1
BY DEF PointsOf

\* Canvas and DynamicCanvas, Push 2 and the Jam: whole bytes.
LEMMA WholeBytes ==
  ASSUME NEW kind \in {"Plain", "Push2", "Jam"}, NEW p \in PointsOf(kind)
  PROVE  LET g == D!Geometry[kind]
             n == CASE kind = "Plain" -> 3 [] kind = "Push2" -> 2 [] kind = "Jam" -> 1
             k == CASE kind = "Plain" -> 16 [] kind = "Push2" -> 1024 [] kind = "Jam" -> 8
         IN /\ D!Bits(kind, p[1], p[2]) = D!Bytes(n * (k * p[2] + p[1]), n)
            /\ g.size = n * (k * g.H) /\ g.W <= k /\ g.H \in Nat
            /\ p = <<p[1], p[2]>> /\ p[1] \in 0..g.W - 1 /\ p[2] \in 0..g.H - 1
<1>0. p = <<p[1], p[2]>> /\ p[1] \in 0..D!Geometry[kind].W - 1 /\ p[2] \in 0..D!Geometry[kind].H - 1
  BY DEF PointsOf
<1>1. CASE kind = "Plain"
  <2>1. D!Geometry["Plain"] = [W |-> 16, H |-> 5, size |-> 3 * 16 * 5, chunks |-> 1]
    BY DEF D!Geometry
  <2>2. D!canvasWidthInBytes(D!Geometry["Plain"]) = 48
    BY <2>1 DEF D!canvasWidthInBytes
  <2>3. 48 * p[2] + 3 * p[1] = 3 * (16 * p[2] + p[1])
    BY <1>0, <1>1, <2>1
  <2>4. QED
    BY <1>0, <1>1, <2>1, <2>2, <2>3 DEF D!Bits, D!PlainBits
<1>2. CASE kind = "Push2"
  <2>1. D!Geometry["Push2"] = [W |-> 960, H |-> 160, size |-> 1024 * 160 * 2, chunks |-> 1]
    BY DEF D!Geometry
  <2>2. D!canvasWidthInBytes(D!Geometry["Push2"]) = 2048
    BY <2>1 DEF D!canvasWidthInBytes
  <2>3. 2048 * p[2] + 2 * p[1] = 2 * (1024 * p[2] + p[1])
    BY <1>0, <1>2, <2>1
  <2>4. QED
    BY <1>0, <1>2, <2>1, <2>2, <2>3 DEF D!Bits, D!Push2Bits
<1>3. CASE kind = "Jam"
  <2>1. D!Geometry["Jam"] = [W |-> 8, H |-> 8, size |-> 64, chunks |-> 1]
    BY DEF D!Geometry
  <2>2. p[1] + 8 * p[2] = 1 * (8 * p[2] + p[1])
    BY <1>0, <1>3, <2>1
  <2>3. QED
    BY <1>0, <1>3, <2>1, <2>2 DEF D!Bits, D!JamBits
<1>4. QED
  BY <1>1, <1>2, <1>3

\* Points of whole bytes have bytes of their own.
LEMMA WholeBytesApart ==
  ASSUME NEW kind \in {"Plain", "Push2", "Jam"}, NEW p \in PointsOf(kind), NEW q \in PointsOf(kind)
  PROVE  D!PointsAreApart(kind, p, q)
<1> DEFINE g == D!Geometry[kind]
           n == CASE kind = "Plain" -> 3 [] kind = "Push2" -> 2 [] kind = "Jam" -> 1
           k == CASE kind = "Plain" -> 16 [] kind = "Push2" -> 1024 [] kind = "Jam" -> 8
<1>1. n \in 1..3 /\ k \in Nat \ {0}
  OBVIOUS
<1>2. /\ D!Bits(kind, p[1], p[2]) = D!Bytes(n * (k * p[2] + p[1]), n)
      /\ D!Bits(kind, q[1], q[2]) = D!Bytes(n * (k * q[2] + q[1]), n)
      /\ g.size = n * (k * g.H) /\ g.W <= k /\ g.H \in Nat
      /\ p = <<p[1], p[2]>> /\ p[1] \in 0..g.W - 1 /\ p[2] \in 0..g.H - 1
      /\ q = <<q[1], q[2]>> /\ q[1] \in 0..g.W - 1 /\ q[2] \in 0..g.H - 1
  BY WholeBytes
<1>3. g.W \in Nat
  BY DEF D!Geometry
<1> HIDE DEF n, k, g
<1>4. p[1] \in 0..k - 1 /\ q[1] \in 0..k - 1 /\ p[2] \in Nat /\ q[2] \in Nat
  BY <1>1, <1>2, <1>3
<1>5. \A b \in D!Bits(kind, p[1], p[2]) : b[1] \in 0..g.size - 1 /\ b[2] \in 0..7
  BY <1>1, <1>2, <1>4, BytesWithin
<1>6. p # q => D!Bits(kind, p[1], p[2]) \cap D!Bits(kind, q[1], q[2]) = {}
  <2> SUFFICES ASSUME p # q PROVE D!Bits(kind, p[1], p[2]) \cap D!Bits(kind, q[1], q[2]) = {}
    OBVIOUS
  <2>1. <<p[1], p[2]>> # <<q[1], q[2]>>
    BY <1>2, SMTT(60)
  <2>2. QED
    BY <1>1, <1>2, <1>4, <2>1, BytesApart
<1>7. QED
  BY <1>5, <1>6 DEF D!PointsAreApart, g

\* MK1: three points in two bytes, of which each row has 85 pairs.
Pair(y, a) == 85 * y + a

\* A point of the MK1 is the first, the second or the third of its pair of bytes.
LEMMA ThirdFacts ==
  ASSUME NEW x \in 0..254, NEW y \in 0..63
  PROVE  \E a \in 0..84, r \in 0..2 :
           /\ x = 3 * a + r /\ 0 <= Pair(y, a) /\ Pair(y, a) < 85 * 64
           /\ \A b \in D!Bits("MK1", x, y) :
                /\ b[1] \in Int /\ b[2] \in 0..7
                /\ r = 0 => b[1] = 2 * Pair(y, a) /\ b[2] >= 3
                /\ r = 1 => (b[1] = 2 * Pair(y, a) /\ b[2] < 3) \/ (b[1] = 2 * Pair(y, a) + 1 /\ b[2] > 5)
                /\ r = 2 => b[1] = 2 * Pair(y, a) + 1 /\ b[2] < 5
<1> DEFINE a == x \div 3
           r == x % 3
           first == 170 * y + a * 2
<1>1. a \in 0..84 /\ r \in 0..2 /\ x = 3 * a + r
  <2>1. a \in Nat /\ x = 3 * a + r /\ r \in 0..2
    BY Division
  <2> HIDE DEF a, r
  <2>2. QED
    BY <2>1
<1>2. D!Bits("MK1", x, y) =
        CASE r = 0 -> {first} \X (3..7)
          [] r = 1 -> ({first} \X (0..2)) \cup ({first + 1} \X (6..7))
          [] r = 2 -> {first + 1} \X (0..4)
  <2>1. D!Geometry["MK1"] = [W |-> 255, H |-> 64, size |-> 10880, chunks |-> 22]
    BY DEF D!Geometry
  <2>2. D!canvasWidthInBytes(D!Geometry["MK1"]) = 170
    BY <2>1 DEF D!canvasWidthInBytes
  <2>3. QED
    BY <2>2 DEF D!Bits, D!MK1Bits
<1> HIDE DEF a, r
<1>3. 0 <= Pair(y, a) /\ Pair(y, a) < 85 * 64 /\ first = 2 * Pair(y, a) /\ Pair(y, a) \in Int
  BY <1>1 DEF Pair
<1> HIDE DEF first
<1>4. \A b \in D!Bits("MK1", x, y) :
        /\ b[1] \in Int /\ b[2] \in 0..7
        /\ r = 0 => b[1] = first /\ b[2] >= 3
        /\ r = 1 => (b[1] = first /\ b[2] < 3) \/ (b[1] = first + 1 /\ b[2] > 5)
        /\ r = 2 => b[1] = first + 1 /\ b[2] < 5
  <2>0. first \in Int
    BY <1>3
  <2>1. CASE r = 0
    BY <1>2, <2>0, <2>1
  <2>2. CASE r = 1
    BY <1>2, <2>0, <2>2
  <2>3. CASE r = 2
    BY <1>2, <2>0, <2>3, SMTT(60)
  <2>4. QED
    BY <1>1, <2>1, <2>2, <2>3
<1>5. QED
  BY <1>1, <1>3, <1>4

\* No two points of the MK1 share a bit ...
LEMMA ThirdsApart ==
  ASSUME NEW p \in PointsOf("MK1"), NEW q \in PointsOf("MK1")
  PROVE  D!PointsAreApart("MK1", p, q)
<1>1. D!Geometry["MK1"] = [W |-> 255, H |-> 64, size |-> 2 * 85 * 64, chunks |-> 22]
  BY DEF D!Geometry
<1>1b. D!Geometry["MK1"].W - 1 = 254 /\ D!Geometry["MK1"].H - 1 = 63
  BY <1>1
<1>1c. \A o \in {p, q} : o[1] \in 0..254 /\ o[2] \in 0..63 /\ o = <<o[1], o[2]>>
  BY <1>1b, PointIs
<1>2. PICK x \in 0..254, y \in 0..63 : p = <<x, y>>
  BY <1>1c, Zenon
<1>3. PICK u \in 0..254, v \in 0..63 : q = <<u, v>>
  BY <1>1c, ZenonT(60)
<1>4. PICK a \in 0..84, r \in 0..2 :
           /\ x = 3 * a + r /\ 0 <= Pair(y, a) /\ Pair(y, a) < 85 * 64
           /\ \A b \in D!Bits("MK1", x, y) :
                /\ b[1] \in Int /\ b[2] \in 0..7
                /\ r = 0 => b[1] = 2 * Pair(y, a) /\ b[2] >= 3
                /\ r = 1 => (b[1] = 2 * Pair(y, a) /\ b[2] < 3) \/ (b[1] = 2 * Pair(y, a) + 1 /\ b[2] > 5)
                /\ r = 2 => b[1] = 2 * Pair(y, a) + 1 /\ b[2] < 5
  BY ThirdFacts, ZenonT(60)
<1>5. PICK c \in 0..84, s \in 0..2 :
           /\ u = 3 * c + s /\ 0 <= Pair(v, c) /\ Pair(v, c) < 85 * 64
           /\ \A b \in D!Bits("MK1", u, v) :
                /\ b[1] \in Int /\ b[2] \in 0..7
                /\ s = 0 => b[1] = 2 * Pair(v, c) /\ b[2] >= 3
                /\ s = 1 => (b[1] = 2 * Pair(v, c) /\ b[2] < 3) \/ (b[1] = 2 * Pair(v, c) + 1 /\ b[2] > 5)
                /\ s = 2 => b[1] = 2 * Pair(v, c) + 1 /\ b[2] < 5
  BY ThirdFacts, ZenonT(60)
<1>6. Pair(y, a) \in Int /\ Pair(v, c) \in Int /\ (Pair(y, a) = Pair(v, c) => y = v /\ a = c)
  BY DEF Pair
<1>7. \A b \in D!Bits("MK1", x, y) : b[1] \in 0..2 * 85 * 64 - 1 /\ b[2] \in 0..7
  <2> SUFFICES ASSUME NEW b \in D!Bits("MK1", x, y) PROVE b[1] \in 0..2 * 85 * 64 - 1 /\ b[2] \in 0..7
    OBVIOUS
  <2>1. b[1] \in Int /\ (b[1] = 2 * Pair(y, a) \/ b[1] = 2 * Pair(y, a) + 1) /\ b[2] \in 0..7
    BY <1>4
  <2>2. PICK i \in Int : i = Pair(y, a)
    BY <1>6
  <2>3. 0 <= i /\ i < 85 * 64 /\ (b[1] = 2 * i \/ b[1] = 2 * i + 1)
    BY <1>4, <2>1, <2>2
  <2>4. PICK m \in Nat : m = 85 * 64
    OBVIOUS
  <2>5. b[1] \in 0..2 * m - 1
    <3>1. i < m
      BY <2>3, <2>4
    <3>2. QED
      BY <2>1, <2>3, <3>1
  <2>6. 2 * m = 2 * 85 * 64
    BY <2>4
  <2>7. QED
    BY <2>1, <2>5, <2>6, ZenonT(60)
<1>8. ASSUME p # q, NEW b \in D!Bits("MK1", x, y), b \in D!Bits("MK1", u, v) PROVE FALSE
  <2>1. Pair(y, a) # Pair(v, c) \/ r # s
    BY <1>2, <1>3, <1>4, <1>5, <1>6, <1>8
  <2>2. /\ b[1] \in Int /\ b[2] \in 0..7
        /\ r = 0 => b[1] = 2 * Pair(y, a) /\ b[2] >= 3
        /\ r = 1 => (b[1] = 2 * Pair(y, a) /\ b[2] < 3) \/ (b[1] = 2 * Pair(y, a) + 1 /\ b[2] > 5)
        /\ r = 2 => b[1] = 2 * Pair(y, a) + 1 /\ b[2] < 5
    BY <1>4
  <2>3. /\ s = 0 => b[1] = 2 * Pair(v, c) /\ b[2] >= 3
        /\ s = 1 => (b[1] = 2 * Pair(v, c) /\ b[2] < 3) \/ (b[1] = 2 * Pair(v, c) + 1 /\ b[2] > 5)
        /\ s = 2 => b[1] = 2 * Pair(v, c) + 1 /\ b[2] < 5
    BY <1>5, <1>8
  <2>4. QED
    BY <1>6, <2>1, <2>2, <2>3
<1>9. p[1] = x /\ p[2] = y /\ q[1] = u /\ q[2] = v /\ D!Geometry["MK1"].size = 2 * 85 * 64
  BY <1>1, <1>2, <1>3
<1>10. QED
  BY <1>7, <1>8, <1>9 DEF D!PointsAreApart

\* Mikro and MK2: eight points in a byte.
LEMMA EighthFacts ==
  ASSUME NEW n \in Nat, NEW x \in 0..8 * n - 1
  PROVE  \E a \in 0..n - 1, r \in 0..7 : x = 8 * a + r /\ x \div 8 = a /\ x % 8 = r
<1> DEFINE a == x \div 8
           r == x % 8
<1>1. a \in Nat /\ r \in 0..7 /\ x = 8 * a + r
  BY Division
<1> HIDE DEF a, r
<1>2. a \in 0..n - 1
  BY <1>1
<1>3. QED
  BY <1>1, <1>2 DEF a, r

\* ... and no two of the Mikro or of the MK2.
LEMMA EighthsApart ==
  ASSUME NEW kind \in {"Mikro", "MK2"}, NEW p \in PointsOf(kind), NEW q \in PointsOf(kind)
  PROVE  D!PointsAreApart(kind, p, q)
<1>1. CASE kind = "Mikro"
  <2>1. D!Geometry[kind] = [W |-> 128, H |-> 64, size |-> 1024, chunks |-> 4]
    BY <1>1, SMTT(60) DEF D!Geometry
  <2>2. PICK x \in 0..127, y \in 0..63 : p = <<x, y>>
    BY <2>1, SMTT(60) DEF PointsOf
  <2>3. PICK u \in 0..127, v \in 0..63 : q = <<u, v>>
    BY <2>1 DEF PointsOf
  <2>4. PICK a \in 0..7, r \in 0..7 : y = 8 * a + r /\ y \div 8 = a /\ y % 8 = r
    BY EighthFacts
  <2>5. PICK c \in 0..7, s \in 0..7 : v = 8 * c + s /\ v \div 8 = c /\ v % 8 = s
    BY EighthFacts
  <2>6. D!Bits(kind, x, y) = {<<128 * a + x, r>>} /\ D!Bits(kind, u, v) = {<<128 * c + u, s>>}
    BY <1>1, <2>1, <2>4, <2>5 DEF D!Bits, D!MikroBits
  <2>7. 128 * a + x \in 0..1023 /\ (128 * a + x = 128 * c + u /\ r = s => x = u /\ y = v)
    BY <2>4, <2>5
  <2>8. p[1] = x /\ p[2] = y /\ q[1] = u /\ q[2] = v /\ D!Geometry[kind].size - 1 = 1023
    BY <2>1, <2>2, <2>3
  <2>9. QED
    BY <2>2, <2>3, <2>6, <2>7, <2>8 DEF D!PointsAreApart
<1>2. CASE kind = "MK2"
  <2>1. D!Geometry[kind] = [W |-> 256, H |-> 64, size |-> 2048, chunks |-> 8]
    BY <1>2 DEF D!Geometry
  <2>1b. D!Geometry[kind].W - 1 = 255 /\ D!Geometry[kind].H - 1 = 63
    BY <2>1
  <2>1c. \A o \in {p, q} : o[1] \in 0..255 /\ o[2] \in 0..63 /\ o = <<o[1], o[2]>>
    BY <2>1b, PointIs
  <2>2. PICK x \in 0..255, y \in 0..63 : p = <<x, y>>
    BY <2>1c, Zenon
  <2>3. PICK u \in 0..255, v \in 0..63 : q = <<u, v>>
    BY <2>1c, Zenon
  <2>4. PICK a \in 0..31, r \in 0..7 : x = 8 * a + r /\ x \div 8 = a /\ x % 8 = r
    BY EighthFacts
  <2>5. PICK c \in 0..31, s \in 0..7 : u = 8 * c + s /\ u \div 8 = c /\ u % 8 = s
    BY EighthFacts
  <2>6. D!canvasWidthInBytes(D!Geometry[kind]) = 32
    BY <2>1 DEF D!canvasWidthInBytes
  <2>7. D!Bits(kind, x, y) = {<<32 * y + a, 7 - r>>} /\ D!Bits(kind, u, v) = {<<32 * v + c, 7 - s>>}
    BY <1>2, <2>4, <2>5, <2>6 DEF D!Bits, D!MK2Bits
  <2>8. 32 * y + a \in 0..2047 /\ 7 - r \in 0..7 /\ (32 * y + a = 32 * v + c /\ 7 - r = 7 - s => x = u /\ y = v)
    BY <2>4, <2>5
  <2>9. p[1] = x /\ p[2] = y /\ q[1] = u /\ q[2] = v /\ D!Geometry[kind].size - 1 = 2047
    BY <2>1, <2>2, <2>3
  <2>10. QED
    BY <2>2, <2>3, <2>7, <2>8, <2>9 DEF D!PointsAreApart
<1>3. QED
  BY <1>1, <1>2

\* Every point of every display has bits of its own in the buffer.
THEOREM PointsApart ==
  \A kind \in D!DisplayKinds : \A p, q \in PointsOf(kind) : D!PointsAreApart(kind, p, q)
BY WholeBytesApart, ThirdsApart, EighthsApart DEF D!DisplayKinds

\* A quotient is the number whose multiple is next below.
LEMMA QuotientIs ==
  ASSUME NEW k \in Nat \ {0}, NEW a \in Nat, NEW n \in Int, k * n <= a, a < k * n + k
  PROVE  a \div k = n
<1>1. a \div k \in Int /\ a = k * (a \div k) + (a % k) /\ a % k \in 0..k - 1
  BY Division
<1>2. a - k * n \in 0..k - 1 /\ a = k * n + (a - k * n)
  OBVIOUS
<1>3. QED
  BY <1>1, <1>2, OneWay

\* A grey of Push 2: what is read of it is stored as it, and its complement as its own.
LEMMA UpAndDown ==
  ASSUME NEW top \in {31, 63}, NEW n \in 0..top
  PROVE  /\ D!Up(n, top) \in 0..255
         /\ D!Down(D!Up(n, top), top) = n
         /\ D!Down(255 - D!Up(n, top), top) = top - n
<1>1. CASE top = 31
  <2>1. 510 * n + 31 \in Nat /\ 2 * 31 = 62
    OBVIOUS
  <2>2. PICK d \in Nat : d = (510 * n + 31) \div 62 /\ 62 * d <= 510 * n + 31 /\ 510 * n + 31 < 62 * d + 62
    BY <2>1, Division
  <2>3. d \in 0..255
    BY <1>1, <2>2
  <2>4. (2 * d * 31 + 255) \div 510 = n
    BY <1>1, <2>2, <2>3, QuotientIs
  <2>5. (2 * (255 - d) * 31 + 255) \div 510 = 31 - n
    BY <1>1, <2>2, <2>3, QuotientIs
  <2>6. D!Up(n, top) = d
    BY <1>1, <2>1, <2>2 DEF D!Up
  <2>7. QED
    BY <1>1, <2>3, <2>4, <2>5, <2>6 DEF D!Down
<1>2. CASE top = 63
  <2>1. 510 * n + 63 \in Nat /\ 2 * 63 = 126
    OBVIOUS
  <2>2. PICK d \in Nat : d = (510 * n + 63) \div 126 /\ 126 * d <= 510 * n + 63 /\ 510 * n + 63 < 126 * d + 126
    BY <2>1, Division
  <2>3. d \in 0..255
    BY <1>2, <2>2
  <2>4. (2 * d * 63 + 255) \div 510 = n
    BY <1>2, <2>2, <2>3, QuotientIs
  <2>5. (2 * (255 - d) * 63 + 255) \div 510 = 63 - n
    BY <1>2, <2>2, <2>3, QuotientIs
  <2>6. D!Up(n, top) = d
    BY <1>2, <2>1, <2>2 DEF D!Up
  <2>7. QED
    BY <1>2, <2>3, <2>4, <2>5, <2>6 DEF D!Down
<1>3. QED
  BY <1>1, <1>2

\* What is stored for a grey is in range.
LEMMA DownWithin == ASSUME NEW top \in {31, 63}, NEW v \in 0..255 PROVE D!Down(v, top) \in 0..top
<1>1. CASE top = 31
  <2>1. 2 * v * 31 + 255 \in Nat
    OBVIOUS
  <2>2. PICK s \in Nat : s = (2 * v * 31 + 255) \div 510 /\ 510 * s <= 2 * v * 31 + 255
    BY <2>1, Division
  <2>3. s \in 0..31
    BY <2>2
  <2>4. QED
    BY <1>1, <2>2, <2>3 DEF D!Down
<1>2. CASE top = 63
  <2>1. 2 * v * 63 + 255 \in Nat
    OBVIOUS
  <2>2. PICK s \in Nat : s = (2 * v * 63 + 255) \div 510 /\ 510 * s <= 2 * v * 63 + 255
    BY <2>1, Division
  <2>3. s \in 0..63
    BY <2>2
  <2>4. QED
    BY <1>2, <2>2, <2>3 DEF D!Down
<1>3. QED
  BY <1>1, <1>2

\* A grey of MK1.
LEMMA ReadAndStored ==
  ASSUME NEW n \in 0..31
  PROVE  /\ D!MK1Read(n) \in 0..255
         /\ D!MK1Stored(D!MK1Read(n)) = n
         /\ D!MK1Stored(255 - D!MK1Read(n)) = 31 - n
<1>1. (31 - n) * 255 \in Nat
  OBVIOUS
<1>2. PICK w \in Nat : /\ w = ((31 - n) * 255) \div 31
                       /\ 31 * w <= (31 - n) * 255 /\ (31 - n) * 255 < 31 * w + 31
  BY <1>1, Division
<1>3. w \in 0..255
  BY <1>2
<1>4. (2 * (255 - w) * 31 + 255) \div 510 = n
  BY <1>2, <1>3, QuotientIs
<1>5. (2 * w * 31 + 255) \div 510 = 31 - n
  BY <1>2, <1>3, QuotientIs
<1>6. D!MK1Read(n) = 255 - w /\ 255 - (255 - w) = w
  BY <1>2 DEF D!MK1Read
<1>7. QED
  BY <1>3, <1>4, <1>5, <1>6 DEF D!MK1Stored, D!Down

\* The grey of the Jam that is stored is one of its own, and it stores its own greys as they are.
LEMMA JamGreyIs ==
  ASSUME NEW v \in 0..255
  PROVE  /\ D!JamStored(v) \in {"black", "dark", "mid", "light"}
         /\ v = 0 => D!JamStored(v) = "black"
         /\ v = 40 => D!JamStored(v) = "dark"
<1> DEFINE Gs == {"black", "dark", "mid", "light"}
           Nearest(n) == \A m \in Gs :
                           \/ D!Away(D!JamGreys[n], v) < D!Away(D!JamGreys[m], v)
                           \/ /\ D!Away(D!JamGreys[n], v) = D!Away(D!JamGreys[m], v)
                              /\ D!JamGreys[n] <= D!JamGreys[m]
<1>1. /\ DOMAIN D!JamGreys = Gs
      /\ D!JamGreys["black"] = 0 /\ D!JamGreys["dark"] = 40
      /\ D!JamGreys["mid"] = 96 /\ D!JamGreys["light"] = 226
  BY DEF D!JamGreys
<1>2. \E n \in Gs : Nearest(n)
  BY <1>1 DEF D!Away
<1>3. D!JamStored(v) = CHOOSE n \in Gs : Nearest(n)
  BY <1>1 DEF D!JamStored
<1>4. D!JamStored(v) \in Gs /\ Nearest(D!JamStored(v))
  BY <1>2, <1>3
<1>5. ASSUME v = 0 PROVE D!JamStored(v) = "black"
  BY <1>1, <1>4, <1>5 DEF D!Away
<1>6. ASSUME v = 40 PROVE D!JamStored(v) = "dark"
  BY <1>1, <1>4, <1>6 DEF D!Away
<1>7. QED
  BY <1>4, <1>5, <1>6

\* Setting a point of any display, whatever was stored, marks its chunk if it
\* changes, and but for the Jam inverting it twice restores it.
THEOREM ChangesMarked ==
  ASSUME NEW kind \in D!DisplayKinds, NEW old \in D!Held(kind), NEW v \in -1..255
  PROVE  D!ChangesAreMarked(kind, old, v)
<1>0. v = -1 \/ v \in 0..255
  OBVIOUS
<1>1. CASE kind = "Plain"
  <2>1. old \in 0..255
    BY <1>1 DEF D!Held
  <2>2. \A o \in Int : D!setPixel(kind, o, -1) = 255 - o
    BY <1>1 DEF D!setPixel, D!Inverted
  <2>3. v # -1 => D!setPixel(kind, old, v) = v /\ v \in 0..255
    BY <1>0, <1>1 DEF D!setPixel, D!Inverted
  <2>4. 255 - old \in 0..255 /\ 255 - (255 - old) = old
    BY <2>1
  <2>5. D!Held(kind) = 0..255 /\ D!marks(kind, old, v) = (v = -1 \/ old # v)
    BY <1>1 DEF D!Held, D!marks, D!Inverted
  <2>6. D!setPixel(kind, D!setPixel(kind, old, -1), -1) = old
    BY <2>1, <2>2, <2>4
  <2>7. D!setPixel(kind, old, v) \in 0..255
    BY <2>1, <2>2, <2>3, <2>4
  <2>8. v # -1 /\ v # old => old # v
    OBVIOUS
  <2>9. QED
    BY <1>1, <2>3, <2>5, <2>6, <2>7, <2>8 DEF D!ChangesAreMarked, D!Inverted
<1>2. CASE kind = "MK1"
  <2>1. old \in 0..31
    BY <1>2 DEF D!Held
  <2>2. \A n \in 0..31 : D!setPixel(kind, n, -1) = 31 - n
    BY <1>2, ReadAndStored DEF D!setPixel, D!Inverted
  <2>3. v # -1 => D!setPixel(kind, old, v) = D!MK1Stored(v) /\ D!MK1Stored(v) \in 0..31
    BY <1>0, <1>2, DownWithin DEF D!setPixel, D!Inverted, D!MK1Stored
  <2>4. D!setPixel(kind, D!setPixel(kind, old, -1), -1) = old
    <3>1. 31 - old \in 0..31 /\ 31 - (31 - old) = old
      BY <2>1
    <3>2. QED
      BY <2>1, <2>2, <3>1
  <2>5. v # -1 /\ D!MK1Read(old) = v => D!MK1Stored(v) = old
    BY <2>1, ReadAndStored
  <2>6. QED
    BY <1>2, <2>1, <2>2, <2>3, <2>4, <2>5 DEF D!ChangesAreMarked, D!Held, D!marks, D!Inverted
<1>3. CASE kind \in {"Mikro", "MK2"}
  <2>1. old \in BOOLEAN
    BY <1>3 DEF D!Held
  <2>2. D!Active(v) \in BOOLEAN
    BY <1>0 DEF D!Active
  <2>3. \A o : D!setPixel(kind, o, -1) = ~o
    BY <1>3 DEF D!setPixel, D!Inverted
  <2>4. v # -1 => D!setPixel(kind, old, v) = D!Active(v)
    BY <1>3 DEF D!setPixel, D!Inverted
  <2>5. D!Held(kind) = BOOLEAN
    BY <1>3 DEF D!Held
  <2>6. D!marks(kind, old, v) = (v = -1 \/ old # D!Active(v))
    BY <1>3 DEF D!marks, D!Inverted
  <2>7. QED
    BY <2>1, <2>2, <2>3, <2>4, <2>5, <2>6 DEF D!ChangesAreMarked, D!Inverted
<1>4. CASE kind = "Push2"
  <2>1. PICK n \in 0..31, g \in 0..63 : old = <<n, g, n>>
    BY <1>4 DEF D!Held
  <2>2. \A a \in 0..31, b \in 0..63 : D!setPixel(kind, <<a, b, a>>, -1) = <<31 - a, 63 - b, 31 - a>>
    <3> SUFFICES ASSUME NEW a \in 0..31, NEW b \in 0..63
                 PROVE  D!setPixel(kind, <<a, b, a>>, -1) = <<31 - a, 63 - b, 31 - a>>
      BY ZenonT(60)
    <3>1. D!Push2Read(<<a, b, a>>) = <<D!Up(a, 31), D!Up(b, 63), D!Up(a, 31)>>
      BY DEF D!Push2Read
    <3>2. D!Down(255 - D!Up(a, 31), 31) = 31 - a /\ D!Down(255 - D!Up(b, 63), 63) = 63 - b
      BY UpAndDown, ZenonT(60)
    <3>3. /\ D!Push2Read(<<a, b, a>>)[1] = D!Up(a, 31) /\ D!Push2Read(<<a, b, a>>)[2] = D!Up(b, 63)
          /\ D!Push2Read(<<a, b, a>>)[3] = D!Up(a, 31)
      BY <3>1
    <3>4. \A o : D!setPixel("Push2", o, -1) =
                      <<D!Down(255 - D!Push2Read(o)[1], 31), D!Down(255 - D!Push2Read(o)[2], 63),
                        D!Down(255 - D!Push2Read(o)[3], 31)>>
      BY DEF D!setPixel, D!Inverted
    <3>5. QED
      BY <1>4, <3>2, <3>3, <3>4, SMTT(60)
  <2>3. v # -1 => /\ D!setPixel(kind, old, v) = <<D!Down(v, 31), D!Down(v, 63), D!Down(v, 31)>>
                  /\ D!Down(v, 31) \in 0..31 /\ D!Down(v, 63) \in 0..63
    BY <1>0, <1>4, DownWithin DEF D!setPixel, D!Inverted, D!Push2Stored
  <2>4. /\ 31 - n \in 0..31 /\ 63 - g \in 0..63 /\ 31 - (31 - n) = n /\ 63 - (63 - g) = g
    BY SMTT(60)
  <2>5. D!setPixel(kind, D!setPixel(kind, old, -1), -1) = old
    BY <2>1, <2>2, <2>4, ZenonT(60)
  <2>6. v # -1 /\ D!Push2Read(old) = <<v, v, v>> => D!Down(v, 31) = n /\ D!Down(v, 63) = g
    BY <2>1, UpAndDown, ZenonT(60) DEF D!Push2Read
  <2>7. D!Held(kind) = {<<a, b, a>> : a \in 0..31, b \in 0..63}
    BY <1>4 DEF D!Held
  <2>8. D!setPixel(kind, old, v) \in D!Held(kind)
    <3>0. \A a \in 0..31, b \in 0..63 : <<a, b, a>> \in D!Held(kind)
      BY <2>7, SMTT(60)
    <3>1. CASE v = -1
      <4>1. D!setPixel(kind, old, v) = <<31 - n, 63 - g, 31 - n>>
        BY <2>1, <2>2, <3>1, ZenonT(60)
      <4>2. QED
        BY <2>4, <3>0, <4>1, ZenonT(60)
    <3>2. CASE v # -1
      BY <2>3, <3>0, <3>2, ZenonT(60)
    <3>3. QED
      BY <3>1, <3>2
  <2>9. D!marks(kind, old, v) = (v = -1 \/ D!Push2Read(old) # <<v, v, v>>)
    BY <1>4 DEF D!marks, D!Inverted
  <2>10. D!setPixel(kind, old, v) # old => D!marks(kind, old, v)
    BY <2>1, <2>3, <2>6, <2>9
  <2>11. QED
    BY <2>5, <2>8, <2>10 DEF D!ChangesAreMarked, D!Inverted
<1>5. CASE kind = "Jam"
  <2>1. D!Held(kind) = {"black", "dark", "mid", "light"}
    BY <1>5 DEF D!Held, D!JamGreys
  <2>2. D!setPixel(kind, old, v) = D!JamStored(IF v = -1 THEN 255 ELSE v)
    BY <1>5 DEF D!setPixel, D!Inverted
  <2>3. D!marks(kind, old, v) = (v = -1 \/ D!JamRead(old) # v \/ old \in {"mid", "light"})
    BY <1>5 DEF D!marks, D!Inverted
  <2>4. old = "black" => D!JamRead(old) = 0
    BY DEF D!JamRead
  <2>5. old = "dark" => D!JamRead(old) = 40
    BY DEF D!JamRead
  <2>6. (IF v = -1 THEN 255 ELSE v) \in 0..255
    BY <1>0
  <2>7. D!setPixel(kind, old, v) \in D!Held(kind)
    BY <2>1, <2>2, <2>6, JamGreyIs
  <2>8. D!setPixel(kind, old, v) # old => D!marks(kind, old, v)
    <3> SUFFICES ASSUME v # -1, D!JamRead(old) = v, old \notin {"mid", "light"}
                 PROVE  D!setPixel(kind, old, v) = old
      BY <2>3
    <3>1. v \in 0..255 /\ D!setPixel(kind, old, v) = D!JamStored(v)
      BY <1>0, <2>2
    <3>2. CASE old = "black"
      BY <2>4, <3>1, <3>2, JamGreyIs
    <3>3. CASE old = "dark"
      BY <2>5, <3>1, <3>3, JamGreyIs
    <3>4. QED
      BY <2>1, <3>2, <3>3
  <2>9. QED
    BY <1>5, <2>7, <2>8 DEF D!ChangesAreMarked
<1>6. QED
  BY <1>1, <1>2, <1>3, <1>4, <1>5 DEF D!DisplayKinds

-----------------------------------------------------------------------------
(* The LEDs of an array.                                                   *)

\* A row of LEDs of any length shows any value: the first LEDs are lit, as many as the
\* value says to half an LED.
THEOREM LedsShow ==
  ASSUME NEW L \in Nat \ {0}, NEW e \in Int
  PROVE  D!LedsShowValue(L, e)
<1> DEFINE Most(x) == IF x < 0 THEN 0 ELSE x
           Lit(x) == (2 * L * Most(x) + 8) \div 16
           c == IF Lit(e) < L THEN Lit(e) ELSE L
<1>1. ASSUME NEW x \in Int
      PROVE  /\ Lit(x) \in Nat /\ 16 * Lit(x) <= 2 * (L * Most(x)) + 8
             /\ 2 * (L * Most(x)) + 8 < 16 * Lit(x) + 16 /\ L * Most(x) \in Nat
  <2>1. Most(x) \in Nat
    OBVIOUS
  <2> HIDE DEF Most
  <2>2. L * Most(x) \in Nat /\ 2 * L * Most(x) = 2 * (L * Most(x))
    BY <2>1
  <2>3. PICK z \in Nat : z = L * Most(x)
    BY <2>2
  <2>4. Lit(x) = (2 * z + 8) \div 16 /\ 2 * z + 8 \in Nat
    BY <2>2, <2>3
  <2> HIDE DEF Lit, Most
  <2>5. PICK m \in Nat : m = (2 * z + 8) \div 16 /\ 16 * m <= 2 * z + 8 /\ 2 * z + 8 < 16 * m + 16
    BY <2>4, Division
  <2>6. QED
    BY <2>3, <2>4, <2>5
<1>2. ASSUME NEW x \in Int PROVE D!setValue(L, x, "Left") = (0..Lit(x) - 1) \cap (0..L - 1)
  BY DEF D!setValue, D!Within
<1>3. /\ Most(e) <= 8 => L * Most(e) <= 8 * L
      /\ Most(e) > 8 => L * Most(e) >= 8 * L
      /\ L * Most(e) <= L * Most(e + 1)
  <2>1. ASSUME NEW a \in Nat, NEW b \in Nat, a <= b PROVE L * a <= L * b
    <3>1. L * (b - a) >= 0 /\ L * (b - a) = L * b - L * a
      BY <2>1
    <3>2. L * a \in Int /\ L * b \in Int
      OBVIOUS
    <3>3. QED
      BY <3>1, <3>2
  <2>2. Most(e) \in Nat /\ Most(e + 1) \in Nat /\ Most(e) <= Most(e + 1)
    OBVIOUS
  <2> HIDE DEF Most
  <2>3. L * 8 = 8 * L
    OBVIOUS
  <2>4. QED
    BY <2>1, <2>2, <2>3
<1>4. /\ Lit(e) \in Nat /\ Lit(e + 1) \in Nat /\ Lit(e) <= Lit(e + 1)
      /\ Most(e) <= 8 => Lit(e) <= L
      /\ Most(e) > 8 => Lit(e) >= L
      /\ 2 * D!Away(8 * Lit(e), L * Most(e)) <= 8
  <2> HIDE DEF Lit, Most
  <2>0. e + 1 \in Int
    OBVIOUS
  <2>1. PICK z \in Nat, y \in Nat, m \in Nat, k \in Nat :
           z = L * Most(e) /\ y = L * Most(e + 1) /\ m = Lit(e) /\ k = Lit(e + 1)
    BY <1>1, <2>0
  <2>2. /\ 16 * m <= 2 * z + 8 /\ 2 * z + 8 < 16 * m + 16
        /\ 16 * k <= 2 * y + 8 /\ 2 * y + 8 < 16 * k + 16 /\ z <= y
    BY <1>1, <1>3, <2>0, <2>1
  <2>3. m <= k /\ 2 * D!Away(8 * m, z) <= 8
    BY <2>2 DEF D!Away
  <2>4. z <= 8 * L => m <= L
    BY <2>2
  <2>5. z >= 8 * L => m >= L
    BY <2>2
  <2>6. QED
    BY <1>3, <2>1, <2>3, <2>4, <2>5
<1> DEFINE lit == D!setValue(L, e, "Left")
<1>5. c \in Nat /\ lit = 0..c - 1
  <2> HIDE DEF Lit
  <2>1. PICK m \in Nat : m = Lit(e)
    BY <1>4
  <2>2. D!setValue(L, e, "Left") = (0..m - 1) \cap (0..L - 1)
    BY <1>2, <2>1
  <2>3. c = (IF m < L THEN m ELSE L)
    BY <2>1
  <2>4. c \in Nat /\ c <= m /\ c <= L /\ (c = m \/ c = L)
    BY <2>1, <2>3
  <2> HIDE DEF c
  <2>5. (0..m - 1) \cap (0..L - 1) = 0..c - 1
    BY <2>1, <2>4
  <2>6. QED
    BY <2>2, <2>4, <2>5
<1>6. D!Cardinality(lit) = c
  <2>1. Cardinality(0..c - 1) = c
    <3> HIDE DEF c
    <3>1. QED
      BY <1>5, FS_Interval
  <2>2. QED
    BY <1>5, <2>1 DEF D!Cardinality, Cardinality
<1>7. 2 * D!Away(8 * c, (IF e < 0 THEN 0 ELSE IF e > 8 THEN 8 ELSE e) * L) <= 8
  <2> HIDE DEF Lit
  <2>1. CASE e < 0
    BY <1>4, <2>1 DEF D!Away
  <2>2. CASE e \in 0..8
    <3>1. Most(e) = e /\ c = Lit(e) /\ e * L = L * e
      BY <1>4, <2>2
    <3>2. QED
      BY <1>4, <2>2, <3>1
  <2>3. CASE e > 8
    <3>1. c = L
      BY <1>4, <2>3
    <3>2. QED
      BY <2>3, <3>1 DEF D!Away
  <2>4. QED
    BY <2>1, <2>2, <2>3
<1>8. lit \subseteq D!setValue(L, e + 1, "Left")
  <2> HIDE DEF Lit
  <2>1. QED
    BY <1>2, <1>4
<1>9. L \div 2 \in D!setValue(L, e, "Center")
  <2>1. L \div 2 \in 0..L - 1
    OBVIOUS
  <2>2. QED
    BY <2>1 DEF D!setValue, D!Within
<1> HIDE DEF lit, c
<1>10. QED
  BY <1>5, <1>6, <1>7, <1>8, <1>9 DEF D!LedsShowValue, lit

-----------------------------------------------------------------------------
(* Rectangles, circles and bitmaps.                                        *)

InkSet == {"white", "black", "none"}
Sketches == Seq([at : SUBSET (Int \X Int), ink : InkSet])

\* The points of strokes, and those of either ink.
IsSketch(s, all, light, dark) ==
  /\ s \in Sketches
  /\ F!Touched(s) = all /\ F!Inked(s, "white") = light /\ F!Inked(s, "black") = dark

\* No stroke at all, ...
LEMMA SketchNone == IsSketch(<< >>, {}, {}, {})
BY DEF IsSketch, Sketches, F!Touched, F!Inked

\* ... a stroke ...
LEMMA SketchStroke ==
  ASSUME NEW P, P \subseteq Int \X Int, NEW ink \in InkSet
  PROVE  IsSketch(F!Stroke(P, ink), P, IF ink = "white" THEN P ELSE {}, IF ink = "black" THEN P ELSE {})
<1> DEFINE s == F!Stroke(P, ink)
<1>1. s \in Sketches /\ DOMAIN s = {1} /\ s[1] = [at |-> P, ink |-> ink]
  BY DEF F!Stroke, Sketches
<1> HIDE DEF s
<1>2. s[1].at = P /\ s[1].ink = ink
  BY <1>1
<1>3. F!Touched(s) = P
  BY <1>1, <1>2 DEF F!Touched
<1>4. \A k : F!Inked(s, k) = IF k = ink THEN P ELSE {}
  BY <1>1, <1>2 DEF F!Inked
<1>5. QED
  BY <1>1, <1>3, <1>4 DEF IsSketch, s, InkSet

\* ... and strokes after strokes.
LEMMA SketchJoin ==
  ASSUME NEW s, NEW t, NEW a, NEW l, NEW d, NEW a2, NEW l2, NEW d2,
         IsSketch(s, a, l, d), IsSketch(t, a2, l2, d2)
  PROVE  IsSketch(s \o t, a \cup a2, l \cup l2, d \cup d2)
<1>1. /\ s \in Sketches /\ t \in Sketches
      /\ Len(s) \in Nat /\ Len(t) \in Nat /\ DOMAIN s = 1..Len(s) /\ DOMAIN t = 1..Len(t)
  BY DEF IsSketch, Sketches
<1>2. /\ s \o t \in Sketches /\ DOMAIN (s \o t) = 1..Len(s) + Len(t)
      /\ \A i \in 1..Len(s) + Len(t) : (s \o t)[i] = IF i <= Len(s) THEN s[i] ELSE t[i - Len(s)]
  BY <1>1 DEF Sketches
<1>3. /\ \A i \in DOMAIN s : i \in DOMAIN (s \o t) /\ (s \o t)[i] = s[i]
      /\ \A i \in DOMAIN t : i + Len(s) \in DOMAIN (s \o t) /\ (s \o t)[i + Len(s)] = t[i]
      /\ \A i \in DOMAIN (s \o t) : \/ i \in DOMAIN s /\ (s \o t)[i] = s[i]
                                    \/ i - Len(s) \in DOMAIN t /\ (s \o t)[i] = t[i - Len(s)]
  BY <1>1, <1>2
<1> DEFINE u == s \o t
<1> HIDE DEF u
<1>4. F!Touched(u) = F!Touched(s) \cup F!Touched(t)
  <2>1. \A x : x \in F!Touched(u) <=> \E i \in DOMAIN u : x \in u[i].at
    BY DEF F!Touched
  <2>2. \A x : x \in F!Touched(s) <=> \E i \in DOMAIN s : x \in s[i].at
    BY DEF F!Touched
  <2>3. \A x : x \in F!Touched(t) <=> \E i \in DOMAIN t : x \in t[i].at
    BY DEF F!Touched
  <2>4. ASSUME NEW x PROVE x \in F!Touched(u) <=> x \in F!Touched(s) \/ x \in F!Touched(t)
    BY <1>3, <2>1, <2>2, <2>3, ZenonT(60) DEF u
  <2>5. QED
    BY <2>4
<1>5. ASSUME NEW k PROVE F!Inked(u, k) = F!Inked(s, k) \cup F!Inked(t, k)
  <2>1. \A x : x \in F!Inked(u, k) <=> \E i \in DOMAIN u : u[i].ink = k /\ x \in u[i].at
    BY DEF F!Inked
  <2>2. \A x : x \in F!Inked(s, k) <=> \E i \in DOMAIN s : s[i].ink = k /\ x \in s[i].at
    BY DEF F!Inked
  <2>3. \A x : x \in F!Inked(t, k) <=> \E i \in DOMAIN t : t[i].ink = k /\ x \in t[i].at
    BY DEF F!Inked
  <2>4. ASSUME NEW x PROVE x \in F!Inked(u, k) <=> x \in F!Inked(s, k) \/ x \in F!Inked(t, k)
    BY <1>3, <2>1, <2>2, <2>3 DEF u
  <2>5. QED
    BY <2>4
<1>6. QED
  BY <1>2, <1>4, <1>5 DEF IsSketch, u

\* The points of a box.
LEMMA BoxIs ==
  ASSUME NEW x \in Int, NEW y \in Int, NEW w \in Int, NEW h \in Int
  PROVE  /\ F!Box(x, y, w, h) \subseteq Int \X Int
         /\ \A a, b : <<a, b>> \in F!Box(x, y, w, h) <=>
              a \in Int /\ b \in Int /\ x <= a /\ a < x + w /\ y <= b /\ b < y + h
         /\ \A pt \in F!Box(x, y, w, h) : pt = <<pt[1], pt[2]>>
BY DEF F!Box

\* A box as the stroke of one ink.
LEMMA SketchBox ==
  ASSUME NEW x \in Int, NEW y \in Int, NEW w \in Int, NEW h \in Int
  PROVE  /\ IsSketch(F!Stroke(F!Box(x, y, w, h), "white"), F!Box(x, y, w, h), F!Box(x, y, w, h), {})
         /\ IsSketch(F!Stroke(F!Box(x, y, w, h), "black"), F!Box(x, y, w, h), {}, F!Box(x, y, w, h))
<1>1. F!Box(x, y, w, h) \subseteq Int \X Int
  BY BoxIs
<1>2. QED
  BY <1>1, SketchStroke DEF InkSet

\* rectangleFilled(), of any size, has its frame and inside its filling.
THEOREM RectangleFramed ==
  ASSUME NEW x \in Nat, NEW y \in Nat, x <= 100, y <= 100, NEW w \in Nat, NEW h \in Nat
  PROVE  F!RectangleIsFramed(x, y, w, h)
<1> SUFFICES ASSUME w > 0, h > 0
             PROVE  LET s == F!rectangleFilled(100, 100, x, y, w, h, "white", "black")
                        inner == F!Box(x + 1, y + 1, w - 2, h - 2)
                    IN /\ F!Touched(s) = F!Box(x, y, w, h)
                       /\ F!Inked(s, "black") = inner
                       /\ F!Inked(s, "white") = F!Box(x, y, w, h) \ inner
  BY DEF F!RectangleIsFramed
<1> DEFINE top == F!Box(x, y, w, 1)
           bottom == F!Box(x, y + h - 1, w, 1)
           left == F!Box(x, y + 1, 1, h - 2)
           right == F!Box(x + w - 1, y + 1, 1, h - 2)
           inner == F!Box(x + 1, y + 1, w - 2, h - 2)
           s == F!rectangleFilled(100, 100, x, y, w, h, "white", "black")
<1>0. /\ y + h - 1 \in Int /\ x + w - 1 \in Int /\ x + 1 \in Int /\ y + 1 \in Int
      /\ w - 2 \in Int /\ h - 2 \in Int /\ x \in Int /\ y \in Int /\ w \in Int /\ h \in Int
      /\ 1 \in Int /\ ~(x > 100 \/ y > 100 \/ w = 0 \/ h = 0)
  OBVIOUS
<1>1. /\ IsSketch(F!lineHorizontal(x, y, w, "white"), top, top, {})
      /\ IsSketch(F!lineHorizontal(x, y + h - 1, w, "white"), bottom, bottom, {})
      /\ IsSketch(F!lineVertical(x, y + 1, h - 2, "white"), left, left, {})
      /\ IsSketch(F!lineVertical(x + w - 1, y + 1, h - 2, "white"), right, right, {})
      /\ IsSketch(F!Stroke(inner, "black"), inner, {}, inner)
  BY <1>0, SketchBox DEF F!lineHorizontal, F!lineVertical
<1>2. ASSUME NEW a, NEW b
      PROVE  /\ <<a, b>> \in top <=> a \in Int /\ b \in Int /\ x <= a /\ a < x + w /\ b = y
             /\ <<a, b>> \in bottom <=> a \in Int /\ b \in Int /\ x <= a /\ a < x + w /\ b = y + h - 1
             /\ <<a, b>> \in left <=> a \in Int /\ b \in Int /\ a = x /\ y + 1 <= b /\ b < y + h - 1
             /\ <<a, b>> \in right <=> a \in Int /\ b \in Int /\ a = x + w - 1 /\ y + 1 <= b /\ b < y + h - 1
             /\ <<a, b>> \in inner <=> /\ a \in Int /\ b \in Int /\ x + 1 <= a /\ a < x + w - 1
                                       /\ y + 1 <= b /\ b < y + h - 1
             /\ <<a, b>> \in F!Box(x, y, w, h) <=>
                  a \in Int /\ b \in Int /\ x <= a /\ a < x + w /\ y <= b /\ b < y + h
  BY <1>0 DEF F!Box
<1>3. \A pt \in top \cup bottom \cup left \cup right \cup inner \cup F!Box(x, y, w, h) : pt = <<pt[1], pt[2]>>
  BY <1>0, BoxIs
<1> HIDE DEF top, bottom, left, right, inner
<1>4. CASE h <= 2
  <2>1. s = F!lineHorizontal(x, y, w, "white") \o F!lineHorizontal(x, y + h - 1, w, "white") \o << >>
    BY <1>0, <1>4 DEF F!rectangleFilled
  <2> HIDE DEF s
  <2>2. IsSketch(s, top \cup bottom \cup {}, top \cup bottom \cup {}, {} \cup {} \cup {})
    BY <1>1, <2>1, SketchNone, SketchJoin
  <2>3. F!Touched(s) = top \cup bottom /\ F!Inked(s, "white") = top \cup bottom /\ F!Inked(s, "black") = {}
    BY <2>2 DEF IsSketch
  <2>4. ASSUME NEW a, NEW b
        PROVE  /\ <<a, b>> \in top \cup bottom <=> <<a, b>> \in F!Box(x, y, w, h)
               /\ <<a, b>> \notin inner
    BY <1>2, <1>4
  <2>5. top \cup bottom = F!Box(x, y, w, h) /\ inner = {}
    BY <1>3, <2>4
  <2>6. QED
    BY <2>3, <2>5 DEF s, inner
<1>5. CASE h > 2
  <2>1. s = F!lineHorizontal(x, y, w, "white") \o F!lineHorizontal(x, y + h - 1, w, "white")
            \o (F!lineVertical(x, y + 1, h - 2, "white") \o F!lineVertical(x + w - 1, y + 1, h - 2, "white")
                \o F!Stroke(inner, "black"))
    <3>1. ~(h <= 2)
      BY <1>5
    <3>2. QED
      BY <1>0, <3>1, Zenon DEF F!rectangleFilled, inner
  <2> HIDE DEF s
  <2>2. IsSketch(F!lineHorizontal(x, y, w, "white") \o F!lineHorizontal(x, y + h - 1, w, "white"),
                 top \cup bottom, top \cup bottom, {} \cup {})
    BY <1>1, SketchJoin
  <2>3. IsSketch(F!lineVertical(x, y + 1, h - 2, "white") \o F!lineVertical(x + w - 1, y + 1, h - 2, "white"),
                 left \cup right, left \cup right, {} \cup {})
    BY <1>1, SketchJoin
  <2>4. IsSketch(F!lineVertical(x, y + 1, h - 2, "white") \o F!lineVertical(x + w - 1, y + 1, h - 2, "white")
                 \o F!Stroke(inner, "black"),
                 (left \cup right) \cup inner, (left \cup right) \cup {}, ({} \cup {}) \cup inner)
    BY <1>1, <2>3, SketchJoin
  <2>5. IsSketch(s, (top \cup bottom) \cup ((left \cup right) \cup inner),
                 (top \cup bottom) \cup ((left \cup right) \cup {}), ({} \cup {}) \cup (({} \cup {}) \cup inner))
    BY <2>1, <2>2, <2>4, SketchJoin
  <2>6. /\ F!Touched(s) = top \cup bottom \cup left \cup right \cup inner
        /\ F!Inked(s, "white") = top \cup bottom \cup left \cup right
        /\ F!Inked(s, "black") = inner
    BY <2>5 DEF IsSketch
  <2>7. ASSUME NEW a, NEW b
        PROVE  /\ <<a, b>> \in top \cup bottom \cup left \cup right \cup inner <=> <<a, b>> \in F!Box(x, y, w, h)
               /\ <<a, b>> \in top \cup bottom \cup left \cup right <=>
                    <<a, b>> \in F!Box(x, y, w, h) /\ <<a, b>> \notin inner
    BY <1>2, <1>5
  <2>8. /\ top \cup bottom \cup left \cup right \cup inner = F!Box(x, y, w, h)
        /\ top \cup bottom \cup left \cup right = F!Box(x, y, w, h) \ inner
    BY <1>3, <2>7
  <2>9. QED
    BY <2>6, <2>8 DEF s, inner
<1>6. QED
  BY <1>0, <1>4, <1>5

\* The rest is the number that is left above the multiple next below.
LEMMA RestIs ==
  ASSUME NEW k \in Nat \ {0}, NEW a \in Nat, NEW n \in Int, k * n <= a, a < k * n + k
  PROVE  a \div k = n /\ a % k = a - k * n
<1>1. a \div k = n
  BY QuotientIs
<1>2. a = k * (a \div k) + (a % k) /\ a % k \in Int
  BY Division
<1>3. PICK m \in Int : m = k * n
  OBVIOUS
<1>4. QED
  BY <1>1, <1>2, <1>3

\* putBitmap() copies any bitmap whose width is a multiple of 8 bit for bit, where it
\* fits on the canvas.
THEOREM BitmapCopied ==
  ASSUME NEW x \in Nat, NEW y \in Nat, NEW n \in Nat \ {0}, NEW h \in Nat \ {0},
         x + 8 * n <= 100, y + h <= 100, NEW bits, bits \subseteq Nat \X (0..7)
  PROVE  F!BitmapIsCopied(x, y, 8 * n, h, bits)
<1> DEFINE w == 8 * n
           At(e) == <<(e[1] \div 8) + e[2] * n, e[1] % 8>>
           points == {<<x + d[1], y + d[2]>> : d \in {e \in (0..w - 1) \X (0..h - 1) : At(e) \in bits}}
           copied == {<<x + 8 * (b[1] % n) + b[2], y + b[1] \div n>> : b \in {b \in bits : b[1] < h * n}}
           s == F!putBitmap(100, 100, x, y, w, h, bits, "white")
<1>1. (8 * n) \div 8 = n /\ w \in Nat
  BY QuotientIs
<1>2. s = F!Stroke(points, "white")
  <2>1. F!Drawable(x, w, 100) = w /\ F!Drawable(y, h, 100) = h
    BY DEF F!Drawable
  <2>2. ~(x >= 100 \/ y >= 100)
    OBVIOUS
  <2>3. QED
    BY <1>1, <2>1, <2>2 DEF F!putBitmap
<1>3. F!Touched(s) = points
  <2>1. points \subseteq Int \X Int
    <3>1. ASSUME NEW d \in (0..w - 1) \X (0..h - 1) PROVE <<x + d[1], y + d[2]>> \in Int \X Int
      BY <1>1
    <3> HIDE DEF At
    <3>2. QED
      BY <3>1
  <2> HIDE DEF points, s
  <2>2. IsSketch(s, points, points, {})
    BY <1>2, <2>1, SketchStroke DEF InkSet
  <2>3. QED
    BY <2>2 DEF IsSketch
<1>4. ASSUME NEW d \in (0..w - 1) \X (0..h - 1), At(d) \in bits PROVE <<x + d[1], y + d[2]>> \in copied
  <2>1. PICK i \in 0..w - 1, v \in 0..h - 1 : d[1] = i /\ d[2] = v
    BY <1>1
  <2>2. PICK q \in 0..n - 1, r \in 0..7 : i = 8 * q + r /\ i \div 8 = q /\ i % 8 = r
    BY EighthFacts
  <2>4. At(d) = <<q + v * n, r>>
    BY <2>1, <2>2
  <2>5. q + v * n \in Nat /\ n * v = v * n
    OBVIOUS
  <2>6. (q + v * n) \div n = v /\ (q + v * n) % n = q
    <3>1. n * v <= q + v * n /\ q + v * n < n * v + n /\ q + v * n - n * v = q
      BY <2>5
    <3>2. PICK m \in Nat : m = q + v * n
      BY <2>5
    <3>3. n * v <= m /\ m < n * v + n /\ v \in Int
      BY <3>1, <3>2
    <3> HIDE DEF w
    <3>4. m \div n = v /\ m % n = m - n * v
      BY <3>3, RestIs
    <3>5. QED
      BY <3>1, <3>2, <3>4
  <2>7. q + v * n < h * n
    <3>1. ASSUME NEW z \in Nat PROVE n * z >= 0
      OBVIOUS
    <3>2. n * (h - (v + 1)) >= 0
      BY <3>1
    <3>3. n * (h - (v + 1)) = h * n - v * n - n
      OBVIOUS
    <3>4. QED
      BY <3>2, <3>3
  <2> DEFINE b == <<q + v * n, r>>
  <2>8. b \in {c \in bits : c[1] < h * n} /\ b[1] = q + v * n /\ b[2] = r
    BY <1>4, <2>4, <2>7
  <2>9. <<x + d[1], y + d[2]>> = <<x + 8 * (b[1] % n) + b[2], y + b[1] \div n>>
    BY <2>1, <2>2, <2>6, <2>8
  <2> HIDE DEF b
  <2>10. QED
    BY <2>8, <2>9
<1>5. ASSUME NEW b \in bits, b[1] < h * n
      PROVE  <<x + 8 * (b[1] % n) + b[2], y + b[1] \div n>> \in points
  <2>1. PICK a \in Nat, r \in 0..7 : b = <<a, r>> /\ b[1] = a /\ b[2] = r
    OBVIOUS
  <2>2. PICK v \in Nat, q \in 0..n - 1 : a = n * v + q /\ a \div n = v /\ a % n = q
    BY Division
  <2>3. v \in 0..h - 1
    <3>1. ASSUME NEW z \in Nat PROVE n * z >= 0
      OBVIOUS
    <3>2. ~(v >= h)
      <4> SUFFICES ASSUME v >= h PROVE FALSE
        OBVIOUS
      <4>1. n * (v - h) >= 0
        BY <3>1
      <4>2. n * (v - h) = n * v - h * n
        OBVIOUS
      <4>3. n * v < h * n
        BY <1>5, <2>1, <2>2
      <4>4. QED
        BY <4>1, <4>2, <4>3
    <3>3. QED
      BY <3>2
  <2>4. 8 * q + r \in 0..w - 1 /\ (8 * q + r) \div 8 = q /\ (8 * q + r) % 8 = r
    BY RestIs
  <2> DEFINE e == <<8 * q + r, v>>
  <2>5. e \in (0..w - 1) \X (0..h - 1) /\ e[1] = 8 * q + r /\ e[2] = v
    BY <2>3, <2>4
  <2>6. At(e) = b
    <3>1. q + v * n = a
      BY <2>2
    <3>2. QED
      BY <2>1, <2>4, <2>5, <3>1
  <2>7. <<x + 8 * (b[1] % n) + b[2], y + b[1] \div n>> = <<x + e[1], y + e[2]>>
    BY <2>1, <2>2, <2>5
  <2> HIDE DEF e
  <2>8. QED
    BY <2>5, <2>6, <2>7
<1>6. points = copied
  <2> HIDE DEF At, w
  <2>1. points \subseteq copied
    BY <1>4
  <2>2. copied \subseteq points
    BY <1>5
  <2>3. QED
    BY <2>1, <2>2
<1> HIDE DEF points
<1>7. QED
  BY <1>1, <1>3, <1>6 DEF F!BitmapIsCopied

-----------------------------------------------------------------------------
(* Circles.                                                                *)

\* How far a point is from the circle, in squares, and the points of its parts.
Off(r, d) == d[1] * d[1] + d[2] * d[2] - r * r
Rim(r, type) == {d \in F!CircleBox(r, type) : Off(r, d) < r /\ -Off(r, d) < r}
Inside(r, type) == {d \in F!CircleBox(r, type) \ Rim(r, type) : Off(r, d) < 0}
Moved(x, y, ds) == {<<x + d[1], y + d[2]>> : d \in ds}

\* The box of a part lies in that of the whole circle.
LEMMA CircleBoxIs ==
  ASSUME NEW r \in Nat, NEW type
  PROVE  /\ F!CircleBox(r, type) \subseteq (-r..r) \X (-r..r)
         /\ F!CircleBox(r, type) \subseteq F!CircleBox(r, "Full")
         /\ F!CircleBox(r, "Full") = (-r..r) \X (-r..r)
<1>1. F!CircleBox(r, "Full") = (-r..r) \X (-r..r)
  BY DEF F!CircleBox
<1> DEFINE x0 == IF type \in {"SemiRight", "QuarterTopRight", "QuarterBottomRight"} THEN 0 ELSE -r
           x1 == IF type \in {"SemiLeft", "QuarterTopLeft", "QuarterBottomLeft"} THEN 0 ELSE r
           y0 == IF type \in {"SemiBottom", "QuarterBottomLeft", "QuarterBottomRight"} THEN 0 ELSE -r
           y1 == IF type \in {"SemiTop", "QuarterTopLeft", "QuarterTopRight"} THEN 0 ELSE r
<1>2. x0 \in {0, -r} /\ x1 \in {0, r} /\ y0 \in {0, -r} /\ y1 \in {0, r}
  OBVIOUS
<1>3. F!CircleBox(r, type) = (x0..x1) \X (y0..y1)
  BY DEF F!CircleBox
<1> HIDE DEF x0, x1, y0, y1
<1>4. QED
  BY <1>1, <1>2, <1>3

\* Points that are moved can be moved back.
LEMMA MovedIs ==
  ASSUME NEW x \in Int, NEW y \in Int, NEW ds, ds \subseteq Int \X Int
  PROVE  /\ Moved(x, y, ds) \subseteq Int \X Int
         /\ \A pt \in Moved(x, y, ds) : pt = <<pt[1], pt[2]>> /\ <<pt[1] - x, pt[2] - y>> \in ds
         /\ \A a, b \in Int : <<a, b>> \in ds <=> <<x + a, y + b>> \in Moved(x, y, ds)
<1>1. \A d \in ds : d = <<d[1], d[2]>> /\ d[1] \in Int /\ d[2] \in Int
  OBVIOUS
<1>2. ASSUME NEW pt \in Moved(x, y, ds)
      PROVE  pt \in Int \X Int /\ pt = <<pt[1], pt[2]>> /\ <<pt[1] - x, pt[2] - y>> \in ds
  <2>1. PICK d \in ds : pt = <<x + d[1], y + d[2]>>
    BY DEF Moved
  <2>2. pt[1] - x = d[1] /\ pt[2] - y = d[2]
    BY <1>1, <2>1
  <2>3. QED
    BY <1>1, <2>1, <2>2
<1>3. ASSUME NEW a \in Int, NEW b \in Int
      PROVE  <<a, b>> \in ds <=> <<x + a, y + b>> \in Moved(x, y, ds)
  <2>1. <<a, b>> \in ds => <<x + a, y + b>> \in Moved(x, y, ds)
    BY DEF Moved
  <2>2. ASSUME <<x + a, y + b>> \in Moved(x, y, ds) PROVE <<a, b>> \in ds
    <3>1. PICK d \in ds : <<x + a, y + b>> = <<x + d[1], y + d[2]>>
      BY <2>2 DEF Moved
    <3>2. a = d[1] /\ b = d[2]
      BY <1>1, <3>1
    <3>3. QED
      BY <1>1, <3>2
  <2>3. QED
    BY <2>1, <2>2
<1>4. QED
  BY <1>2, <1>3

\* A circle has its rim as one stroke and its inside as the other.
LEMMA CircleDrawn ==
  ASSUME NEW x \in Int, NEW y \in Int, NEW r \in Nat, r > 0, NEW type, NEW fill \in {"black", "none"}
  PROVE  IsSketch(F!circleFilled(x, y, r, "white", fill, type),
                  Moved(x, y, Rim(r, type)) \cup Moved(x, y, Inside(r, type)),
                  Moved(x, y, Rim(r, type)),
                  IF fill = "black" THEN Moved(x, y, Inside(r, type)) ELSE {})
<1> DEFINE rim == Moved(x, y, Rim(r, type))
           inside == Moved(x, y, Inside(r, type))
<1>1. F!circleFilled(x, y, r, "white", fill, type) = F!Stroke(rim, "white") \o F!Stroke(inside, fill)
  <2>1. ~(r = 0)
    OBVIOUS
  <2>2. QED
    BY <2>1, Zenon DEF F!circleFilled, Rim, Inside, Off, Moved
<1>2. rim \subseteq Int \X Int /\ inside \subseteq Int \X Int
  <2>1. Rim(r, type) \subseteq Int \X Int /\ Inside(r, type) \subseteq Int \X Int
    BY CircleBoxIs DEF Rim, Inside
  <2>2. QED
    BY <2>1, MovedIs
<1> HIDE DEF rim, inside
<1>3. IsSketch(F!Stroke(rim, "white"), rim, rim, {})
  BY <1>2, SketchStroke DEF InkSet
<1>4. IsSketch(F!Stroke(inside, fill), inside, {}, IF fill = "black" THEN inside ELSE {})
  <2>1. fill \in InkSet /\ fill # "white"
    BY DEF InkSet
  <2>2. QED
    BY <1>2, <2>1, SketchStroke
<1>5. IsSketch(F!Stroke(rim, "white") \o F!Stroke(inside, fill), rim \cup inside, rim \cup {},
               {} \cup (IF fill = "black" THEN inside ELSE {}))
  BY <1>3, <1>4, SketchJoin
<1>6. rim \cup {} = rim /\ \A S : {} \cup S = S
  OBVIOUS
<1>7. QED
  BY <1>1, <1>5, <1>6 DEF rim, inside

\* A point of the rim by its coordinates.
OnRim(r, a, b) == /\ a \in -r..r /\ b \in -r..r
                  /\ a * a + b * b - r * r < r /\ -(a * a + b * b - r * r) < r

\* The rim by the distance from the centre.
LEMMA OnRimIs ==
  ASSUME NEW r \in Nat, NEW a, NEW b
  PROVE  <<a, b>> \in Rim(r, "Full") <=> OnRim(r, a, b)
BY CircleBoxIs DEF Rim, OnRim, Off

\* The rim is its own mirror image, and so are ...
LEMMA Mirrored ==
  ASSUME NEW r \in Nat, NEW a, NEW b, OnRim(r, a, b)
  PROVE  OnRim(r, -a, b) /\ OnRim(r, a, -b) /\ OnRim(r, b, a)
<1>1. a \in Int /\ b \in Int
  BY DEF OnRim
<1>2. (-a) * (-a) = a * a /\ (-b) * (-b) = b * b
  BY <1>1
<1>3. PICK m \in Int, n \in Int, o \in Int : m = a * a /\ n = b * b /\ o = r * r
  BY <1>1
<1>4. QED
  BY <1>2, <1>3 DEF OnRim

\* Two points of the rim next to one.
Beside(a, b, c, d) == <<c, d>> # <<a, b>> /\ c \in a - 1..a + 1 /\ d \in b - 1..b + 1
HasTwo(r, a, b) ==
  \E c, d, e, f \in Int : /\ <<c, d>> # <<e, f>>
                          /\ OnRim(r, c, d) /\ Beside(a, b, c, d)
                          /\ OnRim(r, e, f) /\ Beside(a, b, e, f)

\* No product: where the squares of what is next to a point lie.
LEMMA Squares ==
  ASSUME NEW a \in Int
  PROVE  /\ a * a \in Nat
         /\ (a + 1) * (a + 1) = a * a + 2 * a + 1
         /\ (a - 1) * (a - 1) = a * a - 2 * a + 1
<1>1. a * a \in Int /\ a * a >= 0
  <2>1. CASE a >= 0
    BY <2>1
  <2>2. CASE a < 0
    BY <2>2
  <2>3. QED
    BY <2>1, <2>2
<1>2. QED
  BY <1>1

\* A greater number has a greater square.
LEMMA SquaresGrow ==
  ASSUME NEW a \in Nat, NEW b \in Nat, a <= b
  PROVE  a * a <= b * b
<1>1. b * b - a * a = (b - a) * (b + a)
  OBVIOUS
<1>2. ASSUME NEW i \in Nat, NEW j \in Nat PROVE i * j \in Nat
  OBVIOUS
<1>3. b - a \in Nat /\ b + a \in Nat
  OBVIOUS
<1>4. (b - a) * (b + a) \in Nat
  BY <1>2, <1>3
<1>5. a * a \in Int /\ b * b \in Int
  OBVIOUS
<1>6. QED
  BY <1>1, <1>4, <1>5

\* In the first eighth of the circle, by the distance of the point next to it.
LEMMA EighthHasTwo ==
  ASSUME NEW r \in Nat, r > 0, NEW a \in Nat, NEW b \in Nat, b <= a, OnRim(r, a, b)
  PROVE  HasTwo(r, a, b)
<1>1. PICK A \in Nat, bb \in Nat, rr \in Nat : A = a * a /\ bb = b * b /\ rr = r * r
  BY Squares
<1>2. a <= r /\ A + bb - rr < r /\ -(A + bb - rr) < r
  BY <1>1 DEF OnRim
<1>3. rr >= r /\ bb <= A /\ (a = r => A = rr) /\ (b >= r => bb >= rr)
  <2>1. rr >= r
    <3>1. 1 <= r /\ r * (r - 1) >= 0 /\ r * (r - 1) = rr - r
      BY <1>1
    <3>2. QED
      BY <1>1, <3>1
  <2>2. QED
    BY <1>1, <2>1, SquaresGrow
<1>4. b < r
  BY <1>2, <1>3
<1>5. /\ (a + 1) * (a + 1) = A + 2 * a + 1 /\ (a - 1) * (a - 1) = A - 2 * a + 1
      /\ (b + 1) * (b + 1) = bb + 2 * b + 1 /\ (b - 1) * (b - 1) = bb - 2 * b + 1
  BY <1>1, Squares
<1> DEFINE o == A + bb - rr
<1>6. /\ OnRim(r, a, b + 1) <=> b + 1 <= r /\ o + 2 * b + 1 < r /\ -(o + 2 * b + 1) < r
      /\ OnRim(r, a, b - 1) <=> o - 2 * b + 1 < r /\ -(o - 2 * b + 1) < r
      /\ OnRim(r, a - 1, b + 1) <=> b + 1 <= r /\ o + 2 * b - 2 * a + 2 < r /\ -(o + 2 * b - 2 * a + 2) < r
      /\ OnRim(r, a + 1, b - 1) <=> a + 1 <= r /\ o + 2 * a - 2 * b + 2 < r /\ -(o + 2 * a - 2 * b + 2) < r
      /\ OnRim(r, a - 1, b - 1) <=> o - 2 * a - 2 * b + 2 < r /\ -(o - 2 * a - 2 * b + 2) < r
      /\ OnRim(r, a - 1, b) <=> o - 2 * a + 1 < r /\ -(o - 2 * a + 1) < r
  <2>1. a \in -r..r /\ b \in -r..r /\ b - 1 \in -r..r /\ a - 1 \in -r..r /\ b + 1 \in Int /\ a + 1 \in Int
        /\ a \in Nat /\ b \in Nat
    BY <1>2, <1>4
  <2>2. QED
    BY <1>1, <1>5, <2>1 DEF OnRim
<1>7. CASE a = b
  <2>1. a > 0
    <3>1. a = 0 => A = 0 /\ bb = 0
      BY <1>1, <1>7
    <3>2. QED
      BY <1>2, <1>3, <3>1
  <2>2. CASE o + 2 < r
    <3>1. OnRim(r, a - 1, a + 1) /\ OnRim(r, a + 1, a - 1)
      BY <1>2, <1>4, <1>6, <1>7, <2>2
    <3>2. QED
      BY <1>7, <3>1 DEF HasTwo, Beside
  <2>3. CASE o + 2 >= r
    <3>1. OnRim(r, a - 1, a)
      BY <1>2, <1>4, <1>6, <1>7, <2>1, <2>3
    <3>2. OnRim(r, a, a - 1)
      BY <3>1, Mirrored
    <3>3. QED
      BY <1>7, <3>1, <3>2 DEF HasTwo, Beside
  <2>4. QED
    BY <2>2, <2>3, <1>1
<1>8. CASE b < a
  <2>1. OnRim(r, a, b + 1) \/ OnRim(r, a - 1, b + 1)
    BY <1>2, <1>4, <1>6, <1>8
  <2>2. OnRim(r, a, b - 1) \/ OnRim(r, a + 1, b - 1) \/ OnRim(r, a - 1, b - 1)
    <3>1. CASE b = 0
      BY <1>2, <1>6, <1>8, <3>1
    <3>2. CASE b > 0
      <4>1. a = r => o = bb
        BY <1>3
      <4>2. bb >= 2 * b - 1
        <5>1. (b - 1) * (b - 1) \in Nat
          BY Squares
        <5>2. QED
          BY <1>5, <5>1
      <4>3. QED
        BY <1>2, <1>6, <1>8, <3>2, <4>1, <4>2
    <3>3. QED
      BY <3>1, <3>2
  <2>3. \A c, e \in {a - 1, a, a + 1} : /\ Beside(a, b, c, b + 1) /\ Beside(a, b, e, b - 1)
                                       /\ <<c, b + 1>> # <<e, b - 1>> /\ c \in Int /\ e \in Int
    BY DEF Beside
  <2>4. PICK c \in {a - 1, a, a + 1}, e \in {a - 1, a, a + 1} : OnRim(r, c, b + 1) /\ OnRim(r, e, b - 1)
    BY <2>1, <2>2
  <2>5. b + 1 \in Int /\ b - 1 \in Int
    OBVIOUS
  <2>6. QED
    BY <2>3, <2>4, <2>5 DEF HasTwo
<1>9. QED
  BY <1>7, <1>8

\* ... the points that have two others of the rim beside them, ...
LEMMA TwoMirrored ==
  ASSUME NEW r \in Nat, NEW a \in Int, NEW b \in Int, HasTwo(r, a, b)
  PROVE  HasTwo(r, -a, b) /\ HasTwo(r, a, -b) /\ HasTwo(r, b, a)
<1>1. PICK c \in Int, d \in Int, e \in Int, f \in Int :
         /\ <<c, d>> # <<e, f>>
         /\ OnRim(r, c, d) /\ Beside(a, b, c, d)
         /\ OnRim(r, e, f) /\ Beside(a, b, e, f)
  BY DEF HasTwo
<1>2. /\ OnRim(r, -c, d) /\ OnRim(r, -e, f) /\ OnRim(r, c, -d) /\ OnRim(r, e, -f)
      /\ OnRim(r, d, c) /\ OnRim(r, f, e)
  BY <1>1, Mirrored
<1>3. /\ <<-c, d>> # <<-e, f>> /\ Beside(-a, b, -c, d) /\ Beside(-a, b, -e, f)
      /\ <<c, -d>> # <<e, -f>> /\ Beside(a, -b, c, -d) /\ Beside(a, -b, e, -f)
      /\ <<d, c>> # <<f, e>> /\ Beside(b, a, d, c) /\ Beside(b, a, f, e)
  BY <1>1 DEF Beside
<1>4. -c \in Int /\ -d \in Int /\ -e \in Int /\ -f \in Int
  OBVIOUS
<1>5. QED
  BY <1>2, <1>3, <1>4 DEF HasTwo

\* ... which all of it have.
LEMMA RimHasTwo ==
  ASSUME NEW r \in Nat, r > 0, NEW a \in Int, NEW b \in Int, OnRim(r, a, b)
  PROVE  HasTwo(r, a, b)
<1>1. ASSUME NEW c \in Nat, NEW d \in Nat, OnRim(r, c, d) PROVE HasTwo(r, c, d)
  <2>1. CASE d <= c
    BY <1>1, <2>1, EighthHasTwo
  <2>2. CASE c <= d
    BY <1>1, <2>2, Mirrored, EighthHasTwo, TwoMirrored
  <2>3. QED
    BY <2>1, <2>2
<1>2. ASSUME NEW c \in Int, NEW d \in Nat, OnRim(r, c, d) PROVE HasTwo(r, c, d)
  <2>1. CASE c >= 0
    BY <1>1, <1>2, <2>1
  <2>2. CASE c < 0
    <3>1. -c \in Nat /\ -(-c) = c
      BY <2>2
    <3>2. HasTwo(r, -c, d)
      BY <1>1, <1>2, <3>1, Mirrored
    <3>3. QED
      BY <3>1, <3>2, TwoMirrored
  <2>3. QED
    BY <2>1, <2>2
<1>3. CASE b >= 0
  BY <1>2, <1>3
<1>4. CASE b < 0
  <2>1. -b \in Nat /\ -(-b) = b
    BY <1>4
  <2>2. HasTwo(r, a, -b)
    BY <1>2, <2>1, Mirrored
  <2>3. QED
    BY <2>1, <2>2, TwoMirrored
<1>5. QED
  BY <1>3, <1>4

\* The number of points is what the library's theorems are about.
LEMMA FigureCardinality == ASSUME NEW S PROVE F!Cardinality(S) = Cardinality(S)
BY DEF F!Cardinality, Cardinality

\* Points that are moved to the centre of the samples.
LEMMA MovedByTen ==
  ASSUME NEW ds, ds \subseteq Int \X Int
  PROVE  /\ Moved(10, 10, ds) \subseteq Int \X Int
         /\ \A pt \in Moved(10, 10, ds) : pt = <<pt[1], pt[2]>> /\ <<pt[1] - 10, pt[2] - 10>> \in ds
         /\ \A a, b \in Int : <<a, b>> \in ds <=> <<10 + a, 10 + b>> \in Moved(10, 10, ds)
<1>1. PICK x \in Int : x = 10
  OBVIOUS
<1>2. /\ Moved(x, x, ds) \subseteq Int \X Int
      /\ \A pt \in Moved(x, x, ds) : pt = <<pt[1], pt[2]>> /\ <<pt[1] - x, pt[2] - x>> \in ds
      /\ \A a, b \in Int : <<a, b>> \in ds <=> <<x + a, x + b>> \in Moved(x, x, ds)
  BY MovedIs
<1>3. QED
  BY <1>1, <1>2

\* circleFilled(), of any radius: the circle is its own mirror image, its rim has no gap, and
\* each part is what the whole has on its side.
THEOREM CircleRound ==
  ASSUME NEW r \in Nat, NEW type
  PROVE  F!CircleIsRound(r, type)
<1> SUFFICES ASSUME r > 0 PROVE F!CircleIsRound(r, type)
  BY DEF F!CircleIsRound
<1> DEFINE full == F!circleFilled(10, 10, r, "white", "black", "Full")
           part == F!circleFilled(10, 10, r, "white", "black", type)
           rim == F!Inked(full, "white")
           side == {<<10 + d[1], 10 + d[2]>> : d \in F!CircleBox(r, type)}
           apart(a, b) == F!GreaterOf(F!Mag(a[1] - b[1]), F!Mag(a[2] - b[2]))
<1>1. /\ F!Touched(full) = Moved(10, 10, Rim(r, "Full")) \cup Moved(10, 10, Inside(r, "Full"))
      /\ rim = Moved(10, 10, Rim(r, "Full")) /\ F!Inked(full, "black") = Moved(10, 10, Inside(r, "Full"))
      /\ F!Inked(part, "white") = Moved(10, 10, Rim(r, type))
      /\ F!Inked(part, "black") = Moved(10, 10, Inside(r, type))
  <2>1. /\ IsSketch(full, Moved(10, 10, Rim(r, "Full")) \cup Moved(10, 10, Inside(r, "Full")),
                    Moved(10, 10, Rim(r, "Full")), Moved(10, 10, Inside(r, "Full")))
        /\ IsSketch(part, Moved(10, 10, Rim(r, type)) \cup Moved(10, 10, Inside(r, type)),
                    Moved(10, 10, Rim(r, type)), Moved(10, 10, Inside(r, type)))
    BY CircleDrawn
  <2> HIDE DEF full, part
  <2>2. QED
    BY <2>1 DEF IsSketch
<1> HIDE DEF full, part
<1>2. /\ Rim(r, "Full") \subseteq Int \X Int /\ Inside(r, "Full") \subseteq Int \X Int
      /\ F!CircleBox(r, type) \subseteq Int \X Int
  BY CircleBoxIs DEF Rim, Inside
<1>3. ASSUME NEW pt \in rim
      PROVE  pt[1] - 10 \in Int /\ pt[2] - 10 \in Int /\ OnRim(r, pt[1] - 10, pt[2] - 10)
             /\ pt = <<pt[1], pt[2]>> /\ pt[1] \in Int /\ pt[2] \in Int
  <2>1. pt \in Moved(10, 10, Rim(r, "Full"))
    BY <1>1
  <2>2. pt = <<pt[1], pt[2]>> /\ <<pt[1] - 10, pt[2] - 10>> \in Rim(r, "Full") /\ pt \in Int \X Int
    BY <1>2, <2>1, MovedByTen
  <2>3. QED
    BY <2>2, OnRimIs
<1>4. ASSUME NEW a \in Int, NEW b \in Int, OnRim(r, a, b) PROVE <<10 + a, 10 + b>> \in rim
  <2>1. <<a, b>> \in Rim(r, "Full")
    BY <1>4, OnRimIs
  <2>2. QED
    BY <1>1, <1>2, <2>1, MovedByTen
<1> HIDE DEF rim
<1>5. ASSUME NEW pt \in rim PROVE {<<20 - pt[1], pt[2]>>, <<pt[2], pt[1]>>} \subseteq rim
  <2>1. PICK a \in Int, b \in Int : a = pt[1] - 10 /\ b = pt[2] - 10 /\ OnRim(r, a, b)
    BY <1>3
  <2>2. <<10 + (-a), 10 + b>> \in rim /\ <<10 + b, 10 + a>> \in rim
    BY <1>4, <2>1, Mirrored
  <2>3. 10 + (-a) = 20 - pt[1] /\ 10 + b = pt[2] /\ 10 + a = pt[1]
    BY <1>3, <2>1
  <2>4. QED
    BY <2>2, <2>3
<1>6. ASSUME NEW pt \in F!Inked(full, "black"), NEW n \in {<<pt[1] + 1, pt[2]>>, <<pt[1], pt[2] + 1>>}
      PROVE  n \in F!Touched(full)
  <2>1. <<pt[1] - 10, pt[2] - 10>> \in Inside(r, "Full") /\ pt \in Int \X Int
    BY <1>1, <1>2, MovedByTen
  <2>2. PICK a \in Int, b \in Int : a = pt[1] - 10 /\ b = pt[2] - 10
    BY <2>1
  <2>3. <<a, b>> \in Inside(r, "Full")
    BY <2>1, <2>2
  <2>4. PICK A \in Nat, bb \in Nat, rr \in Nat : A = a * a /\ bb = b * b /\ rr = r * r
    BY Squares
  <2>5. A + bb - rr <= -r
    <3>1. <<a, b>>[1] = a /\ <<a, b>>[2] = b
      OBVIOUS
    <3>2. Off(r, <<a, b>>) = A + bb - rr
      BY <2>4, <3>1 DEF Off
    <3>3. Off(r, <<a, b>>) < 0 /\ ~(Off(r, <<a, b>>) < r /\ -Off(r, <<a, b>>) < r)
      BY <2>3 DEF Inside, Rim
    <3>4. QED
      BY <3>2, <3>3
  <2>6. ASSUME NEW c \in Int, c * c <= rr - r PROVE c < r /\ -c < r
    <3>1. rr = r * r
      BY <2>4
    <3>2. ASSUME NEW d \in Nat, d * d <= rr - r PROVE d < r
      BY <2>4, <3>2, SquaresGrow
    <3>3. CASE c >= 0
      BY <2>6, <3>2, <3>3
    <3>4. CASE c < 0
      <4>1. (-c) * (-c) = c * c /\ -c \in Nat
        BY <3>4
      <4>2. QED
        BY <2>6, <3>2, <3>4, <4>1
    <3>5. QED
      BY <3>3, <3>4
  <2>7. a < r /\ -a < r /\ b < r /\ -b < r
    <3>1. a * a <= rr - r /\ b * b <= rr - r
      BY <2>4, <2>5
    <3>2. QED
      BY <2>6, <3>1
  <2>8. (a + 1) * (a + 1) = A + 2 * a + 1 /\ (b + 1) * (b + 1) = bb + 2 * b + 1
    BY <2>4, Squares
  <2>9. ASSUME NEW c \in -r..r, NEW d \in -r..r, c * c + d * d - r * r < r
        PROVE  <<10 + c, 10 + d>> \in F!Touched(full)
    <3>1. <<c, d>> \in F!CircleBox(r, "Full") /\ <<c, d>>[1] = c /\ <<c, d>>[2] = d
      BY CircleBoxIs
    <3>2. PICK o \in Int : o = c * c + d * d - r * r /\ o < r /\ Off(r, <<c, d>>) = o
      BY <2>9, <3>1 DEF Off
    <3>3. <<c, d>> \in Rim(r, "Full") \/ <<c, d>> \in Inside(r, "Full")
      BY <3>1, <3>2 DEF Rim, Inside
    <3>4. QED
      BY <1>1, <1>2, <3>3, MovedByTen
  <2>10. <<10 + (a + 1), 10 + b>> \in F!Touched(full)
    <3>1. a + 1 \in -r..r /\ b \in -r..r /\ (A + 2 * a + 1) + bb - rr < r
      BY <2>5, <2>7
    <3>2. (a + 1) * (a + 1) + b * b - r * r < r
      BY <2>4, <2>8, <3>1
    <3>3. QED
      BY <2>9, <3>1, <3>2
  <2>11. <<10 + a, 10 + (b + 1)>> \in F!Touched(full)
    <3>1. b + 1 \in -r..r /\ a \in -r..r /\ A + (bb + 2 * b + 1) - rr < r
      BY <2>5, <2>7
    <3>2. a * a + (b + 1) * (b + 1) - r * r < r
      BY <2>4, <2>8, <3>1
    <3>3. QED
      BY <2>9, <3>1, <3>2
  <2>12. 10 + (a + 1) = pt[1] + 1 /\ 10 + b = pt[2] /\ 10 + a = pt[1] /\ 10 + (b + 1) = pt[2] + 1
    BY <2>1, <2>2
  <2>13. QED
    BY <2>10, <2>11, <2>12
<1>7. ASSUME NEW pt \in rim PROVE F!Cardinality({n \in rim : apart(pt, n) = 1}) >= 2
  <2>1. PICK a \in Int, b \in Int : a = pt[1] - 10 /\ b = pt[2] - 10 /\ OnRim(r, a, b)
    BY <1>3
  <2>2. PICK c \in Int, d \in Int, e \in Int, f \in Int :
           /\ <<c, d>> # <<e, f>>
           /\ OnRim(r, c, d) /\ Beside(a, b, c, d)
           /\ OnRim(r, e, f) /\ Beside(a, b, e, f)
    BY <2>1, RimHasTwo DEF HasTwo
  <2>3. ASSUME NEW i \in Int, NEW j \in Int, Beside(a, b, i, j)
        PROVE  apart(pt, <<10 + i, 10 + j>>) = 1
    <3>1. pt[1] - <<10 + i, 10 + j>>[1] = a - i /\ pt[2] - <<10 + i, 10 + j>>[2] = b - j
      BY <1>3, <2>1
    <3>2. F!GreaterOf(F!Mag(a - i), F!Mag(b - j)) = 1
      BY <2>3 DEF Beside, F!GreaterOf, F!Mag
    <3>3. QED
      BY <3>1, <3>2
  <2> DEFINE Near == {n \in rim : apart(pt, n) = 1}
             two == {<<10 + c, 10 + d>>, <<10 + e, 10 + f>>}
  <2>4. two \subseteq Near
    <3>1. apart(pt, <<10 + c, 10 + d>>) = 1 /\ apart(pt, <<10 + e, 10 + f>>) = 1
      BY <2>2, <2>3
    <3> HIDE DEF apart
    <3>2. QED
      BY <1>4, <2>2, <3>1
  <2>5. Cardinality(two) = 2
    <3>1. <<10 + c, 10 + d>> # <<10 + e, 10 + f>>
      BY <2>2
    <3>2. \A x, y : x # y => Cardinality({x, y}) = 2
      <4> SUFFICES ASSUME NEW x, NEW y, x # y PROVE Cardinality({x, y}) = 2
        OBVIOUS
      <4>1. IsFiniteSet({x}) /\ Cardinality({x}) = 1
        BY FS_Singleton
      <4>2. {x, y} = {x} \cup {y} /\ y \notin {x}
        OBVIOUS
      <4>3. Cardinality({x} \cup {y}) = Cardinality({x}) + 1
        BY <4>1, <4>2, FS_AddElement
      <4>4. QED
        BY <4>1, <4>2, <4>3
    <3>3. QED
      BY <3>1, <3>2
  <2>6. IsFiniteSet(Near)
    <3>1. \A n \in rim : n \in (10 - r..10 + r) \X (10 - r..10 + r)
      BY <1>3 DEF OnRim
    <3>2. IsFiniteSet((10 - r..10 + r) \X (10 - r..10 + r))
      <4>1. 10 - r \in Int /\ 10 + r \in Int
        OBVIOUS
      <4>2. IsFiniteSet(10 - r..10 + r)
        BY <4>1, FS_Interval
      <4>3. QED
        BY <4>2, FS_Product
    <3>3. Near \subseteq (10 - r..10 + r) \X (10 - r..10 + r)
      BY <3>1
    <3>4. QED
      BY <3>2, <3>3, FS_Subset
  <2> HIDE DEF Near, two
  <2>7. Cardinality(two) <= Cardinality(Near) /\ Cardinality(Near) \in Nat
    BY <2>4, <2>6, FS_Subset, FS_CardinalityType
  <2>8. Cardinality(Near) >= 2
    BY <2>5, <2>7
  <2>9. F!Cardinality(Near) >= 2
    BY <2>8, FigureCardinality
  <2>10. QED
    BY <2>9 DEF Near
<1>8. side = Moved(10, 10, F!CircleBox(r, type))
  BY DEF Moved
<1>9. /\ Rim(r, type) = Rim(r, "Full") \cap F!CircleBox(r, type)
      /\ Inside(r, type) = Inside(r, "Full") \cap F!CircleBox(r, type)
  BY CircleBoxIs DEF Rim, Inside
<1> HIDE DEF side
<1>10. ASSUME NEW S, NEW touched, S \subseteq Int \X Int, touched \subseteq Int \X Int
       PROVE  Moved(10, 10, S \cap touched) = Moved(10, 10, S) \cap Moved(10, 10, touched)
  <2>1. Moved(10, 10, S \cap touched) \subseteq Moved(10, 10, S) \cap Moved(10, 10, touched)
    BY DEF Moved
  <2>2. ASSUME NEW pt \in Moved(10, 10, S), pt \in Moved(10, 10, touched) PROVE pt \in Moved(10, 10, S \cap touched)
    <3>1. <<pt[1] - 10, pt[2] - 10>> \in S \cap touched /\ pt \in Int \X Int /\ pt = <<pt[1], pt[2]>>
      BY <1>10, <2>2, MovedByTen
    <3>2. PICK a \in Int, b \in Int : a = pt[1] - 10 /\ b = pt[2] - 10
      BY <3>1
    <3>3. <<a, b>> \in S \cap touched /\ S \cap touched \subseteq Int \X Int
      BY <1>10, <3>1, <3>2
    <3>4. <<10 + a, 10 + b>> \in Moved(10, 10, S \cap touched)
      BY <3>3, MovedByTen
    <3>5. 10 + a = pt[1] /\ 10 + b = pt[2]
      BY <3>1, <3>2
    <3>6. QED
      BY <3>1, <3>4, <3>5
  <2>3. QED
    BY <2>1, <2>2
<1>11. /\ F!Inked(part, "white") = rim \cap side
       /\ F!Inked(part, "black") = F!Inked(full, "black") \cap side
  BY <1>1, <1>2, <1>8, <1>9, <1>10
<1> HIDE DEF apart
<1>12. QED
  BY <1>5, <1>6, <1>7, <1>11 DEF F!CircleIsRound, full, part, rim, side, apart

\* A point of a part of a circle, by its coordinates.
InPart(r, type, a, b) ==
  /\ a \in -r..r /\ b \in -r..r /\ a * a + b * b - r * r < r
  /\ type \in {"QuarterTopRight", "QuarterBottomRight"} => a >= 0
  /\ type \in {"QuarterTopLeft", "QuarterBottomLeft"} => a <= 0
  /\ type \in {"QuarterTopLeft", "QuarterTopRight"} => b <= 0
  /\ type \in {"QuarterBottomLeft", "QuarterBottomRight"} => b >= 0

Quarters == {"QuarterTopLeft", "QuarterTopRight", "QuarterBottomLeft", "QuarterBottomRight"}

\* A quarter of a circle, which has no points if the radius is zero.
Quarter(x, y, r, type) ==
  IF r = 0 THEN {} ELSE {<<x + d[1], y + d[2]>> : d \in {d \in Int \X Int : InPart(r, type, d[1], d[2])}}

\* The box of each quarter.
LEMMA QuarterBox ==
  ASSUME NEW r \in Nat, NEW type \in Quarters, NEW a, NEW b
  PROVE  <<a, b>> \in F!CircleBox(r, type) <=>
           /\ a \in -r..r /\ b \in -r..r
           /\ type \in {"QuarterTopRight", "QuarterBottomRight"} => a >= 0
           /\ type \in {"QuarterTopLeft", "QuarterBottomLeft"} => a <= 0
           /\ type \in {"QuarterTopLeft", "QuarterTopRight"} => b <= 0
           /\ type \in {"QuarterBottomLeft", "QuarterBottomRight"} => b >= 0
<1>1. CASE type = "QuarterTopLeft"
  <2>1. F!CircleBox(r, type) = (-r..0) \X (-r..0)
    BY <1>1 DEF F!CircleBox
  <2>2. QED
    BY <1>1, <2>1
<1>2. CASE type = "QuarterTopRight"
  <2>1. F!CircleBox(r, type) = (0..r) \X (-r..0)
    BY <1>2 DEF F!CircleBox
  <2>2. QED
    BY <1>2, <2>1
<1>3. CASE type = "QuarterBottomLeft"
  <2>1. F!CircleBox(r, type) = (-r..0) \X (0..r)
    BY <1>3 DEF F!CircleBox
  <2>2. QED
    BY <1>3, <2>1
<1>4. CASE type = "QuarterBottomRight"
  <2>1. F!CircleBox(r, type) = (0..r) \X (0..r)
    BY <1>4 DEF F!CircleBox
  <2>2. QED
    BY <1>4, <2>1
<1>5. QED
  BY <1>1, <1>2, <1>3, <1>4 DEF Quarters

\* What is drawn of a quarter ...
LEMMA QuarterDrawn ==
  ASSUME NEW x \in Int, NEW y \in Int, NEW r \in Nat, NEW type \in Quarters
  PROVE  /\ F!circleFilled(x, y, r, "white", "none", type) \in Sketches
         /\ F!Touched(F!circleFilled(x, y, r, "white", "none", type)) = Quarter(x, y, r, type)
<1>1. CASE r = 0
  <2>1. F!circleFilled(x, y, r, "white", "none", type) = << >>
    BY <1>1, Zenon DEF F!circleFilled
  <2>2. QED
    BY <1>1, <2>1, SketchNone DEF IsSketch, Quarter
<1>2. CASE r > 0
  <2> DEFINE s == F!circleFilled(x, y, r, "white", "none", type)
             all == Moved(x, y, Rim(r, type)) \cup Moved(x, y, Inside(r, type))
  <2>1. IsSketch(s, all, Moved(x, y, Rim(r, type)), {})
    BY <1>2, CircleDrawn
  <2>2. Rim(r, type) \cup Inside(r, type) = {d \in Int \X Int : InPart(r, type, d[1], d[2])}
    <3>1. ASSUME NEW a, NEW b
          PROVE  <<a, b>> \in Rim(r, type) \cup Inside(r, type) <=> InPart(r, type, a, b)
      <4>1. CASE <<a, b>> \in F!CircleBox(r, type)
        <5>1. a \in Int /\ b \in Int /\ <<a, b>>[1] = a /\ <<a, b>>[2] = b
          BY <4>1, QuarterBox
        <5>2. PICK o \in Int : o = a * a + b * b - r * r /\ Off(r, <<a, b>>) = o
          BY <5>1 DEF Off
        <5>3. <<a, b>> \in Rim(r, type) \cup Inside(r, type) <=> o < r
          BY <1>2, <4>1, <5>2 DEF Rim, Inside
        <5>4. QED
          BY <4>1, <5>2, <5>3, QuarterBox DEF InPart
      <4>2. CASE <<a, b>> \notin F!CircleBox(r, type)
        BY <4>2, QuarterBox DEF Rim, Inside, InPart
      <4>3. QED
        BY <4>1, <4>2
    <3>2. Rim(r, type) \cup Inside(r, type) \subseteq Int \X Int
      BY CircleBoxIs DEF Rim, Inside
    <3>3. \A d \in Int \X Int : d = <<d[1], d[2]>>
      OBVIOUS
    <3>4. QED
      BY <3>1, <3>2, <3>3
  <2>3. all = Moved(x, y, Rim(r, type) \cup Inside(r, type))
    BY DEF Moved
  <2> HIDE DEF s, all
  <2>4. all = Quarter(x, y, r, type)
    BY <1>2, <2>2, <2>3 DEF Quarter, Moved
  <2>5. QED
    BY <2>1, <2>4 DEF IsSketch, s
<1>3. QED
  BY <1>1, <1>2

\* ... has a point if it has it, seen from the centre.
LEMMA QuarterHas ==
  ASSUME NEW x \in Int, NEW y \in Int, NEW r \in Nat, NEW type, NEW a \in Int, NEW b \in Int
  PROVE  <<a, b>> \in Quarter(x, y, r, type) <=> r > 0 /\ InPart(r, type, a - x, b - y)
<1>1. CASE r = 0
  BY <1>1 DEF Quarter
<1>2. CASE r > 0
  <2>1. ASSUME <<a, b>> \in Quarter(x, y, r, type) PROVE InPart(r, type, a - x, b - y)
    <3>1. PICK d \in Int \X Int : InPart(r, type, d[1], d[2]) /\ <<a, b>> = <<x + d[1], y + d[2]>>
      BY <1>2, <2>1 DEF Quarter
    <3>2. d[1] = a - x /\ d[2] = b - y
      BY <3>1
    <3>3. QED
      BY <3>1, <3>2
  <2>2. ASSUME InPart(r, type, a - x, b - y) PROVE <<a, b>> \in Quarter(x, y, r, type)
    <3> DEFINE d == <<a - x, b - y>>
    <3>1. d \in Int \X Int /\ d[1] = a - x /\ d[2] = b - y /\ <<a, b>> = <<x + (a - x), y + (b - y)>>
      OBVIOUS
    <3> HIDE DEF d
    <3>2. QED
      BY <1>2, <2>2, <3>1 DEF Quarter
  <2>3. QED
    BY <1>2, <2>1, <2>2
<1>3. QED
  BY <1>1, <1>2

\* Quarters are points.
LEMMA QuarterTyped ==
  ASSUME NEW x \in Int, NEW y \in Int, NEW r \in Nat, NEW type
  PROVE  Quarter(x, y, r, type) \subseteq Int \X Int
<1>1. ASSUME NEW d \in Int \X Int PROVE <<x + d[1], y + d[2]>> \in Int \X Int
  OBVIOUS
<1>2. QED
  BY <1>1 DEF Quarter

\* The parts are each other's mirror image.
LEMMA PartMirrored ==
  ASSUME NEW r \in Nat, NEW a \in Int, NEW b \in Int
  PROVE  /\ InPart(r, "QuarterTopLeft", a, b) <=> InPart(r, "QuarterTopRight", -a, b)
         /\ InPart(r, "QuarterBottomLeft", a, b) <=> InPart(r, "QuarterBottomRight", -a, b)
         /\ InPart(r, "QuarterTopLeft", a, b) <=> InPart(r, "QuarterBottomLeft", a, -b)
         /\ InPart(r, "QuarterTopRight", a, b) <=> InPart(r, "QuarterBottomRight", a, -b)
<1>1. (-a) * (-a) = a * a /\ (-b) * (-b) = b * b
  OBVIOUS
<1>2. PICK m \in Int, n \in Int, o \in Int : m = a * a /\ n = b * b /\ o = r * r
  OBVIOUS
<1>3. QED
  BY <1>1, <1>2 DEF InPart

\* Strokes after strokes touch what either touches ...
LEMMA TouchedJoin ==
  ASSUME NEW s \in Sketches, NEW t \in Sketches
  PROVE  s \o t \in Sketches /\ F!Touched(s \o t) = F!Touched(s) \cup F!Touched(t)
BY SketchJoin DEF IsSketch

\* ... and the stroke of a box the box.
LEMMA TouchedBox ==
  ASSUME NEW x \in Int, NEW y \in Int, NEW w \in Int, NEW h \in Int
  PROVE  /\ F!Stroke(F!Box(x, y, w, h), "white") \in Sketches
         /\ F!Touched(F!Stroke(F!Box(x, y, w, h), "white")) = F!Box(x, y, w, h)
BY SketchBox DEF IsSketch

\* What a rounded rectangle is made of.
Outline(x, y, w, h, r) ==
  F!Box(x + r, y, w - 2 * r, 1) \cup F!Box(x + r, y + h - 1, w - 2 * r, 1)
  \cup F!Box(x, y + r, 1, h - 2 * r) \cup F!Box(x + w - 1, y + r, 1, h - 2 * r)
  \cup Quarter(x + r, y + r, r, "QuarterTopLeft")
  \cup Quarter(x + w - r - 1, y + r, r, "QuarterTopRight")
  \cup Quarter(x + w - r - 1, y + h - r - 1, r, "QuarterBottomRight")
  \cup Quarter(x + r, y + h - r - 1, r, "QuarterBottomLeft")

\* A rounded rectangle is drawn as that.
LEMMA OutlineDrawn ==
  ASSUME NEW x \in Nat, NEW y \in Nat, x <= 100, y <= 100, NEW w \in Nat, NEW h \in Nat, NEW r \in Nat,
         w > 2 * r, h > 2 * r
  PROVE  F!Touched(F!rectangleRounded(100, 100, x, y, w, h, r, "white")) = Outline(x, y, w, h, r)
<1> DEFINE s1 == F!lineHorizontal(x + r, y, w - 2 * r, "white")
           s2 == F!lineHorizontal(x + r, y + h - 1, w - 2 * r, "white")
           s3 == F!lineVertical(x, y + r, h - 2 * r, "white")
           s4 == F!lineVertical(x + w - 1, y + r, h - 2 * r, "white")
           s5 == F!circleFilled(x + r, y + r, r, "white", "none", "QuarterTopLeft")
           s6 == F!circleFilled(x + w - r - 1, y + r, r, "white", "none", "QuarterTopRight")
           s7 == F!circleFilled(x + w - r - 1, y + h - r - 1, r, "white", "none", "QuarterBottomRight")
           s8 == F!circleFilled(x + r, y + h - r - 1, r, "white", "none", "QuarterBottomLeft")
<1>1. F!rectangleRounded(100, 100, x, y, w, h, r, "white") =
        (s1 \o s2 \o s3 \o s4 \o s5 \o s6 \o s7 \o s8) \o << >>
  <2>1. F!Transparent = "none"
    BY DEF F!Transparent
  <2>2. ~(2 * r > F!LesserOf(w, h))
    BY DEF F!LesserOf
  <2>3. ~(x > 100 \/ y > 100 \/ w = 0 \/ h = 0)
    OBVIOUS
  <2>4. F!rectangleRoundedFilled(100, 100, x, y, w, h, r, "white", "none") =
          (s1 \o s2 \o s3 \o s4 \o s5 \o s6 \o s7 \o s8) \o << >>
    BY <2>1, <2>2, <2>3, Zenon DEF F!rectangleRoundedFilled
  <2>5. QED
    BY <2>1, <2>4, Zenon DEF F!rectangleRounded
<1>2. /\ x + r \in Int /\ y + h - 1 \in Int /\ w - 2 * r \in Int /\ h - 2 * r \in Int /\ y + r \in Int
      /\ x + w - 1 \in Int /\ x + w - r - 1 \in Int /\ y + h - r - 1 \in Int
      /\ x \in Int /\ y \in Int /\ 1 \in Int
  OBVIOUS
<1>3. /\ s1 \in Sketches /\ F!Touched(s1) = F!Box(x + r, y, w - 2 * r, 1)
      /\ s2 \in Sketches /\ F!Touched(s2) = F!Box(x + r, y + h - 1, w - 2 * r, 1)
      /\ s3 \in Sketches /\ F!Touched(s3) = F!Box(x, y + r, 1, h - 2 * r)
      /\ s4 \in Sketches /\ F!Touched(s4) = F!Box(x + w - 1, y + r, 1, h - 2 * r)
  BY <1>2, TouchedBox DEF F!lineHorizontal, F!lineVertical
<1>4. /\ s5 \in Sketches /\ F!Touched(s5) = Quarter(x + r, y + r, r, "QuarterTopLeft")
      /\ s6 \in Sketches /\ F!Touched(s6) = Quarter(x + w - r - 1, y + r, r, "QuarterTopRight")
      /\ s7 \in Sketches /\ F!Touched(s7) = Quarter(x + w - r - 1, y + h - r - 1, r, "QuarterBottomRight")
      /\ s8 \in Sketches /\ F!Touched(s8) = Quarter(x + r, y + h - r - 1, r, "QuarterBottomLeft")
  <2>1. /\ "QuarterTopLeft" \in Quarters /\ "QuarterTopRight" \in Quarters
        /\ "QuarterBottomLeft" \in Quarters /\ "QuarterBottomRight" \in Quarters
    BY DEF Quarters
  <2>2. QED
    BY <1>2, <2>1, QuarterDrawn
<1> HIDE DEF s1, s2, s3, s4, s5, s6, s7, s8
<1>5. << >> \in Sketches /\ F!Touched(<< >>) = {}
  BY SketchNone DEF IsSketch
<1>6. /\ s1 \o s2 \in Sketches /\ F!Touched(s1 \o s2) = F!Touched(s1) \cup F!Touched(s2)
      /\ s1 \o s2 \o s3 \in Sketches
      /\ F!Touched(s1 \o s2 \o s3) = F!Touched(s1) \cup F!Touched(s2) \cup F!Touched(s3)
      /\ s1 \o s2 \o s3 \o s4 \in Sketches
      /\ F!Touched(s1 \o s2 \o s3 \o s4) =
           F!Touched(s1) \cup F!Touched(s2) \cup F!Touched(s3) \cup F!Touched(s4)
  BY <1>3, TouchedJoin
<1>7. PICK t \in Sketches : t = s1 \o s2 \o s3 \o s4
  BY <1>6
<1>8. /\ t \o s5 \in Sketches /\ F!Touched(t \o s5) = F!Touched(t) \cup F!Touched(s5)
      /\ t \o s5 \o s6 \in Sketches
      /\ F!Touched(t \o s5 \o s6) = F!Touched(t) \cup F!Touched(s5) \cup F!Touched(s6)
      /\ t \o s5 \o s6 \o s7 \in Sketches
      /\ F!Touched(t \o s5 \o s6 \o s7) =
           F!Touched(t) \cup F!Touched(s5) \cup F!Touched(s6) \cup F!Touched(s7)
      /\ t \o s5 \o s6 \o s7 \o s8 \in Sketches
      /\ F!Touched(t \o s5 \o s6 \o s7 \o s8) =
           F!Touched(t) \cup F!Touched(s5) \cup F!Touched(s6) \cup F!Touched(s7) \cup F!Touched(s8)
  BY <1>4, TouchedJoin
<1>9. F!Touched((t \o s5 \o s6 \o s7 \o s8) \o << >>) =
        F!Touched(t) \cup F!Touched(s5) \cup F!Touched(s6) \cup F!Touched(s7) \cup F!Touched(s8)
  BY <1>5, <1>8, TouchedJoin
<1>10. QED
  BY <1>1, <1>3, <1>4, <1>6, <1>7, <1>9 DEF Outline

\* The same, by coordinates.
InOutline(x, y, w, h, r, a, b) ==
  \/ x + r <= a /\ a < x + w - r /\ (b = y \/ b = y + h - 1)
  \/ y + r <= b /\ b < y + h - r /\ (a = x \/ a = x + w - 1)
  \/ r > 0 /\ InPart(r, "QuarterTopLeft", a - (x + r), b - (y + r))
  \/ r > 0 /\ InPart(r, "QuarterTopRight", a - (x + w - r - 1), b - (y + r))
  \/ r > 0 /\ InPart(r, "QuarterBottomRight", a - (x + w - r - 1), b - (y + h - r - 1))
  \/ r > 0 /\ InPart(r, "QuarterBottomLeft", a - (x + r), b - (y + h - r - 1))

\* The outline, point by point.
LEMMA OutlineHas ==
  ASSUME NEW x \in Nat, NEW y \in Nat, NEW w \in Nat, NEW h \in Nat, NEW r \in Nat
  PROVE  /\ Outline(x, y, w, h, r) \subseteq Int \X Int
         /\ \A a, b \in Int : <<a, b>> \in Outline(x, y, w, h, r) <=> InOutline(x, y, w, h, r, a, b)
<1>1. /\ x + r \in Int /\ y + h - 1 \in Int /\ w - 2 * r \in Int /\ h - 2 * r \in Int /\ y + r \in Int
      /\ x + w - 1 \in Int /\ x + w - r - 1 \in Int /\ y + h - r - 1 \in Int
      /\ x \in Int /\ y \in Int /\ 1 \in Int
  OBVIOUS
<1>2. Outline(x, y, w, h, r) \subseteq Int \X Int
  <2>1. /\ F!Box(x + r, y, w - 2 * r, 1) \subseteq Int \X Int
        /\ F!Box(x + r, y + h - 1, w - 2 * r, 1) \subseteq Int \X Int
        /\ F!Box(x, y + r, 1, h - 2 * r) \subseteq Int \X Int
        /\ F!Box(x + w - 1, y + r, 1, h - 2 * r) \subseteq Int \X Int
    <3>1. ASSUME NEW i \in Int, NEW j \in Int, NEW k \in Int, NEW l \in Int
          PROVE  F!Box(i, j, k, l) \subseteq Int \X Int
      BY BoxIs
    <3>2. QED
      BY <1>1, <3>1, Zenon
  <2>2. /\ Quarter(x + r, y + r, r, "QuarterTopLeft") \subseteq Int \X Int
        /\ Quarter(x + w - r - 1, y + r, r, "QuarterTopRight") \subseteq Int \X Int
        /\ Quarter(x + w - r - 1, y + h - r - 1, r, "QuarterBottomRight") \subseteq Int \X Int
        /\ Quarter(x + r, y + h - r - 1, r, "QuarterBottomLeft") \subseteq Int \X Int
    BY <1>1, QuarterTyped
  <2>3. QED
    BY <2>1, <2>2, Zenon DEF Outline
<1>3. ASSUME NEW a \in Int, NEW b \in Int
      PROVE  <<a, b>> \in Outline(x, y, w, h, r) <=> InOutline(x, y, w, h, r, a, b)
  <2>1. /\ <<a, b>> \in F!Box(x + r, y, w - 2 * r, 1) <=> x + r <= a /\ a < x + w - r /\ b = y
        /\ <<a, b>> \in F!Box(x + r, y + h - 1, w - 2 * r, 1) <=>
             x + r <= a /\ a < x + w - r /\ b = y + h - 1
        /\ <<a, b>> \in F!Box(x, y + r, 1, h - 2 * r) <=> y + r <= b /\ b < y + h - r /\ a = x
        /\ <<a, b>> \in F!Box(x + w - 1, y + r, 1, h - 2 * r) <=>
             y + r <= b /\ b < y + h - r /\ a = x + w - 1
    BY <1>1 DEF F!Box
  <2>2. QED
    BY <1>1, <2>1, QuarterHas DEF Outline, InOutline
<1>4. QED
  BY <1>2, <1>3

\* It is its own mirror image.
LEMMA OutlineMirrored ==
  ASSUME NEW x \in Nat, NEW y \in Nat, NEW w \in Nat, NEW h \in Nat, NEW r \in Nat,
         NEW a \in Int, NEW b \in Int, InOutline(x, y, w, h, r, a, b)
  PROVE  /\ InOutline(x, y, w, h, r, 2 * x + w - 1 - a, b)
         /\ InOutline(x, y, w, h, r, a, 2 * y + h - 1 - b)
<1> DEFINE c == 2 * x + w - 1 - a
           d == 2 * y + h - 1 - b
<1>1. /\ c - (x + r) = -(a - (x + w - r - 1)) /\ c - (x + w - r - 1) = -(a - (x + r))
      /\ d - (y + r) = -(b - (y + h - r - 1)) /\ d - (y + h - r - 1) = -(b - (y + r))
  OBVIOUS
<1>2. /\ a - (x + w - r - 1) \in Int /\ a - (x + r) \in Int
      /\ b - (y + h - r - 1) \in Int /\ b - (y + r) \in Int
  OBVIOUS
<1>3. c \in Int /\ d \in Int /\ a = 2 * x + w - 1 - c /\ b = 2 * y + h - 1 - d
  OBVIOUS
<1>4. \A i \in Int : -(-i) = i
  OBVIOUS
<1>5. /\ \A i, j \in Int : InPart(r, "QuarterTopLeft", i, j) => InPart(r, "QuarterTopRight", -i, j)
      /\ \A i, j \in Int : InPart(r, "QuarterTopRight", i, j) => InPart(r, "QuarterTopLeft", -i, j)
      /\ \A i, j \in Int : InPart(r, "QuarterBottomLeft", i, j) => InPart(r, "QuarterBottomRight", -i, j)
      /\ \A i, j \in Int : InPart(r, "QuarterBottomRight", i, j) => InPart(r, "QuarterBottomLeft", -i, j)
      /\ \A i, j \in Int : InPart(r, "QuarterTopLeft", i, j) => InPart(r, "QuarterBottomLeft", i, -j)
      /\ \A i, j \in Int : InPart(r, "QuarterBottomLeft", i, j) => InPart(r, "QuarterTopLeft", i, -j)
      /\ \A i, j \in Int : InPart(r, "QuarterTopRight", i, j) => InPart(r, "QuarterBottomRight", i, -j)
      /\ \A i, j \in Int : InPart(r, "QuarterBottomRight", i, j) => InPart(r, "QuarterTopRight", i, -j)
  <2>1. \A i \in Int : -i \in Int
    OBVIOUS
  <2>2. QED
    BY <1>4, <2>1, PartMirrored
<1>6. InOutline(x, y, w, h, r, c, b)
  <2>1. CASE x + r <= a /\ a < x + w - r /\ (b = y \/ b = y + h - 1)
    BY <2>1 DEF InOutline
  <2>2. CASE y + r <= b /\ b < y + h - r /\ (a = x \/ a = x + w - 1)
    BY <2>2 DEF InOutline
  <2> HIDE DEF c
  <2>3. CASE r > 0 /\ InPart(r, "QuarterTopLeft", a - (x + r), b - (y + r))
    BY <1>1, <1>2, <1>5, <2>3 DEF InOutline
  <2>4. CASE r > 0 /\ InPart(r, "QuarterTopRight", a - (x + w - r - 1), b - (y + r))
    BY <1>1, <1>2, <1>5, <2>4 DEF InOutline
  <2>5. CASE r > 0 /\ InPart(r, "QuarterBottomRight", a - (x + w - r - 1), b - (y + h - r - 1))
    BY <1>1, <1>2, <1>5, <2>5 DEF InOutline
  <2>6. CASE r > 0 /\ InPart(r, "QuarterBottomLeft", a - (x + r), b - (y + h - r - 1))
    BY <1>1, <1>2, <1>5, <2>6 DEF InOutline
  <2>7. QED
    BY <2>1, <2>2, <2>3, <2>4, <2>5, <2>6 DEF InOutline
<1>7. InOutline(x, y, w, h, r, a, d)
  <2>1. CASE x + r <= a /\ a < x + w - r /\ (b = y \/ b = y + h - 1)
    BY <2>1 DEF InOutline
  <2>2. CASE y + r <= b /\ b < y + h - r /\ (a = x \/ a = x + w - 1)
    BY <2>2 DEF InOutline
  <2> HIDE DEF d
  <2>3. CASE r > 0 /\ InPart(r, "QuarterTopLeft", a - (x + r), b - (y + r))
    BY <1>1, <1>2, <1>5, <2>3 DEF InOutline
  <2>4. CASE r > 0 /\ InPart(r, "QuarterTopRight", a - (x + w - r - 1), b - (y + r))
    BY <1>1, <1>2, <1>5, <2>4 DEF InOutline
  <2>5. CASE r > 0 /\ InPart(r, "QuarterBottomRight", a - (x + w - r - 1), b - (y + h - r - 1))
    BY <1>1, <1>2, <1>5, <2>5 DEF InOutline
  <2>6. CASE r > 0 /\ InPart(r, "QuarterBottomLeft", a - (x + r), b - (y + h - r - 1))
    BY <1>1, <1>2, <1>5, <2>6 DEF InOutline
  <2>7. QED
    BY <2>1, <2>2, <2>3, <2>4, <2>5, <2>6 DEF InOutline
<1>8. QED
  BY <1>6, <1>7

\* rectangleRounded(), of any radius and size with room for its corners, lies in its box,
\* touches its sides and is its own mirror image.
THEOREM RoundedFramed ==
  ASSUME NEW x \in Nat, NEW y \in Nat, x <= 100, y <= 100, NEW w \in Nat, NEW h \in Nat, NEW r \in Nat
  PROVE  F!RoundedIsFramed(x, y, w, h, r)
<1> SUFFICES ASSUME w > 2 * r, h > 2 * r PROVE F!RoundedIsFramed(x, y, w, h, r)
  BY DEF F!RoundedIsFramed
<1> DEFINE points == F!Touched(F!rectangleRounded(100, 100, x, y, w, h, r, "white"))
<1>1. points = Outline(x, y, w, h, r)
  BY OutlineDrawn
<1> HIDE DEF points
<1>2. /\ points \subseteq Int \X Int
      /\ \A a, b \in Int : <<a, b>> \in points <=> InOutline(x, y, w, h, r, a, b)
  BY <1>1, OutlineHas
<1>3. ASSUME NEW pt \in points
      PROVE  /\ pt \in F!Box(x, y, w, h)
             /\ {<<2 * x + w - 1 - pt[1], pt[2]>>, <<pt[1], 2 * y + h - 1 - pt[2]>>} \subseteq points
  <2>1. PICK a \in Int, b \in Int : pt = <<a, b>> /\ pt[1] = a /\ pt[2] = b
    BY <1>2
  <2>2. InOutline(x, y, w, h, r, a, b)
    BY <1>2, <2>1
  <2>3. x <= a /\ a < x + w /\ y <= b /\ b < y + h
    BY <2>2 DEF InOutline, InPart
  <2>4. pt \in F!Box(x, y, w, h)
    BY <2>1, <2>3 DEF F!Box
  <2>5. 2 * x + w - 1 - a \in Int /\ 2 * y + h - 1 - b \in Int
    OBVIOUS
  <2>6. <<2 * x + w - 1 - a, b>> \in points /\ <<a, 2 * y + h - 1 - b>> \in points
    BY <1>2, <2>2, <2>5, OutlineMirrored
  <2>7. QED
    BY <2>1, <2>4, <2>6
<1>4. ASSUME NEW side \in {F!Box(x, y, w, 1), F!Box(x, y, 1, h)} PROVE side \cap points # {}
  <2>1. InOutline(x, y, w, h, r, x + r, y) /\ InOutline(x, y, w, h, r, x, y + r)
    BY DEF InOutline
  <2>2. <<x + r, y>> \in points /\ <<x, y + r>> \in points
    BY <1>2, <2>1
  <2>3. <<x + r, y>> \in F!Box(x, y, w, 1) /\ <<x, y + r>> \in F!Box(x, y, 1, h)
    BY DEF F!Box
  <2>4. QED
    BY <2>2, <2>3
<1>5. QED
  BY <1>3, <1>4 DEF F!RoundedIsFramed, points

-----------------------------------------------------------------------------
(* Lines.                                                                  *)

\* The steps along the shorter side after j steps along the longer.
Minor(dx, dy, j) == (2 * (dy * j) + dx) \div (2 * dx)

\* The error term then.
Err(dx, dy, j) == 2 * (dy * j) + 2 * dy - dx - 2 * (dx * Minor(dx, dy, j))

\* They are the number the rounded quotient is, ...
LEMMA MinorFacts ==
  ASSUME NEW dx \in Nat \ {0}, NEW dy \in Nat, NEW j \in Nat
  PROVE  /\ Minor(dx, dy, j) \in Nat /\ dy * j \in Nat /\ dx * Minor(dx, dy, j) \in Nat
         /\ 2 * (dx * Minor(dx, dy, j)) <= 2 * (dy * j) + dx
         /\ 2 * (dy * j) + dx < 2 * (dx * Minor(dx, dy, j)) + 2 * dx
<1>1. dy * j \in Nat
  OBVIOUS
<1>2. PICK m \in Nat : m = dy * j
  BY <1>1
<1>3. 2 * m + dx \in Nat /\ 2 * dx \in Nat \ {0}
  OBVIOUS
<1>4. PICK a \in Nat, k \in Nat \ {0} : a = 2 * m + dx /\ k = 2 * dx
  BY <1>3
<1>5. a \div k \in Nat /\ a = k * (a \div k) + (a % k) /\ a % k \in 0..k - 1
  BY Division
<1>6. PICK n \in Nat : n = a \div k
  BY <1>5
<1>7. Minor(dx, dy, j) = n
  BY <1>2, <1>4, <1>6 DEF Minor
<1>8. k * n <= a /\ a < k * n + k
  BY <1>5, <1>6
<1>9. k * n = 2 * (dx * n) /\ dx * n \in Nat
  BY <1>4
<1>10. QED
  BY <1>1, <1>2, <1>4, <1>7, <1>8, <1>9

\* ... and no other number is.
LEMMA MinorIs ==
  ASSUME NEW dx \in Nat \ {0}, NEW dy \in Nat, NEW j \in Nat, NEW k \in Int,
         2 * (dx * k) <= 2 * (dy * j) + dx, 2 * (dy * j) + dx < 2 * (dx * k) + 2 * dx
  PROVE  Minor(dx, dy, j) = k
<1>1. dy * j \in Nat /\ dx * k \in Int
  OBVIOUS
<1>2. PICK m \in Nat, o \in Int : m = dy * j /\ o = dx * k
  BY <1>1
<1>3. 2 * m + dx \in Nat /\ 2 * dx \in Nat \ {0} /\ (2 * dx) * k = 2 * o
  BY <1>2
<1>4. PICK a \in Nat, n \in Nat \ {0} : a = 2 * m + dx /\ n = 2 * dx /\ n * k = 2 * o
  BY <1>3
<1>5. n * k <= a /\ a < n * k + n
  BY <1>2, <1>4
<1>6. a \div n = k
  BY <1>5, QuotientIs
<1>7. QED
  BY <1>2, <1>4, <1>6 DEF Minor

\* The first and the last step, and a step in between, which goes along the shorter side
\* if the error term is not negative.
LEMMA MinorSteps ==
  ASSUME NEW dx \in Nat \ {0}, NEW dy \in Nat, dy <= dx
  PROVE  /\ Minor(dx, dy, 0) = 0 /\ Minor(dx, dy, dx) = dy
         /\ \A j \in Nat :
              /\ Minor(dx, dy, j + 1) = Minor(dx, dy, j) + (IF Err(dx, dy, j) >= 0 THEN 1 ELSE 0)
              /\ Err(dx, dy, j + 1) =
                   Err(dx, dy, j) + 2 * dy - (IF Err(dx, dy, j) >= 0 THEN 2 * dx ELSE 0)
              /\ Err(dx, dy, j) \in Int
<1>1. Minor(dx, dy, 0) = 0
  <2>1. dy * 0 = 0 /\ dx * 0 = 0
    OBVIOUS
  <2>2. QED
    BY <2>1, MinorIs
<1>2. Minor(dx, dy, dx) = dy
  <2>1. PICK m \in Nat : m = dy * dx /\ m = dx * dy
    OBVIOUS
  <2>2. 2 * (dx * dy) <= 2 * (dy * dx) + dx /\ 2 * (dy * dx) + dx < 2 * (dx * dy) + 2 * dx
    BY <2>1
  <2>3. dx \in Nat /\ dy \in Int
    OBVIOUS
  <2>4. QED
    BY <2>2, <2>3, MinorIs
<1>3. ASSUME NEW j \in Nat
      PROVE  /\ Minor(dx, dy, j + 1) = Minor(dx, dy, j) + (IF Err(dx, dy, j) >= 0 THEN 1 ELSE 0)
             /\ Err(dx, dy, j + 1) =
                  Err(dx, dy, j) + 2 * dy - (IF Err(dx, dy, j) >= 0 THEN 2 * dx ELSE 0)
             /\ Err(dx, dy, j) \in Int
  <2>1. PICK k \in Nat : k = Minor(dx, dy, j)
    BY MinorFacts
  <2>2. PICK m \in Nat, o \in Nat : m = dy * j /\ o = dx * k
    OBVIOUS
  <2>3. 2 * o <= 2 * m + dx /\ 2 * m + dx < 2 * o + 2 * dx
    BY <2>1, <2>2, MinorFacts
  <2>4. Err(dx, dy, j) = 2 * m + 2 * dy - dx - 2 * o
    BY <2>1, <2>2 DEF Err
  <2>5. dy * (j + 1) = m + dy /\ dx * (k + 1) = o + dx /\ j + 1 \in Nat /\ k + 1 \in Int /\ k \in Int
    BY <2>2
  <2>6. CASE Err(dx, dy, j) >= 0
    <3>1. 2 * (dx * (k + 1)) <= 2 * (dy * (j + 1)) + dx
      BY <2>4, <2>5, <2>6
    <3>2. 2 * (dy * (j + 1)) + dx < 2 * (dx * (k + 1)) + 2 * dx
      BY <2>3, <2>5
    <3>3. Minor(dx, dy, j + 1) = k + 1
      BY <2>5, <3>1, <3>2, MinorIs
    <3>4. Err(dx, dy, j + 1) = 2 * (m + dy) + 2 * dy - dx - 2 * (o + dx)
      BY <2>5, <3>3 DEF Err
    <3>5. QED
      BY <2>1, <2>4, <2>6, <3>3, <3>4
  <2>7. CASE ~(Err(dx, dy, j) >= 0)
    <3>1. 2 * (dx * k) <= 2 * (dy * (j + 1)) + dx
      BY <2>2, <2>3, <2>5
    <3>2. 2 * (dy * (j + 1)) + dx < 2 * (dx * k) + 2 * dx
      BY <2>2, <2>4, <2>5, <2>7
    <3>3. Minor(dx, dy, j + 1) = k
      BY <2>5, <3>1, <3>2, MinorIs
    <3>4. Err(dx, dy, j + 1) = 2 * (m + dy) + 2 * dy - dx - 2 * o
      BY <2>2, <2>5, <3>3 DEF Err
    <3>5. QED
      BY <2>1, <2>4, <2>7, <3>3, <3>4
  <2>8. QED
    BY <2>6, <2>7
<1>4. QED
  BY <1>1, <1>2, <1>3

\* The way of Bresenham's algorithm, from (x0, y0) with dx steps in the directions s1 and s2.
NextStep(p, s1, s2, swapped, dx, dy) ==
  [x |-> p.x + (IF ~swapped \/ p.e >= 0 THEN s1 ELSE 0),
   y |-> p.y + (IF swapped \/ p.e >= 0 THEN s2 ELSE 0),
   e |-> p.e + 2 * dy - (IF p.e >= 0 THEN 2 * dx ELSE 0)]

IsWay(f, x0, y0, s1, s2, swapped, dx, dy) ==
  f = [j \in 0..dx |-> IF j = 0 THEN [x |-> x0, y |-> y0, e |-> 2 * dy - dx]
                       ELSE NextStep(f[j - 1], s1, s2, swapped, dx, dy)]

\* Where it is after j steps.
Step(x0, y0, s1, s2, swapped, dx, dy, j) ==
  [x |-> x0 + s1 * (IF swapped THEN Minor(dx, dy, j) ELSE j),
   y |-> y0 + s2 * (IF swapped THEN j ELSE Minor(dx, dy, j)),
   e |-> Err(dx, dy, j)]

\* From where a way may start, in which directions and how far.
IsCourse(x0, y0, s1, s2, swapped, dx, dy) ==
  /\ x0 \in Int /\ y0 \in Int /\ s1 \in {-1, 0, 1} /\ s2 \in {-1, 0, 1} /\ swapped \in BOOLEAN
  /\ dx \in Nat \ {0} /\ dy \in Nat /\ dy <= dx

\* The way is there after each step.
LEMMA StepFollows ==
  ASSUME NEW x0, NEW y0, NEW s1, NEW s2, NEW swapped, NEW dx, NEW dy,
         IsCourse(x0, y0, s1, s2, swapped, dx, dy)
  PROVE  /\ Step(x0, y0, s1, s2, swapped, dx, dy, 0) = [x |-> x0, y |-> y0, e |-> 2 * dy - dx]
         /\ \A j \in Nat :
              Step(x0, y0, s1, s2, swapped, dx, dy, j + 1) =
                NextStep(Step(x0, y0, s1, s2, swapped, dx, dy, j), s1, s2, swapped, dx, dy)
<1> USE DEF IsCourse
<1>1. Step(x0, y0, s1, s2, swapped, dx, dy, 0) = [x |-> x0, y |-> y0, e |-> 2 * dy - dx]
  <2>1. Minor(dx, dy, 0) = 0 /\ dy * 0 = 0 /\ dx * 0 = 0 /\ s1 * 0 = 0 /\ s2 * 0 = 0
    BY MinorSteps
  <2>2. Err(dx, dy, 0) = 2 * dy - dx
    BY <2>1 DEF Err
  <2>3. QED
    BY <2>1, <2>2 DEF Step
<1>2. ASSUME NEW j \in Nat
      PROVE  Step(x0, y0, s1, s2, swapped, dx, dy, j + 1) =
               NextStep(Step(x0, y0, s1, s2, swapped, dx, dy, j), s1, s2, swapped, dx, dy)
  <2>1. PICK k \in Nat : k = Minor(dx, dy, j)
    BY MinorFacts
  <2>2. PICK e \in Int : e = Err(dx, dy, j)
    BY MinorSteps
  <2>3. /\ Minor(dx, dy, j + 1) = k + (IF e >= 0 THEN 1 ELSE 0)
        /\ Err(dx, dy, j + 1) = e + 2 * dy - (IF e >= 0 THEN 2 * dx ELSE 0)
    BY <2>1, <2>2, MinorSteps, ZenonT(60)
  <2>4. ASSUME NEW s \in {-1, 0, 1}, NEW i \in Nat
        PROVE  s * i \in Int /\ s * (i + 1) = s * i + s /\ s * (i + 0) = s * i
    OBVIOUS
  <2> DEFINE p == Step(x0, y0, s1, s2, swapped, dx, dy, j)
             q == Step(x0, y0, s1, s2, swapped, dx, dy, j + 1)
  <2>5. /\ p.x = x0 + s1 * (IF swapped THEN k ELSE j) /\ p.y = y0 + s2 * (IF swapped THEN j ELSE k)
        /\ p.e = e
    BY <2>1, <2>2 DEF Step
  <2>6. q = [x |-> x0 + s1 * (IF swapped THEN k + (IF e >= 0 THEN 1 ELSE 0) ELSE j + 1),
             y |-> y0 + s2 * (IF swapped THEN j + 1 ELSE k + (IF e >= 0 THEN 1 ELSE 0)),
             e |-> e + 2 * dy - (IF e >= 0 THEN 2 * dx ELSE 0)]
    BY <2>3 DEF Step
  <2> HIDE DEF p, q
  <2>7. x0 + s1 * (IF swapped THEN k + (IF e >= 0 THEN 1 ELSE 0) ELSE j + 1) =
          p.x + (IF ~swapped \/ p.e >= 0 THEN s1 ELSE 0)
    BY <2>4, <2>5
  <2>8. y0 + s2 * (IF swapped THEN j + 1 ELSE k + (IF e >= 0 THEN 1 ELSE 0)) =
          p.y + (IF swapped \/ p.e >= 0 THEN s2 ELSE 0)
    BY <2>4, <2>5
  <2>9. QED
    BY <2>5, <2>6, <2>7, <2>8 DEF NextStep, p, q
<1>3. QED
  BY <1>1, <1>2

\* There is one way, and it is there after j steps.
LEMMA WayIs ==
  ASSUME NEW x0, NEW y0, NEW s1, NEW s2, NEW swapped, NEW dx, NEW dy,
         IsCourse(x0, y0, s1, s2, swapped, dx, dy)
  PROVE  /\ \E f : IsWay(f, x0, y0, s1, s2, swapped, dx, dy)
         /\ \A f : IsWay(f, x0, y0, s1, s2, swapped, dx, dy) =>
                   \A j \in 0..dx : f[j] = Step(x0, y0, s1, s2, swapped, dx, dy, j)
<1> DEFINE at(j) == Step(x0, y0, s1, s2, swapped, dx, dy, j)
           start == [x |-> x0, y |-> y0, e |-> 2 * dy - dx]
           after(p) == NextStep(p, s1, s2, swapped, dx, dy)
<1>1. at(0) = start /\ \A j \in Nat : at(j + 1) = after(at(j))
  BY StepFollows
<1> USE DEF IsCourse
<1> HIDE DEF at, start, after
<1>2. \A j \in 1..dx : at(j) = after(at(j - 1))
  <2> SUFFICES ASSUME NEW j \in 1..dx PROVE at(j) = after(at(j - 1))
    OBVIOUS
  <2>1. j - 1 \in Nat /\ (j - 1) + 1 = j
    OBVIOUS
  <2>2. QED
    BY <1>1, <2>1
<1>3. \E f : IsWay(f, x0, y0, s1, s2, swapped, dx, dy)
  <2> DEFINE g == [j \in 0..dx |-> at(j)]
  <2>1. \A j \in 0..dx : at(j) = IF j = 0 THEN start ELSE after(g[j - 1])
    <3>1. \A j \in 0..dx : j # 0 => j \in 1..dx /\ j - 1 \in 0..dx
      OBVIOUS
    <3>2. QED
      BY <1>1, <1>2, <3>1
  <2>2. g = [j \in 0..dx |-> at(j)]
    OBVIOUS
  <2> HIDE DEF g
  <2>3. g = [j \in 0..dx |-> IF j = 0 THEN start ELSE after(g[j - 1])]
    BY <2>1, <2>2
  <2>4. IsWay(g, x0, y0, s1, s2, swapped, dx, dy)
    BY <2>3 DEF IsWay, start, after
  <2>5. QED
    BY <2>4
<1>4. ASSUME NEW f, IsWay(f, x0, y0, s1, s2, swapped, dx, dy) PROVE \A j \in 0..dx : f[j] = at(j)
  <2>1. f = [j \in 0..dx |-> IF j = 0 THEN start ELSE after(f[j - 1])]
    BY <1>4 DEF IsWay, start, after
  <2>2. \A j \in 0..dx : f[j] = IF j = 0 THEN start ELSE after(f[j - 1])
    BY <2>1
  <2> DEFINE good == {j \in 0..dx : f[j] = at(j)}
  <2>3. 0 \in good
    BY <1>1, <2>2
  <2>4. ASSUME NEW j \in 1..dx, j - 1 \in good PROVE j \in good
    BY <1>2, <2>2, <2>4
  <2> HIDE DEF good
  <2>5. \A j \in 0..dx : j \in good
    BY <2>3, <2>4, UpTo
  <2>6. QED
    BY <2>5 DEF good
<1>5. QED
  BY <1>3, <1>4 DEF at

\* A point after j steps.
OnWay(x0, y0, s1, s2, swapped, dx, dy, j) ==
  <<x0 + s1 * (IF swapped THEN Minor(dx, dy, j) ELSE j),
    y0 + s2 * (IF swapped THEN j ELSE Minor(dx, dy, j))>>

\* The course of a line, and its points.
IsLine(x0, y0, x1, y1, s1, s2, swapped, dx, dy) ==
  /\ IsCourse(x0, y0, s1, s2, swapped, dx, dy)
  /\ x1 - x0 = s1 * (IF swapped THEN dy ELSE dx)
  /\ y1 - y0 = s2 * (IF swapped THEN dx ELSE dy)
  /\ IF swapped THEN s2 # 0 ELSE s1 # 0
  /\ s1 = F!Sign(x1 - x0) /\ s2 = F!Sign(y1 - y0)
  /\ swapped => F!Mag(y1 - y0) > F!Mag(x1 - x0)
  /\ ~swapped => F!Mag(y1 - y0) <= F!Mag(x1 - x0)
  /\ dx = F!GreaterOf(F!Mag(x1 - x0), F!Mag(y1 - y0))
  /\ dy = F!LesserOf(F!Mag(x1 - x0), F!Mag(y1 - y0))
  /\ F!LinePoints(x0, y0, x1, y1) = {OnWay(x0, y0, s1, s2, swapped, dx, dy, j) : j \in 0..dx}

\* A number is its sign and its magnitude.
LEMMA SignFacts ==
  ASSUME NEW n \in Int
  PROVE  /\ F!Sign(n) \in {-1, 0, 1} /\ F!Sign(n) * n = F!Mag(n) /\ F!Mag(n) \in Nat
         /\ F!Sign(n) * F!Mag(n) = n /\ (F!Sign(n) = 0 <=> n = 0) /\ (F!Mag(n) = 0 <=> n = 0)
BY DEF F!Sign, F!Mag

\* The way.
WayOf(x0, y0, s1, s2, swapped, dx, dy) == CHOOSE h : IsWay(h, x0, y0, s1, s2, swapped, dx, dy)

\* Each point of the way is where it is after some step.
LEMMA WayPoints ==
  ASSUME NEW x0, NEW y0, NEW s1, NEW s2, NEW swapped, NEW dx, NEW dy,
         IsCourse(x0, y0, s1, s2, swapped, dx, dy)
  PROVE  {<<WayOf(x0, y0, s1, s2, swapped, dx, dy)[j].x, WayOf(x0, y0, s1, s2, swapped, dx, dy)[j].y>> :
             j \in 0..dx} =
         {OnWay(x0, y0, s1, s2, swapped, dx, dy, j) : j \in 0..dx}
<1> DEFINE f == WayOf(x0, y0, s1, s2, swapped, dx, dy)
<1>1. /\ \E h : IsWay(h, x0, y0, s1, s2, swapped, dx, dy)
      /\ \A h : IsWay(h, x0, y0, s1, s2, swapped, dx, dy) =>
                \A j \in 0..dx : h[j] = Step(x0, y0, s1, s2, swapped, dx, dy, j)
  BY WayIs
<1>2. IsWay(f, x0, y0, s1, s2, swapped, dx, dy)
  BY <1>1 DEF WayOf
<1> HIDE DEF f
<1>3. \A j \in 0..dx : f[j] = Step(x0, y0, s1, s2, swapped, dx, dy, j)
  BY <1>1, <1>2
<1>4. \A j \in 0..dx : <<f[j].x, f[j].y>> = OnWay(x0, y0, s1, s2, swapped, dx, dy, j)
  <2> SUFFICES ASSUME NEW j \in 0..dx
               PROVE  <<f[j].x, f[j].y>> = OnWay(x0, y0, s1, s2, swapped, dx, dy, j)
    OBVIOUS
  <2>1. /\ Step(x0, y0, s1, s2, swapped, dx, dy, j).x = x0 + s1 * (IF swapped THEN Minor(dx, dy, j) ELSE j)
        /\ Step(x0, y0, s1, s2, swapped, dx, dy, j).y = y0 + s2 * (IF swapped THEN j ELSE Minor(dx, dy, j))
    BY DEF Step
  <2>2. f[j] = Step(x0, y0, s1, s2, swapped, dx, dy, j)
    BY <1>3
  <2>3. QED
    BY <2>1, <2>2 DEF OnWay
<1>5. QED
  BY <1>4 DEF f

\* Every line between two points has a course.
LEMMA LineIs ==
  ASSUME NEW x0 \in Int, NEW y0 \in Int, NEW x1 \in Int, NEW y1 \in Int, x0 # x1 \/ y0 # y1
  PROVE  \E s1, s2, swapped, dx, dy : IsLine(x0, y0, x1, y1, s1, s2, swapped, dx, dy)
<1> DEFINE s1 == F!Sign(x1 - x0)
           s2 == F!Sign(y1 - y0)
           swapped == s2 * (y1 - y0) > s1 * (x1 - x0)
           dx == F!GreaterOf(s1 * (x1 - x0), s2 * (y1 - y0))
           dy == F!LesserOf(s1 * (x1 - x0), s2 * (y1 - y0))
           f == WayOf(x0, y0, s1, s2, swapped, dx, dy)
<1>1. F!LinePoints(x0, y0, x1, y1) = {<<f[j].x, f[j].y>> : j \in 0..dx}
  BY DEF F!LinePoints, WayOf, IsWay, NextStep
<1>2. PICK a \in Int, b \in Int : a = x1 - x0 /\ b = y1 - y0
  OBVIOUS
<1>3. PICK i \in Nat, j \in Nat : i = F!Mag(a) /\ j = F!Mag(b)
  BY SignFacts
<1>4. s1 * (x1 - x0) = i /\ s2 * (y1 - y0) = j /\ a = s1 * i /\ b = s2 * j
  BY <1>2, <1>3, SignFacts
<1>5. /\ (swapped => j > i) /\ (~swapped => j <= i) /\ swapped \in BOOLEAN
      /\ dx = (IF i > j THEN i ELSE j) /\ dy = (IF i < j THEN i ELSE j)
  BY <1>4 DEF F!GreaterOf, F!LesserOf
<1>6. s1 \in {-1, 0, 1} /\ s2 \in {-1, 0, 1} /\ (s1 = 0 <=> i = 0) /\ (s2 = 0 <=> j = 0)
  BY <1>2, <1>3, SignFacts
<1>7. i # 0 \/ j # 0
  BY <1>2, <1>3, SignFacts
<1>8a. s1 = F!Sign(x1 - x0) /\ s2 = F!Sign(y1 - y0)
  OBVIOUS
<1> HIDE DEF s1, s2, swapped, dx, dy, f
<1>8. IsCourse(x0, y0, s1, s2, swapped, dx, dy)
  BY <1>5, <1>6, <1>7 DEF IsCourse
<1>9. F!LinePoints(x0, y0, x1, y1) = {OnWay(x0, y0, s1, s2, swapped, dx, dy, k) : k \in 0..dx}
  BY <1>1, <1>8, WayPoints DEF f
<1>10. /\ (IF swapped THEN dy ELSE dx) = i /\ (IF swapped THEN dx ELSE dy) = j
  <2>1. CASE swapped
    BY <1>5, <2>1
  <2>2. CASE ~swapped
    BY <1>5, <2>2
  <2>3. QED
    BY <2>1, <2>2
<1>11. dx = F!GreaterOf(i, j) /\ dy = F!LesserOf(i, j)
  BY <1>5 DEF F!GreaterOf, F!LesserOf
<1>12. IF swapped THEN s2 # 0 ELSE s1 # 0
  <2>1. CASE swapped
    BY <1>5, <1>6, <1>7, <2>1
  <2>2. CASE ~swapped
    BY <1>5, <1>6, <1>7, <2>2
  <2>3. QED
    BY <2>1, <2>2
<1>13. IsLine(x0, y0, x1, y1, s1, s2, swapped, dx, dy)
  BY <1>2, <1>3, <1>4, <1>5, <1>8, <1>8a, <1>9, <1>10, <1>11, <1>12 DEF IsLine
<1>14. QED
  BY <1>13

\* A line from a point to itself.
LEMMA LineOfPoint ==
  ASSUME NEW x0 \in Int, NEW y0 \in Int
  PROVE  F!LinePoints(x0, y0, x0, y0) = {<<x0, y0>>}
<1> DEFINE s1 == F!Sign(x0 - x0)
           s2 == F!Sign(y0 - y0)
           swapped == s2 * (y0 - y0) > s1 * (x0 - x0)
           dx == F!GreaterOf(s1 * (x0 - x0), s2 * (y0 - y0))
           dy == F!LesserOf(s1 * (x0 - x0), s2 * (y0 - y0))
           start == [x |-> x0, y |-> y0, e |-> 2 * dy - dx]
           f == CHOOSE h : IsWay(h, x0, y0, s1, s2, swapped, dx, dy)
<1>1. F!LinePoints(x0, y0, x0, y0) = {<<f[j].x, f[j].y>> : j \in 0..dx}
  BY DEF F!LinePoints, IsWay, NextStep
<1>2. dx = 0
  <2>1. x0 - x0 = 0 /\ y0 - y0 = 0 /\ F!Sign(0) = 0
    BY DEF F!Sign
  <2>2. QED
    BY <2>1 DEF F!GreaterOf
<1> HIDE DEF s1, s2, swapped, dx, dy
<1>3. \E h : IsWay(h, x0, y0, s1, s2, swapped, dx, dy)
  <2> DEFINE h == [j \in 0..dx |-> start]
  <2>1. \A j \in 0..dx : start = IF j = 0 THEN start ELSE NextStep(h[j - 1], s1, s2, swapped, dx, dy)
    BY <1>2
  <2>2. h = [j \in 0..dx |-> start]
    OBVIOUS
  <2> HIDE DEF h, start
  <2>3. h = [j \in 0..dx |-> IF j = 0 THEN start ELSE NextStep(h[j - 1], s1, s2, swapped, dx, dy)]
    BY <2>1, <2>2
  <2>4. IsWay(h, x0, y0, s1, s2, swapped, dx, dy)
    BY <2>3 DEF IsWay, start
  <2>5. QED
    BY <2>4
<1>4. IsWay(f, x0, y0, s1, s2, swapped, dx, dy)
  BY <1>3
<1> HIDE DEF f
<1>5. f[0] = start
  <2>1. f = [j \in 0..dx |-> IF j = 0 THEN start ELSE NextStep(f[j - 1], s1, s2, swapped, dx, dy)]
    BY <1>4 DEF IsWay
  <2> HIDE DEF start
  <2>2. QED
    BY <1>2, <2>1
<1>6. f[0].x = x0 /\ f[0].y = y0 /\ 0..0 = {0}
  BY <1>5
<1>7. QED
  BY <1>1, <1>2, <1>6

\* Twice the area between the line and a point of it, without its sign.
LEMMA AreaOfStep ==
  ASSUME NEW s1 \in {-1, 0, 1}, NEW s2 \in {-1, 0, 1}, NEW dx \in Nat \ {0}, NEW dy \in Nat,
         NEW j \in Nat, NEW k \in Nat,
         2 * (dx * k) <= 2 * (dy * j) + dx, 2 * (dy * j) + dx < 2 * (dx * k) + 2 * dx
  PROVE  /\ 2 * F!Mag((s1 * dx) * (s2 * k) - (s2 * dy) * (s1 * j)) <= dx
         /\ 2 * F!Mag((s1 * dy) * (s2 * j) - (s2 * dx) * (s1 * k)) <= dx
<1>1. PICK m \in Nat, o \in Nat : m = dy * j /\ o = dx * k
  OBVIOUS
<1>2. /\ (s1 * dx) * (s2 * k) = (s1 * s2) * o /\ (s2 * dy) * (s1 * j) = (s1 * s2) * m
      /\ (s1 * dy) * (s2 * j) = (s1 * s2) * m /\ (s2 * dx) * (s1 * k) = (s1 * s2) * o
  BY <1>1
<1>3. s1 * s2 \in {-1, 0, 1}
  OBVIOUS
<1>4. 2 * o <= 2 * m + dx /\ 2 * m + dx < 2 * o + 2 * dx
  BY <1>1
<1>5. ASSUME NEW s \in {-1, 0, 1}
      PROVE  2 * F!Mag(s * o - s * m) <= dx /\ 2 * F!Mag(s * m - s * o) <= dx
  <2>1. CASE s = -1
    BY <1>4, <2>1 DEF F!Mag
  <2>2. CASE s = 0
    BY <1>4, <2>2 DEF F!Mag
  <2>3. CASE s = 1
    BY <1>4, <2>3 DEF F!Mag
  <2>4. QED
    BY <2>1, <2>2, <2>3
<1>6. QED
  BY <1>2, <1>3, <1>5

\* line() between any two points: one point for each step along the longer side, none more
\* than half a point from the straight line.
THEOREM LineStraight ==
  ASSUME NEW p \in Int \X Int, NEW q \in Int \X Int
  PROVE  F!LineIsStraight(p, q)
<1>1. PICK x0 \in Int, y0 \in Int, x1 \in Int, y1 \in Int :
         /\ p = <<x0, y0>> /\ q = <<x1, y1>> /\ p[1] = x0 /\ p[2] = y0 /\ q[1] = x1 /\ q[2] = y1
  OBVIOUS
<1> DEFINE points == F!LinePoints(x0, y0, x1, y1)
           long == F!GreaterOf(F!Mag(x1 - x0), F!Mag(y1 - y0))
<1>2. SUFFICES /\ {p, q} \subseteq points
               /\ Cardinality(points) = long + 1
               /\ \A pt \in points : 2 * F!Mag(F!Turned(p, q, pt)) <= long
  BY <1>1, FigureCardinality DEF F!LineIsStraight
<1>3. CASE x0 = x1 /\ y0 = y1
  <2>1. long = 0
    BY <1>3 DEF F!GreaterOf, F!Mag
  <2>2. points = {<<x0, y0>>}
    BY <1>3, LineOfPoint
  <2>3. Cardinality(points) = 1
    BY <2>2, FS_Singleton
  <2>4. F!Turned(p, q, <<x0, y0>>) = 0
    BY <1>1, <1>3 DEF F!Turned
  <2> HIDE DEF points, long
  <2>5. QED
    BY <1>1, <1>3, <2>1, <2>2, <2>3, <2>4 DEF F!Mag
<1>4. CASE x0 # x1 \/ y0 # y1
  <2>1. PICK s1, s2, swapped, dx, dy : IsLine(x0, y0, x1, y1, s1, s2, swapped, dx, dy)
    BY <1>4, LineIs
  <2>2. /\ s1 \in {-1, 0, 1} /\ s2 \in {-1, 0, 1} /\ swapped \in BOOLEAN
        /\ dx \in Nat \ {0} /\ dy \in Nat /\ dy <= dx
        /\ x1 - x0 = s1 * (IF swapped THEN dy ELSE dx) /\ y1 - y0 = s2 * (IF swapped THEN dx ELSE dy)
        /\ IF swapped THEN s2 # 0 ELSE s1 # 0
    BY <2>1 DEF IsLine, IsCourse
  <2> DEFINE at(j) == OnWay(x0, y0, s1, s2, swapped, dx, dy, j)
  <2>3. points = {at(j) : j \in 0..dx} /\ long = dx
    BY <2>1 DEF IsLine
  <2> HIDE DEF points, long
  <2>4. ASSUME NEW j \in Nat
        PROVE  /\ at(j) \in Int \X Int /\ Minor(dx, dy, j) \in Nat
               /\ at(j)[1] - x0 = s1 * (IF swapped THEN Minor(dx, dy, j) ELSE j)
               /\ at(j)[2] - y0 = s2 * (IF swapped THEN j ELSE Minor(dx, dy, j))
    <3>1. PICK k \in Nat : k = Minor(dx, dy, j)
      BY <2>2, MinorFacts
    <3>2. PICK m \in Nat, n \in Nat : m = (IF swapped THEN k ELSE j) /\ n = (IF swapped THEN j ELSE k)
      OBVIOUS
    <3>3. s1 * m \in Int /\ s2 * n \in Int
      BY <2>2
    <3>4. at(j) = <<x0 + s1 * m, y0 + s2 * n>>
      BY <3>1, <3>2 DEF OnWay
    <3> HIDE DEF at
    <3>5. QED
      BY <3>1, <3>2, <3>3, <3>4
  <2>5. at(0) = p
    <3>1. Minor(dx, dy, 0) = 0 /\ s1 * 0 = 0 /\ s2 * 0 = 0
      BY <2>2, MinorSteps
    <3>2. QED
      BY <1>1, <3>1 DEF OnWay
  <2>6. at(dx) = q
    <3>1. Minor(dx, dy, dx) = dy
      BY <2>2, MinorSteps
    <3>2. at(dx) = <<x0 + (x1 - x0), y0 + (y1 - y0)>>
      BY <2>2, <3>1 DEF OnWay
    <3>3. QED
      BY <1>1, <3>2
  <2> HIDE DEF at
  <2>7. {p, q} \subseteq points
    BY <2>2, <2>3, <2>5, <2>6
  <2>8. Cardinality(points) = dx + 1
    <3> DEFINE to == [j \in 0..dx |-> at(j)]
    <3>1. ASSUME NEW i \in 0..dx, NEW j \in 0..dx, at(i) = at(j) PROVE i = j
      <4>1. i \in Nat /\ j \in Nat
        BY <2>2
      <4>2. ASSUME NEW s \in {-1, 1}, s * i = s * j PROVE i = j
        BY <4>2
      <4>3. CASE swapped
        BY <2>2, <2>4, <3>1, <4>1, <4>2, <4>3
      <4>4. CASE ~swapped
        BY <2>2, <2>4, <3>1, <4>1, <4>2, <4>4
      <4>5. QED
        BY <4>3, <4>4
    <3>2. to \in [0..dx -> points] /\ \A t \in points : \E j \in 0..dx : to[j] = t
      BY <2>3
    <3>3. \A i, j \in 0..dx : to[i] = to[j] => i = j
      BY <3>1
    <3> HIDE DEF to
    <3>4. to \in Bijection(0..dx, points)
      BY <3>2, <3>3 DEF Bijection, Injection, Surjection, IsInjective
    <3>5. IsFiniteSet(0..dx) /\ Cardinality(0..dx) = dx + 1
      <4>1. 0 \in Int /\ dx \in Int /\ ~(0 > dx) /\ dx - 0 + 1 = dx + 1
        BY <2>2
      <4>2. QED
        BY <4>1, FS_Interval
    <3>6. ExistsBijection(0..dx, points)
      BY <3>4 DEF ExistsBijection
    <3>7. QED
      BY <3>5, <3>6, FS_Bijection
  <2>9. ASSUME NEW pt \in points PROVE 2 * F!Mag(F!Turned(p, q, pt)) <= dx
    <3>1. PICK j \in 0..dx : pt = at(j)
      BY <2>3
    <3>2. j \in Nat
      BY <2>2
    <3>3. PICK k \in Nat : k = Minor(dx, dy, j)
      BY <2>4, <3>2
    <3>4. /\ 2 * (dx * k) <= 2 * (dy * j) + dx
          /\ 2 * (dy * j) + dx < 2 * (dx * k) + 2 * dx
      BY <2>2, <3>2, <3>3, MinorFacts
    <3>5. F!Turned(p, q, pt) = (x1 - x0) * (pt[2] - y0) - (y1 - y0) * (pt[1] - x0)
      BY <1>1 DEF F!Turned
    <3>6. /\ 2 * F!Mag((s1 * dx) * (s2 * k) - (s2 * dy) * (s1 * j)) <= dx
          /\ 2 * F!Mag((s1 * dy) * (s2 * j) - (s2 * dx) * (s1 * k)) <= dx
      BY <2>2, <3>2, <3>4, AreaOfStep
    <3>7. CASE swapped
      <4>1. /\ x1 - x0 = s1 * dy /\ y1 - y0 = s2 * dx
            /\ pt[1] - x0 = s1 * k /\ pt[2] - y0 = s2 * j
        BY <2>2, <2>4, <3>1, <3>2, <3>3, <3>7
      <4>2. QED
        BY <3>5, <3>6, <4>1
    <3>8. CASE ~swapped
      <4>1. /\ x1 - x0 = s1 * dx /\ y1 - y0 = s2 * dy
            /\ pt[1] - x0 = s1 * j /\ pt[2] - y0 = s2 * k
        BY <2>2, <2>4, <3>1, <3>2, <3>3, <3>8
      <4>2. QED
        BY <3>5, <3>6, <4>1
    <3>9. QED
      BY <3>7, <3>8
  <2>10. QED
    BY <2>3, <2>7, <2>8, <2>9
<1>5. QED
  BY <1>3, <1>4

-----------------------------------------------------------------------------
(* Triangles.                                                              *)

\* Twice the area of a triangle, by the coordinates of its corners.
Turn(x0, y0, x1, y1, x, y) == (x1 - x0) * (y - y0) - (y1 - y0) * (x - x0)

\* The point a scan line reaches on an edge.
EdgeAt(x0, y0, x1, y1, y) == x0 + F!Quotient((x1 - x0) * (y - y0), y1 - y0)

\* The quotient of the code is less than one from the true one, and nearer to zero.
LEMMA QuotientFacts ==
  ASSUME NEW n \in Int, NEW d \in Nat \ {0}
  PROVE  /\ F!Quotient(n, d) \in Int /\ d * F!Quotient(n, d) \in Int
         /\ d * F!Quotient(n, d) < n + d /\ n < d * F!Quotient(n, d) + d
         /\ n >= 0 => d * F!Quotient(n, d) <= n
         /\ n <= 0 => d * F!Quotient(n, d) >= n
<1>1. CASE n > 0
  <2>1. n \in Nat /\ F!Sign(n) = 1 /\ 1 * n = n
    BY <1>1 DEF F!Sign
  <2>1a. n \div d \in Int /\ n = d * (n \div d) + (n % d) /\ n % d \in 0..d - 1
    BY <2>1, Division
  <2>2. PICK k \in Int : k = n \div d /\ d * k <= n /\ n < d * k + d
    BY <2>1a
  <2>3. F!Quotient(n, d) = k
    BY <2>1, <2>2 DEF F!Quotient
  <2>4. QED
    BY <1>1, <2>2, <2>3
<1>2. CASE n = 0
  <2>1. F!Quotient(n, d) = 0
    BY <1>2 DEF F!Quotient, F!Sign
  <2>2. QED
    BY <1>2, <2>1
<1>3. CASE n < 0
  <2>1. PICK m \in Nat : m = -n
    BY <1>3
  <2>2. F!Sign(n) = -1 /\ (-1) * n = m
    BY <1>3, <2>1 DEF F!Sign
  <2>3. m \div d \in Int /\ m = d * (m \div d) + (m % d) /\ m % d \in 0..d - 1
    BY Division
  <2>4. PICK k \in Int : k = m \div d /\ d * k <= m /\ m < d * k + d
    BY <2>3
  <2>5. F!Quotient(n, d) = -k
    BY <2>2, <2>4 DEF F!Quotient
  <2>6. d * (-k) = -(d * k) /\ d * k \in Int
    OBVIOUS
  <2>7. QED
    BY <1>3, <2>1, <2>4, <2>5, <2>6
<1>4. QED
  BY <1>1, <1>2, <1>3

\* A point left of an edge is left of where its scan line reaches it, and a point that is
\* left of that is left of the edge, or less than a point from it; and on the right.
LEMMA EdgeFacts ==
  ASSUME NEW x0 \in Int, NEW y0 \in Int, NEW x1 \in Int, NEW y1 \in Int, NEW y \in Int, y0 < y1
  PROVE  /\ EdgeAt(x0, y0, x1, y1, y) \in Int
         /\ \A x \in Int : /\ Turn(x0, y0, x1, y1, x, y) \in Int
                           /\ Turn(x0, y0, x1, y1, x, y) >= 0 => x <= EdgeAt(x0, y0, x1, y1, y)
                           /\ Turn(x0, y0, x1, y1, x, y) <= 0 => x >= EdgeAt(x0, y0, x1, y1, y)
                           /\ x <= EdgeAt(x0, y0, x1, y1, y) => Turn(x0, y0, x1, y1, x, y) > y0 - y1
                           /\ x >= EdgeAt(x0, y0, x1, y1, y) => Turn(x0, y0, x1, y1, x, y) < y1 - y0
<1>1. PICK n \in Int, d \in Nat \ {0} : n = (x1 - x0) * (y - y0) /\ d = y1 - y0
  OBVIOUS
<1>2. PICK q \in Int : q = F!Quotient(n, d)
  BY QuotientFacts
<1>3. /\ d * q \in Int /\ d * q < n + d /\ n < d * q + d
      /\ n >= 0 => d * q <= n
      /\ n <= 0 => d * q >= n
  BY <1>2, QuotientFacts
<1>4. EdgeAt(x0, y0, x1, y1, y) = x0 + q
  BY <1>1, <1>2 DEF EdgeAt
<1>5. ASSUME NEW x \in Int
      PROVE  /\ Turn(x0, y0, x1, y1, x, y) \in Int
             /\ Turn(x0, y0, x1, y1, x, y) >= 0 => x <= x0 + q
             /\ Turn(x0, y0, x1, y1, x, y) <= 0 => x >= x0 + q
             /\ x <= x0 + q => Turn(x0, y0, x1, y1, x, y) > -d
             /\ x >= x0 + q => Turn(x0, y0, x1, y1, x, y) < d
  <2>1. PICK t \in Int : t = x - x0
    OBVIOUS
  <2>2. PICK m \in Int, o \in Int : m = d * t /\ o = d * q
    OBVIOUS
  <2>3. Turn(x0, y0, x1, y1, x, y) = n - m
    BY <1>1, <2>1, <2>2 DEF Turn
  <2>4. /\ t <= q => m <= o
        /\ t >= q => m >= o
        /\ t > q => m >= o + d
        /\ t < q => m + d <= o
    <3>1. ASSUME NEW i \in Int, NEW j \in Int, i <= j PROVE d * i <= d * j
      <4>1. d * (j - i) >= 0 /\ d * (j - i) = d * j - d * i
        BY <3>1
      <4>2. QED
        BY <4>1
    <3>2. d * (q + 1) = o + d /\ d * (t + 1) = m + d
      BY <2>2
    <3>3. QED
      BY <2>2, <3>1, <3>2
  <2>5. o < n + d /\ n < o + d /\ (n >= 0 => o <= n) /\ (n <= 0 => o >= n)
    BY <1>3, <2>2
  <2>6. n - m >= 0 => t <= q
    BY <2>4, <2>5
  <2>7. n - m <= 0 => t >= q
    BY <2>4, <2>5
  <2>8. t <= q => n - m > -d
    BY <2>4, <2>5
  <2>9. t >= q => n - m < d
    BY <2>4, <2>5
  <2>10. QED
    BY <2>1, <2>3, <2>6, <2>7, <2>8, <2>9
<1>6. QED
  BY <1>1, <1>4, <1>5

\* A line has a point next to each that is less than a point from it, in the same row.
NextTo(x, y, points) == \E pt \in points : pt[2] = y /\ pt[1] \in x - 1..x + 1

\* The column of a steep line in a row is next to each point that is close to it.
LEMMA SteepNear ==
  ASSUME NEW dx \in Nat \ {0}, NEW dy \in Nat, NEW m \in Nat, NEW t \in Int, NEW k \in Nat,
         2 * (dx * k) <= 2 * (dy * m) + dx, 2 * (dy * m) + dx < 2 * (dx * k) + 2 * dx,
         dy * m - dx * t < dx, dx * t - dy * m < dx
  PROVE  k \in t - 1..t + 1
<1>1. PICK o \in Int : o = dx * (k - t) /\ o = dx * k - dx * t
  OBVIOUS
<1>2. PICK a \in Int, b \in Int, c \in Int : a = dx * k /\ b = dy * m /\ c = dx * t
  OBVIOUS
<1>3. 2 * o < 3 * dx /\ -(2 * o) < 3 * dx
  BY <1>1, <1>2
<1>4. ASSUME NEW i \in Int, i >= 2 PROVE dx * i >= 2 * dx
  <2>1. dx * (i - 2) >= 0 /\ dx * (i - 2) = dx * i - 2 * dx
    BY <1>4
  <2>2. QED
    BY <2>1
<1>5. ~(k - t >= 2)
  BY <1>1, <1>3, <1>4
<1>6. ~(t - k >= 2)
  <2>1. dx * (t - k) = -o /\ t - k \in Int
    BY <1>1
  <2>2. QED
    BY <1>3, <1>4, <2>1
<1>7. QED
  BY <1>5, <1>6

\* The column of a flat line that has row m and is next to t.
LEMMA FlatNear ==
  ASSUME NEW dx \in Nat \ {0}, NEW dy \in Nat \ {0}, dy <= dx, NEW m \in 0..dy, NEW t \in Int,
         dy * t - dx * m < dy, dx * m - dy * t < dy
  PROVE  \E j \in 0..dx : Minor(dx, dy, j) = m /\ j \in t - 1..t + 1
<1>1. PICK c \in Int, d \in Int : c = dy * t /\ d = dx * m
  OBVIOUS
<1>2. t \in 0..dx
  <2>1. ASSUME NEW i \in Int, i >= 1 PROVE dy * i >= dy
    <3>1. dy * (i - 1) >= 0 /\ dy * (i - 1) = dy * i - dy
      BY <2>1
    <3>2. QED
      BY <3>1
  <2>2. d >= 0 /\ d <= dy * dx
    <3>1. dx * (dy - m) >= 0 /\ dx * (dy - m) = dy * dx - d
      BY <1>1
    <3>2. d >= 0 /\ dy * dx \in Int
      BY <1>1
    <3>3. QED
      BY <3>1, <3>2
  <2>3. ~(t < 0)
    <3>1. dy * (-t) = -c /\ -t \in Int
      BY <1>1
    <3>2. QED
      BY <1>1, <2>1, <2>2, <3>1
  <2>4. ~(t > dx)
    <3>1. dy * (t - dx) = c - dy * dx /\ t - dx \in Int /\ dy * dx \in Int
      BY <1>1
    <3>2. QED
      BY <1>1, <2>1, <2>2, <3>1
  <2>5. QED
    BY <2>3, <2>4
<1>3. ASSUME NEW j \in 0..dx, 2 * (dy * j) - 2 * d < dx, 2 * d - 2 * (dy * j) <= dx
      PROVE  Minor(dx, dy, j) = m
  <2>1. PICK e \in Int : e = dy * j
    OBVIOUS
  <2>2. 2 * (dx * m) <= 2 * (dy * j) + dx /\ 2 * (dy * j) + dx < 2 * (dx * m) + 2 * dx
    BY <1>1, <1>3, <2>1
  <2>3. j \in Nat /\ m \in Int /\ dy \in Nat
    OBVIOUS
  <2>4. QED
    BY <2>2, <2>3, MinorIs
<1>4. CASE 2 * c - 2 * d < dx /\ 2 * d - 2 * c <= dx
  <2>1. Minor(dx, dy, t) = m
    BY <1>1, <1>2, <1>3, <1>4
  <2>2. QED
    BY <1>2, <2>1
<1>5. CASE 2 * c - 2 * d >= dx
  <2>1. t - 1 \in 0..dx
    <3>1. t = 0 => c = 0
      BY <1>1
    <3>2. d >= 0
      BY <1>1
    <3>3. QED
      BY <1>2, <1>5, <3>1, <3>2
  <2>2. dy * (t - 1) = c - dy
    BY <1>1
  <2>3. Minor(dx, dy, t - 1) = m
    BY <1>1, <1>3, <1>5, <2>1, <2>2
  <2>4. QED
    BY <2>1, <2>3
<1>6. CASE 2 * d - 2 * c > dx
  <2>1. t + 1 \in 0..dx
    <3>1. t = dx => c = dy * dx
      BY <1>1
    <3>2. dx * (dy - m) >= 0 /\ dx * (dy - m) = dy * dx - d /\ dy * dx \in Int
      BY <1>1
    <3>3. QED
      BY <1>2, <1>6, <3>1, <3>2
  <2>2. dy * (t + 1) = c + dy
    BY <1>1
  <2>3. Minor(dx, dy, t + 1) = m
    BY <1>1, <1>3, <1>6, <2>1, <2>2
  <2>4. QED
    BY <2>1, <2>3
<1>7. QED
  BY <1>1, <1>4, <1>5, <1>6

\* A point beside it is enough.
LEMMA NextToBy ==
  ASSUME NEW x \in Int, NEW y, NEW c \in x - 1..x + 1, NEW points, <<c, y>> \in points
  PROVE  NextTo(x, y, points)
<1>1. <<c, y>>[1] = c /\ <<c, y>>[2] = y
  OBVIOUS
<1>2. QED
  BY <1>1 DEF NextTo

\* The points of a line are within a point of the straight line in their row, ...
LEMMA NearSteep ==
  ASSUME NEW x0, NEW y0, NEW x1, NEW y1, NEW s1, NEW s2, NEW swapped, NEW dx, NEW dy,
         IsLine(x0, y0, x1, y1, s1, s2, swapped, dx, dy), swapped,
         NEW m \in 0..dx, NEW x \in Int,
         Turn(x0, y0, x1, y1, x, y0 + s2 * m) < dx, -Turn(x0, y0, x1, y1, x, y0 + s2 * m) < dx
  PROVE  NextTo(x, y0 + s2 * m, F!LinePoints(x0, y0, x1, y1))
<1>1. /\ x0 \in Int /\ y0 \in Int /\ s1 \in {-1, 0, 1} /\ s2 \in {-1, 1} /\ dx \in Nat \ {0} /\ dy \in Nat
      /\ dy <= dx /\ x1 - x0 = s1 * dy /\ y1 - y0 = s2 * dx
      /\ F!LinePoints(x0, y0, x1, y1) = {OnWay(x0, y0, s1, s2, swapped, dx, dy, j) : j \in 0..dx}
  BY DEF IsLine, IsCourse
<1>2. PICK k \in Nat : k = Minor(dx, dy, m)
  BY <1>1, MinorFacts
<1>3. 2 * (dx * k) <= 2 * (dy * m) + dx /\ 2 * (dy * m) + dx < 2 * (dx * k) + 2 * dx /\ m \in Nat
  BY <1>1, <1>2, MinorFacts
<1>4. OnWay(x0, y0, s1, s2, swapped, dx, dy, m) = <<x0 + s1 * k, y0 + s2 * m>>
  BY <1>2 DEF OnWay
<1>5. PICK u \in Int : u = x - x0
  BY <1>1
<1>6. PICK a \in Int : a = dy * m
  BY <1>1, <1>3
<1>7. Turn(x0, y0, x1, y1, x, y0 + s2 * m) = (s1 * dy) * (s2 * m) - (s2 * dx) * u
  <2>1. (y0 + s2 * m) - y0 = s2 * m
    BY <1>1
  <2>2. QED
    BY <1>1, <1>5, <2>1 DEF Turn
<1>8. PICK t \in Int : s1 # 0 => u = s1 * t /\ t = s1 * u
  <2>1. s1 # 0 => u = s1 * (s1 * u) /\ s1 * u \in Int
    BY <1>1
  <2>2. QED
    BY <2>1
<1>9. CASE s1 = 0
  <2>1. Turn(x0, y0, x1, y1, x, y0 + s2 * m) = -(s2 * (dx * u)) /\ dx * u \in Int
    BY <1>1, <1>3, <1>7, <1>9
  <2>2. PICK o \in Int : o = dx * u
    BY <2>1
  <2>3. o < dx /\ -o < dx
    <3>1. s2 = 1 \/ s2 = -1
      BY <1>1
    <3>2. QED
      BY <1>1, <2>1, <2>2, <3>1
  <2>4. u = 0
    <3>1. ASSUME NEW i \in Int, i >= 1 PROVE dx * i >= dx
      <4>1. dx * (i - 1) >= 0 /\ dx * (i - 1) = dx * i - dx
        BY <1>1, <3>1
      <4>2. QED
        BY <1>1, <4>1
    <3>2. ~(u >= 1)
      BY <1>1, <2>2, <2>3, <3>1
    <3>3. dx * (-u) = -o /\ -u \in Int
      BY <1>1, <2>2
    <3>4. ~(-u >= 1)
      BY <1>1, <2>3, <3>1, <3>3
    <3>5. QED
      BY <3>2, <3>4
  <2>5. x0 + s1 * k = x
    BY <1>1, <1>5, <1>9, <2>4
  <2>6. OnWay(x0, y0, s1, s2, swapped, dx, dy, m) = <<x, y0 + s2 * m>>
    BY <1>4, <2>5
  <2>7. <<x, y0 + s2 * m>> \in F!LinePoints(x0, y0, x1, y1)
    BY <1>1, <2>6, Zenon
  <2>8. x \in x - 1..x + 1
    OBVIOUS
  <2>9. QED
    BY <2>7, <2>8, NextToBy, Zenon
<1>10. CASE s1 # 0
  <2>1. PICK b \in Int : b = dx * t
    BY <1>1
  <2>2. Turn(x0, y0, x1, y1, x, y0 + s2 * m) = (s1 * s2) * (a - b)
    <3>1. (s1 * dy) * (s2 * m) = (s1 * s2) * a
      BY <1>1, <1>3, <1>6
    <3>2. (s2 * dx) * u = (s1 * s2) * b
      BY <1>1, <1>8, <1>10, <2>1
    <3>3. s1 * s2 \in Int /\ (s1 * s2) * a - (s1 * s2) * b = (s1 * s2) * (a - b)
      BY <1>1
    <3>4. QED
      BY <1>7, <3>1, <3>2, <3>3
  <2>3. s1 * s2 \in {-1, 1}
    BY <1>1, <1>10
  <2>4. a - b < dx /\ b - a < dx
    BY <1>1, <2>2, <2>3
  <2>5. k \in t - 1..t + 1
    BY <1>1, <1>3, <1>6, <2>1, <2>4, SteepNear
  <2>6. x0 + s1 * k \in x - 1..x + 1
    <3>1. s1 = 1 \/ s1 = -1
      BY <1>1, <1>10
    <3>2. x = x0 + u
      BY <1>1, <1>5
    <3>3. s1 = 1 => x0 + s1 * k = x0 + k /\ u = t
      BY <1>1, <1>8
    <3>4. s1 = -1 => x0 + s1 * k = x0 - k /\ u = -t
      BY <1>1, <1>8
    <3>5. QED
      BY <1>1, <2>5, <3>1, <3>2, <3>3, <3>4
  <2>7. QED
    BY <1>1, <1>4, <2>6 DEF NextTo
<1>11. QED
  BY <1>9, <1>10

\* ... and a flat one has a point next to each that is close to it.
LEMMA NearFlat ==
  ASSUME NEW x0, NEW y0, NEW x1, NEW y1, NEW s1, NEW s2, NEW swapped, NEW dx, NEW dy,
         IsLine(x0, y0, x1, y1, s1, s2, swapped, dx, dy), ~swapped, dy # 0,
         NEW m \in 0..dy, NEW x \in Int,
         Turn(x0, y0, x1, y1, x, y0 + s2 * m) < dy, -Turn(x0, y0, x1, y1, x, y0 + s2 * m) < dy
  PROVE  NextTo(x, y0 + s2 * m, F!LinePoints(x0, y0, x1, y1))
<1>1. /\ x0 \in Int /\ y0 \in Int /\ s1 \in {-1, 1} /\ s2 \in {-1, 0, 1} /\ dx \in Nat \ {0} /\ dy \in Nat \ {0}
      /\ dy <= dx /\ x1 - x0 = s1 * dx /\ y1 - y0 = s2 * dy
      /\ F!LinePoints(x0, y0, x1, y1) = {OnWay(x0, y0, s1, s2, swapped, dx, dy, j) : j \in 0..dx}
  BY DEF IsLine, IsCourse
<1>2. s2 # 0
  <2>1. PICK i \in Int, j \in Int : i = x1 - x0 /\ j = y1 - y0
    BY <1>1 DEF IsLine, IsCourse
  <2>2. dy = F!LesserOf(F!Mag(i), F!Mag(j)) /\ F!Mag(i) \in Nat
    BY <2>1, SignFacts DEF IsLine
  <2>3. s2 = 0 => j = 0
    BY <1>1, <2>1
  <2>4. F!Mag(0) = 0
    BY DEF F!Mag
  <2>5. s2 = 0 => dy = 0
    BY <2>2, <2>3, <2>4 DEF F!LesserOf
  <2>6. QED
    BY <1>1, <2>5
<1>3. PICK t \in Int : x - x0 = s1 * t /\ x = x0 + s1 * t
  <2>1. x - x0 = s1 * (s1 * (x - x0)) /\ s1 * (x - x0) \in Int /\ x = x0 + s1 * (s1 * (x - x0))
    BY <1>1
  <2>2. QED
    BY <2>1
<1>4. PICK a \in Int, b \in Int : a = dx * m /\ b = dy * t
  BY <1>1
<1>5. Turn(x0, y0, x1, y1, x, y0 + s2 * m) = (s1 * s2) * (a - b)
  <2>1. (y0 + s2 * m) - y0 = s2 * m
    BY <1>1
  <2>2. (s1 * dx) * (s2 * m) = (s1 * s2) * a /\ (s2 * dy) * (s1 * t) = (s1 * s2) * b
    BY <1>1, <1>4
  <2>3. s1 * s2 \in Int /\ (s1 * s2) * a - (s1 * s2) * b = (s1 * s2) * (a - b)
    BY <1>1
  <2>4. QED
    BY <1>1, <1>3, <2>1, <2>2, <2>3 DEF Turn
<1>6. s1 * s2 \in {-1, 1}
  BY <1>1, <1>2
<1>7. a - b < dy /\ b - a < dy
  BY <1>1, <1>5, <1>6
<1>8. PICK j \in 0..dx : Minor(dx, dy, j) = m /\ j \in t - 1..t + 1
  <2>1. dy * t - dx * m < dy /\ dx * m - dy * t < dy
    BY <1>4, <1>7
  <2>2. dx \in Nat \ {0} /\ dy \in Nat \ {0} /\ dy <= dx
    BY <1>1
  <2>3. \E j \in 0..dx : Minor(dx, dy, j) = m /\ j \in t - 1..t + 1
    BY <2>1, <2>2, FlatNear, ZenonT(60)
  <2>4. QED
    BY <2>3
<1>9. OnWay(x0, y0, s1, s2, swapped, dx, dy, j) = <<x0 + s1 * j, y0 + s2 * m>>
  BY <1>8 DEF OnWay
<1>10. x0 + s1 * j \in x - 1..x + 1
  BY <1>1, <1>3, <1>8
<1>11. QED
  BY <1>1, <1>9, <1>10 DEF NextTo

\* Whichever it is.
LEMMA NearLine ==
  ASSUME NEW x0 \in Int, NEW y0 \in Int, NEW x1 \in Int, NEW y1 \in Int, NEW x \in Int, NEW y \in Int,
         \/ y0 < y1 /\ y0 <= y /\ y <= y1
         \/ y1 < y0 /\ y1 <= y /\ y <= y0,
         Turn(x0, y0, x1, y1, x, y) < F!Mag(y1 - y0), -Turn(x0, y0, x1, y1, x, y) < F!Mag(y1 - y0)
  PROVE  NextTo(x, y, F!LinePoints(x0, y0, x1, y1))
<1>1. y0 # y1
  OBVIOUS
<1>2. PICK s1, s2, swapped, dx, dy : IsLine(x0, y0, x1, y1, s1, s2, swapped, dx, dy)
  BY <1>1, LineIs
<1>3. PICK g \in Nat : g = F!Mag(y1 - y0)
  BY SignFacts
<1>4. PICK m \in 0..g : y = y0 + s2 * m
  <2>1. s2 = F!Sign(y1 - y0)
    BY <1>2 DEF IsLine
  <2>2. CASE y0 < y1
    <3>1. s2 = 1 /\ g = y1 - y0
      BY <1>3, <2>1, <2>2 DEF F!Sign, F!Mag
    <3>2. y - y0 \in 0..g /\ y = y0 + s2 * (y - y0)
      BY <2>2, <3>1
    <3>3. QED
      BY <3>2
  <2>3. CASE y1 < y0
    <3>1. s2 = -1 /\ g = y0 - y1
      BY <1>3, <2>1, <2>3 DEF F!Sign, F!Mag
    <3>2. y0 - y \in 0..g /\ y = y0 + s2 * (y0 - y)
      BY <2>3, <3>1
    <3>3. QED
      BY <3>2
  <2>4. QED
    BY <2>2, <2>3
<1>5. PICK i \in Nat : i = F!Mag(x1 - x0)
  BY SignFacts
<1>6. /\ dx = F!GreaterOf(i, g) /\ dy = F!LesserOf(i, g) /\ (swapped => g > i) /\ (~swapped => g <= i)
      /\ g # 0 /\ swapped \in BOOLEAN
  BY <1>1, <1>2, <1>3, <1>5, SignFacts DEF IsLine, IsCourse
<1>7. CASE swapped
  <2>1. g = dx
    BY <1>6, <1>7 DEF F!GreaterOf
  <2>2. QED
    BY <1>2, <1>3, <1>4, <1>7, <2>1, NearSteep
<1>8. CASE ~swapped
  <2>1. g = dy
    BY <1>6, <1>8 DEF F!LesserOf
  <2>2. QED
    BY <1>2, <1>3, <1>4, <1>6, <1>8, <2>1, NearFlat
<1>9. QED
  BY <1>6, <1>7, <1>8

\* A line drawn from its other end has each of its points next to one of this.
LEMMA Opposite ==
  ASSUME NEW n \in Int, NEW m \in Int, m = -n
  PROVE  F!Sign(m) = -F!Sign(n) /\ F!Mag(m) = F!Mag(n)
BY DEF F!Sign, F!Mag

\* The course of the line from the other end goes the other way ...
LEMMA LineBackIs ==
  ASSUME NEW x0, NEW y0, NEW x1 \in Int, NEW y1 \in Int, NEW s1, NEW s2, NEW swapped, NEW dx, NEW dy,
         IsLine(x0, y0, x1, y1, s1, s2, swapped, dx, dy)
  PROVE  \E r1, r2 : r1 = -s1 /\ r2 = -s2 /\ IsLine(x1, y1, x0, y0, r1, r2, swapped, dx, dy)
<1>1. /\ x0 \in Int /\ y0 \in Int /\ s1 \in {-1, 0, 1} /\ s2 \in {-1, 0, 1} /\ swapped \in BOOLEAN
      /\ dx \in Nat \ {0} /\ dy \in Nat /\ IF swapped THEN s2 # 0 ELSE s1 # 0
  BY DEF IsLine, IsCourse
<1>2. PICK i \in Int, j \in Int : i = x1 - x0 /\ j = y1 - y0
  BY <1>1
<1>3. PICK v \in Int, w \in Int : v = x0 - x1 /\ w = y0 - y1
  BY <1>1
<1>4. v = -i /\ w = -j
  BY <1>1, <1>2, <1>3
<1>5. F!Sign(v) = -F!Sign(i) /\ F!Mag(v) = F!Mag(i) /\ F!Sign(w) = -F!Sign(j) /\ F!Mag(w) = F!Mag(j)
  BY <1>4, Opposite
<1>6. s1 = F!Sign(i) /\ s2 = F!Sign(j) /\ (swapped => F!Mag(j) > F!Mag(i)) /\ (~swapped => F!Mag(j) <= F!Mag(i))
      /\ dx = F!GreaterOf(F!Mag(i), F!Mag(j)) /\ dy = F!LesserOf(F!Mag(i), F!Mag(j))
  BY <1>2 DEF IsLine
<1>7. x0 # x1 \/ y0 # y1
  <2>1. i = 0 => F!Sign(i) = 0
    BY DEF F!Sign
  <2>2. j = 0 => F!Sign(j) = 0
    BY DEF F!Sign
  <2>3. ~(i = 0 /\ j = 0)
    BY <1>1, <1>6, <2>1, <2>2
  <2>4. QED
    BY <1>1, <1>2, <2>3
<1>8. PICK r1, r2, back, ex, ey : IsLine(x1, y1, x0, y0, r1, r2, back, ex, ey)
  BY <1>1, <1>7, LineIs
<1>9. /\ r1 = F!Sign(v) /\ r2 = F!Sign(w) /\ back \in BOOLEAN
      /\ (back => F!Mag(w) > F!Mag(v)) /\ (~back => F!Mag(w) <= F!Mag(v))
      /\ ex = F!GreaterOf(F!Mag(v), F!Mag(w)) /\ ey = F!LesserOf(F!Mag(v), F!Mag(w))
  BY <1>3, <1>8 DEF IsLine, IsCourse
<1>10. PICK a \in Nat, b \in Nat : a = F!Mag(i) /\ b = F!Mag(j)
  BY SignFacts
<1>11. back = swapped
  <2>1. (swapped => b > a) /\ (~swapped => b <= a) /\ (back => b > a) /\ (~back => b <= a)
    BY <1>5, <1>6, <1>9, <1>10
  <2>2. back <=> swapped
    BY <2>1
  <2>3. QED
    BY <1>1, <1>9, <2>2
<1>12. ex = dx /\ ey = dy /\ r1 = -s1 /\ r2 = -s2
  BY <1>5, <1>6, <1>9
<1>13. QED
  BY <1>8, <1>11, <1>12

\* ... and rounds the other way, by one step at most, ...
LEMMA MinorBack ==
  ASSUME NEW dx \in Nat \ {0}, NEW dy \in Nat, dy <= dx, NEW j \in 0..dx
  PROVE  /\ Minor(dx, dy, j) \in 0..dy
         /\ Minor(dx, dy, dx - j) \in dy - Minor(dx, dy, j)..dy - Minor(dx, dy, j) + 1
         /\ \E i \in 0..dx : i \in dx - j - 1..dx - j /\ Minor(dx, dy, i) = dy - Minor(dx, dy, j)
<1>0. j \in Nat
  OBVIOUS
<1>1. PICK k \in Nat : k = Minor(dx, dy, j)
  BY <1>0, MinorFacts
<1>2. PICK t \in 0..dx : t = dx - j
  OBVIOUS
<1>2a. t \in Nat
  OBVIOUS
<1>3. PICK n \in Nat : n = Minor(dx, dy, t)
  BY <1>2a, MinorFacts
<1>4. PICK a \in Nat, b \in Nat, c \in Nat, d \in Nat, g \in Nat :
         a = dx * k /\ b = dy * j /\ c = dx * n /\ d = dy * t /\ g = dy * dx
  OBVIOUS
<1>5. 2 * a <= 2 * b + dx /\ 2 * b + dx < 2 * a + 2 * dx /\ 2 * c <= 2 * d + dx /\ 2 * d + dx < 2 * c + 2 * dx
  BY <1>0, <1>1, <1>2a, <1>3, <1>4, MinorFacts
<1>6. d = g - b
  BY <1>2, <1>4
<1>7. ASSUME NEW i \in Int, i >= 1 PROVE dx * i >= dx
  <2>1. dx * (i - 1) >= 0 /\ dx * (i - 1) = dx * i - dx
    BY <1>7
  <2>2. QED
    BY <2>1
<1>8. k <= dy
  <2>1. b <= g
    <3>1. dy * (dx - j) >= 0 /\ dy * (dx - j) = g - b
      BY <1>4
    <3>2. QED
      BY <3>1
  <2>2. dx * (k - dy) = a - g /\ k - dy \in Int
    BY <1>4
  <2>3. ~(k - dy >= 1)
    BY <1>5, <1>7, <2>1, <2>2
  <2>4. QED
    BY <2>3
<1>9. n \in dy - k..dy - k + 1
  <2>1. dx * (n + k - dy - 1) = c + a - g - dx /\ n + k - dy - 1 \in Int
    BY <1>4
  <2>2. ~(n + k - dy - 1 >= 1)
    BY <1>5, <1>6, <1>7, <2>1
  <2>3. dx * (dy - n - k) = g - c - a /\ dy - n - k \in Int
    BY <1>4
  <2>4. ~(dy - n - k >= 1)
    BY <1>5, <1>6, <1>7, <2>3
  <2>5. QED
    BY <2>2, <2>4
<1>10. PICK m \in Nat, o \in Nat : m = dy - k /\ o = dx * m /\ o = g - a
  <2>1. dy - k \in Nat /\ dx * (dy - k) \in Nat /\ dx * (dy - k) = g - a
    BY <1>4, <1>8
  <2>2. QED
    BY <2>1
<1>11. 2 * o <= 2 * d + dx /\ 2 * d - 2 * o <= dx
  BY <1>5, <1>6, <1>10
<1>12. \E i \in 0..dx : i \in t - 1..t /\ Minor(dx, dy, i) = m
  <2>1. CASE 2 * d + dx < 2 * o + 2 * dx
    <3>1. 2 * (dx * m) <= 2 * (dy * t) + dx /\ 2 * (dy * t) + dx < 2 * (dx * m) + 2 * dx /\ t \in Nat /\ m \in Int
      BY <1>4, <1>10, <1>11, <2>1
    <3>2. Minor(dx, dy, t) = m
      BY <3>1, MinorIs
    <3>3. QED
      BY <3>2
  <2>2. CASE ~(2 * d + dx < 2 * o + 2 * dx)
    <3>1. t # 0
      <4>1. t = 0 => d = 0
        BY <1>4
      <4>2. QED
        BY <2>2, <4>1
    <3>2. PICK i \in Nat : i = t - 1 /\ i \in 0..dx
      BY <3>1
    <3>3. dy * i = d - dy
      BY <1>4, <3>2
    <3>4. dy > 0
      <4>1. dy = 0 => d = 0
        BY <1>4
      <4>2. QED
        BY <2>2, <4>1
    <3>5. 2 * (dx * m) <= 2 * (dy * i) + dx /\ 2 * (dy * i) + dx < 2 * (dx * m) + 2 * dx
      BY <1>10, <1>11, <2>2, <3>3, <3>4
    <3>6. Minor(dx, dy, i) = m
      BY <3>5, MinorIs
    <3>7. QED
      BY <3>2, <3>6
  <2>3. QED
    BY <2>1, <2>2
<1>13. QED
  BY <1>1, <1>2, <1>3, <1>8, <1>9, <1>10, <1>12

\* ... so each of its points is next to one of this line.
LEMMA LineBack ==
  ASSUME NEW x0 \in Int, NEW y0 \in Int, NEW x1 \in Int, NEW y1 \in Int, NEW x, NEW y,
         <<x, y>> \in F!LinePoints(x1, y1, x0, y0)
  PROVE  x \in Int /\ y \in Int /\ NextTo(x, y, F!LinePoints(x0, y0, x1, y1))
<1>1. CASE x0 = x1 /\ y0 = y1
  <2>1. x = x0 /\ y = y0 /\ <<x0, y0>> \in F!LinePoints(x0, y0, x1, y1)
    BY <1>1, LineOfPoint
  <2>2. x0 \in x0 - 1..x0 + 1
    OBVIOUS
  <2>3. QED
    BY <2>1, <2>2, NextToBy
<1>2. CASE x0 # x1 \/ y0 # y1
  <2>1. PICK s1, s2, swapped, dx, dy : IsLine(x0, y0, x1, y1, s1, s2, swapped, dx, dy)
    BY <1>2, LineIs
  <2>2. PICK r1, r2 : r1 = -s1 /\ r2 = -s2 /\ IsLine(x1, y1, x0, y0, r1, r2, swapped, dx, dy)
    BY <2>1, LineBackIs
  <2>3. /\ s1 \in {-1, 0, 1} /\ s2 \in {-1, 0, 1} /\ swapped \in BOOLEAN
        /\ dx \in Nat \ {0} /\ dy \in Nat /\ dy <= dx
        /\ x1 - x0 = s1 * (IF swapped THEN dy ELSE dx) /\ y1 - y0 = s2 * (IF swapped THEN dx ELSE dy)
    BY <2>1 DEF IsLine, IsCourse
  <2>4. /\ F!LinePoints(x0, y0, x1, y1) = {OnWay(x0, y0, s1, s2, swapped, dx, dy, j) : j \in 0..dx}
        /\ F!LinePoints(x1, y1, x0, y0) = {OnWay(x1, y1, r1, r2, swapped, dx, dy, j) : j \in 0..dx}
    BY <2>1, <2>2 DEF IsLine
  <2>5. PICK j \in 0..dx : <<x, y>> = OnWay(x1, y1, r1, r2, swapped, dx, dy, j)
    BY <2>4
  <2>6. PICK k \in 0..dy : k = Minor(dx, dy, j)
    BY <2>3, MinorBack
  <2>7. CASE swapped
    <3>1. x = x1 + r1 * k /\ y = y1 + r2 * j
      BY <2>5, <2>6, <2>7 DEF OnWay
    <3>2. PICK t \in 0..dx : t = dx - j
      BY <2>3
    <3>3. PICK n \in Int : n = Minor(dx, dy, t) /\ n \in dy - k..dy - k + 1
      <4>1. /\ Minor(dx, dy, j) \in 0..dy
            /\ Minor(dx, dy, dx - j) \in dy - Minor(dx, dy, j)..dy - Minor(dx, dy, j) + 1
        BY <2>3, MinorBack
      <4>2. Minor(dx, dy, t) \in dy - k..dy - k + 1
        BY <2>6, <3>2, <4>1
      <4>3. QED
        BY <2>3, <4>2
    <3>4. OnWay(x0, y0, s1, s2, swapped, dx, dy, t) = <<x0 + s1 * n, y0 + s2 * t>>
      BY <2>7, <3>3 DEF OnWay
    <3>5. x1 = x0 + s1 * dy /\ y1 = y0 + s2 * dx
      BY <2>3, <2>7
    <3>6. y = y0 + s2 * t /\ y \in Int
      <4>1. s2 = 0 \/ s2 = 1 \/ s2 = -1
        BY <2>3
      <4>2. QED
        BY <2>2, <2>3, <3>1, <3>2, <3>5, <4>1
    <3>7. x \in Int /\ x0 + s1 * n \in x - 1..x + 1
      <4>1. s1 = 0 \/ s1 = 1 \/ s1 = -1
        BY <2>3
      <4>2. QED
        BY <2>2, <2>3, <3>1, <3>3, <3>5, <4>1
    <3>8. <<x0 + s1 * n, y>> \in F!LinePoints(x0, y0, x1, y1)
      BY <2>4, <3>2, <3>4, <3>6
    <3>9. QED
      BY <3>6, <3>7, <3>8, NextToBy
  <2>8. CASE ~swapped
    <3>1. x = x1 + r1 * j /\ y = y1 + r2 * k
      BY <2>5, <2>6, <2>8 DEF OnWay
    <3>2. PICK t \in 0..dx : t \in dx - j - 1..dx - j /\ Minor(dx, dy, t) = dy - k
      BY <2>3, <2>6, MinorBack
    <3>3. PICK m \in Int : m = dy - k
      BY <2>3
    <3>4. OnWay(x0, y0, s1, s2, swapped, dx, dy, t) = <<x0 + s1 * t, y0 + s2 * m>>
      BY <2>8, <3>2, <3>3 DEF OnWay
    <3>5. x1 = x0 + s1 * dx /\ y1 = y0 + s2 * dy
      BY <2>3, <2>8
    <3>6. y = y0 + s2 * m /\ y \in Int
      <4>1. s2 = 0 \/ s2 = 1 \/ s2 = -1
        BY <2>3
      <4>2. QED
        BY <2>2, <2>3, <3>1, <3>3, <3>5, <4>1
    <3>7. x \in Int /\ x0 + s1 * t \in x - 1..x + 1
      <4>1. s1 = 0 \/ s1 = 1 \/ s1 = -1
        BY <2>3
      <4>2. QED
        BY <2>2, <2>3, <3>1, <3>2, <3>5, <4>1
    <3>8. <<x0 + s1 * t, y>> \in F!LinePoints(x0, y0, x1, y1)
      BY <2>4, <3>2, <3>4, <3>6
    <3>9. QED
      BY <3>6, <3>7, <3>8, NextToBy
  <2>9. QED
    BY <2>3, <2>7, <2>8
<1>3. QED
  BY <1>1, <1>2

\* The rows of a triangle whose corners are sorted: what its turns mean to each other.
Weighted(u, s, v, h0, h1, h2) ==
  /\ u \in Int /\ s \in Int /\ v \in Int /\ h0 \in Int /\ h1 \in Int /\ h2 \in Int
  /\ h0 <= 0 /\ h2 >= 0 /\ h0 < h2
  /\ s * h0 - v * h1 + u * h2 = 0

\* The sign of a product.
LEMMA Products ==
  ASSUME NEW a \in Int, NEW b \in Int
  PROVE  /\ a * b \in Int
         /\ a >= 0 /\ b >= 0 => a * b >= 0
         /\ a <= 0 /\ b <= 0 => a * b >= 0
         /\ a >= 0 /\ b <= 0 => a * b <= 0
         /\ a <= 0 /\ b >= 0 => a * b <= 0
         /\ a > 0 /\ b > 0 => a * b > 0
         /\ a < 0 /\ b < 0 => a * b > 0
         /\ a > 0 /\ b < 0 => a * b < 0
         /\ a < 0 /\ b > 0 => a * b < 0
         /\ a = 0 \/ b = 0 => a * b = 0
<1>1. a * b \in Int /\ (-a) * b = -(a * b) /\ a * (-b) = -(a * b) /\ (-a) * (-b) = a * b
  OBVIOUS
<1>2. ASSUME NEW c \in Nat, NEW d \in Nat PROVE c * d \in Nat
  OBVIOUS
<1>3. ASSUME NEW c \in Nat \ {0}, NEW d \in Nat \ {0} PROVE c * d \in Nat \ {0}
  <2>1. (c - 1) * d \in Nat /\ c * d = (c - 1) * d + d
    OBVIOUS
  <2>2. QED
    BY <2>1
<1>4. (a >= 0 => a \in Nat) /\ (a <= 0 => -a \in Nat) /\ (b >= 0 => b \in Nat) /\ (b <= 0 => -b \in Nat)
  OBVIOUS
<1>5. /\ a >= 0 /\ b >= 0 => a * b >= 0
      /\ a <= 0 /\ b <= 0 => a * b >= 0
      /\ a >= 0 /\ b <= 0 => a * b <= 0
      /\ a <= 0 /\ b >= 0 => a * b <= 0
  BY <1>1, <1>2, <1>4
<1>6. (a > 0 => a \in Nat \ {0}) /\ (a < 0 => -a \in Nat \ {0}) /\ (b > 0 => b \in Nat \ {0}) /\ (b < 0 => -b \in Nat \ {0})
  OBVIOUS
<1>7. /\ a > 0 /\ b > 0 => a * b > 0
      /\ a < 0 /\ b < 0 => a * b > 0
      /\ a > 0 /\ b < 0 => a * b < 0
      /\ a < 0 /\ b > 0 => a * b < 0
  BY <1>1, <1>3, <1>6
<1>8. a = 0 \/ b = 0 => a * b = 0
  OBVIOUS
<1>9. QED
  BY <1>1, <1>5, <1>7, <1>8

\* In a row of the upper part, what lies right of one edge and left of another ...
LEMMA UpperRow ==
  ASSUME NEW u, NEW s, NEW v, NEW h0, NEW h1, NEW h2, Weighted(u, s, v, h0, h1, h2), h1 >= 0, h0 < h1
  PROVE  /\ u >= 0 /\ v <= 0 => s >= 0 \/ (u = 0 /\ v = 0)
         /\ u <= 0 /\ v >= 0 => s <= 0 \/ (u = 0 /\ v = 0)
<1>1. /\ u \in Int /\ s \in Int /\ v \in Int /\ h0 \in Int /\ h1 \in Int /\ h2 \in Int
      /\ h0 <= 0 /\ h2 >= 0 /\ h0 < h2
  BY DEF Weighted
<1>2. PICK a \in Int, b \in Int, c \in Int : a = s * h0 /\ b = v * h1 /\ c = u * h2 /\ a - b + c = 0
  BY DEF Weighted
<1>3. CASE h0 = 0
  <2>1. a = 0
    BY <1>1, <1>2, <1>3
  <2>2. h1 > 0 /\ h2 > 0
    BY <1>1, <1>3
  <2>3. /\ (v > 0 => b > 0) /\ (v < 0 => b < 0) /\ (v = 0 => b = 0)
        /\ (u > 0 => c > 0) /\ (u < 0 => c < 0) /\ (u = 0 => c = 0)
    BY <1>1, <1>2, <2>2, Products
  <2>4. QED
    BY <1>1, <1>2, <2>1, <2>3
<1>4. CASE h0 < 0
  <2>1. /\ (v <= 0 => b <= 0) /\ (v >= 0 => b >= 0) /\ (u >= 0 => c >= 0) /\ (u <= 0 => c <= 0)
        /\ (s < 0 => a > 0) /\ (s > 0 => a < 0)
    BY <1>1, <1>2, <1>4, Products
  <2>2. QED
    BY <1>1, <1>2, <2>1
<1>5. QED
  BY <1>1, <1>3, <1>4

\* ... or in one of the lower part is on the same side of the third, or it is a corner.
LEMMA LowerRow ==
  ASSUME NEW u, NEW s, NEW v, NEW h0, NEW h1, NEW h2, Weighted(u, s, v, h0, h1, h2), h1 \in Int, h1 <= 0, h1 < h2
  PROVE  /\ s >= 0 /\ v <= 0 => u >= 0 \/ (s = 0 /\ v = 0)
         /\ s <= 0 /\ v >= 0 => u <= 0 \/ (s = 0 /\ v = 0)
<1>1. /\ u \in Int /\ s \in Int /\ v \in Int /\ h0 \in Int /\ h1 \in Int /\ h2 \in Int
      /\ h0 <= 0 /\ h2 >= 0 /\ h0 < h2
  BY DEF Weighted
<1>2. PICK a \in Int, b \in Int, c \in Int : a = s * h0 /\ b = v * h1 /\ c = u * h2 /\ a - b + c = 0
  BY DEF Weighted
<1>3. CASE h2 = 0
  <2>1. c = 0
    BY <1>1, <1>2, <1>3
  <2>2. h1 < 0 /\ h0 < 0
    BY <1>1, <1>3
  <2>3. /\ (v > 0 => b < 0) /\ (v < 0 => b > 0) /\ (v = 0 => b = 0)
        /\ (s > 0 => a < 0) /\ (s < 0 => a > 0) /\ (s = 0 => a = 0)
    BY <1>1, <1>2, <2>2, Products
  <2>4. QED
    BY <1>1, <1>2, <2>1, <2>3
<1>4. CASE h2 > 0
  <2>1. /\ (v <= 0 => b >= 0) /\ (v >= 0 => b <= 0) /\ (s >= 0 => a <= 0) /\ (s <= 0 => a >= 0)
        /\ (u < 0 => c < 0) /\ (u > 0 => c > 0)
    BY <1>1, <1>2, <1>4, Products
  <2>2. QED
    BY <1>1, <1>2, <2>1
<1>5. QED
  BY <1>1, <1>3, <1>4

\* The turns weigh the corners.
LEMMA TurnsWeighted ==
  ASSUME NEW x0 \in Int, NEW y0 \in Int, NEW x1 \in Int, NEW y1 \in Int, NEW x2 \in Int, NEW y2 \in Int,
         NEW x \in Int, NEW y \in Int, y0 <= y, y <= y2, y0 < y2
  PROVE  Weighted(Turn(x0, y0, x1, y1, x, y), Turn(x1, y1, x2, y2, x, y), Turn(x0, y0, x2, y2, x, y),
                  y0 - y, y1 - y, y2 - y)
<1>1. PICK a0 \in Int, a1 \in Int, a2 \in Int, h0 \in Int, h1 \in Int, h2 \in Int :
        /\ a0 = x0 - x /\ a1 = x1 - x /\ a2 = x2 - x /\ h0 = y0 - y /\ h1 = y1 - y /\ h2 = y2 - y
  OBVIOUS
<1>2. ASSUME NEW a \in Int, NEW b \in Int, NEW g \in Int, NEW h \in Int
      PROVE  (b - a) * (-g) - (h - g) * (-a) = a * h - b * g
  OBVIOUS
<1>3. /\ x1 - x0 = a1 - a0 /\ x2 - x1 = a2 - a1 /\ x2 - x0 = a2 - a0
      /\ y1 - y0 = h1 - h0 /\ y2 - y1 = h2 - h1 /\ y2 - y0 = h2 - h0
      /\ x - x0 = -a0 /\ x - x1 = -a1 /\ y - y0 = -h0 /\ y - y1 = -h1
  BY <1>1
<1>4. PICK u \in Int, s \in Int, v \in Int :
        u = a0 * h1 - a1 * h0 /\ s = a1 * h2 - a2 * h1 /\ v = a0 * h2 - a2 * h0
  OBVIOUS
<1>5. /\ Turn(x0, y0, x1, y1, x, y) = u /\ Turn(x1, y1, x2, y2, x, y) = s /\ Turn(x0, y0, x2, y2, x, y) = v
  <2>1. Turn(x0, y0, x1, y1, x, y) = (a1 - a0) * (-h0) - (h1 - h0) * (-a0)
    BY <1>3 DEF Turn
  <2>2. Turn(x1, y1, x2, y2, x, y) = (a2 - a1) * (-h1) - (h2 - h1) * (-a1)
    BY <1>3 DEF Turn
  <2>3. Turn(x0, y0, x2, y2, x, y) = (a2 - a0) * (-h0) - (h2 - h0) * (-a0)
    BY <1>3 DEF Turn
  <2>4. /\ (a1 - a0) * (-h0) - (h1 - h0) * (-a0) = u
        /\ (a2 - a1) * (-h1) - (h2 - h1) * (-a1) = s
        /\ (a2 - a0) * (-h0) - (h2 - h0) * (-a0) = v
    BY <1>2, <1>4
  <2>5. QED
    BY <2>1, <2>2, <2>3, <2>4
<1>6. s * h0 - v * h1 + u * h2 = 0
  <2>1. /\ s * h0 = (a1 * h2) * h0 - (a2 * h1) * h0
        /\ v * h1 = (a0 * h2) * h1 - (a2 * h0) * h1
        /\ u * h2 = (a0 * h1) * h2 - (a1 * h0) * h2
    BY <1>4
  <2>2. /\ (a1 * h2) * h0 = (a1 * h0) * h2 /\ (a2 * h1) * h0 = (a2 * h0) * h1
        /\ (a0 * h2) * h1 = (a0 * h1) * h2
    OBVIOUS
  <2>3. PICK i \in Int, j \in Int, k \in Int : i = (a1 * h0) * h2 /\ j = (a2 * h0) * h1 /\ k = (a0 * h1) * h2
    OBVIOUS
  <2>4. s * h0 = i - j /\ v * h1 = k - j /\ u * h2 = k - i
    BY <2>1, <2>2, <2>3
  <2>5. QED
    BY <2>3, <2>4
<1>7. h0 <= 0 /\ h2 >= 0 /\ h0 < h2
  BY <1>1
<1>8. Weighted(u, s, v, h0, h1, h2)
  BY <1>6, <1>7 DEF Weighted
<1>9. QED
  BY <1>1, <1>5, <1>8

\* Where a scan line reaches an edge is between the corners of the edge.
LEMMA EdgeWithin ==
  ASSUME NEW x0 \in Int, NEW y0 \in Int, NEW x1 \in Int, NEW y1 \in Int, NEW y \in Int,
         y0 < y1, y0 <= y, y <= y1
  PROVE  /\ x0 <= EdgeAt(x0, y0, x1, y1, y) \/ x1 <= EdgeAt(x0, y0, x1, y1, y)
         /\ x0 >= EdgeAt(x0, y0, x1, y1, y) \/ x1 >= EdgeAt(x0, y0, x1, y1, y)
<1>1. PICK e \in Int : e = EdgeAt(x0, y0, x1, y1, y)
  BY EdgeFacts
<1>2. \A x \in Int : /\ Turn(x0, y0, x1, y1, x, y) >= 0 => x <= e
                     /\ Turn(x0, y0, x1, y1, x, y) <= 0 => x >= e
  BY <1>1, EdgeFacts
<1>3. PICK a \in Int, g \in Int, h \in Int : a = x1 - x0 /\ g = y - y0 /\ h = y - y1 /\ g >= 0 /\ h <= 0
  OBVIOUS
<1>4. Turn(x0, y0, x1, y1, x0, y) = a * g
  <2>1. x0 - x0 = 0 /\ (y1 - y0) * 0 = 0 /\ a * g \in Int
    OBVIOUS
  <2>2. QED
    BY <1>3, <2>1 DEF Turn
<1>5. Turn(x0, y0, x1, y1, x1, y) = a * h
  <2>1. a * g - (g - h) * a = a * h /\ y1 - y0 = g - h
    BY <1>3
  <2>2. QED
    BY <1>3, <2>1 DEF Turn
<1>6. CASE a >= 0
  <2>1. a * g >= 0 /\ a * h <= 0
    BY <1>3, <1>6, Products
  <2>2. QED
    BY <1>1, <1>2, <1>4, <1>5, <2>1
<1>7. CASE a <= 0
  <2>1. a * g <= 0 /\ a * h >= 0
    BY <1>3, <1>7, Products
  <2>2. QED
    BY <1>1, <1>2, <1>4, <1>5, <2>1
<1>8. QED
  BY <1>3, <1>6, <1>7

\* What a triangle covers.
Within(a, b, c, n) == (a <= n \/ b <= n \/ c <= n) /\ (n <= a \/ n <= b \/ n <= c)

InTriangle(x0, y0, x1, y1, x2, y2, x, y) ==
  /\ Within(x0, x1, x2, x) /\ Within(y0, y1, y2, y)
  /\ \/ /\ Turn(x0, y0, x1, y1, x, y) >= 0 /\ Turn(x1, y1, x2, y2, x, y) >= 0
        /\ Turn(x2, y2, x0, y0, x, y) >= 0
     \/ /\ Turn(x0, y0, x1, y1, x, y) <= 0 /\ Turn(x1, y1, x2, y2, x, y) <= 0
        /\ Turn(x2, y2, x0, y0, x, y) <= 0

\* Corners by height, and what its scan lines cover.
IsSorted(x0, y0, x1, y1, x2, y2) ==
  /\ x0 \in Int /\ y0 \in Int /\ x1 \in Int /\ y1 \in Int /\ x2 \in Int /\ y2 \in Int
  /\ y0 <= y1 /\ y1 <= y2 /\ y0 < y2

ShortEnd(x0, y0, x1, y1, x2, y2, y) ==
  IF y <= (IF y1 = y2 THEN y1 ELSE y1 - 1) THEN EdgeAt(x0, y0, x1, y1, y) ELSE EdgeAt(x1, y1, x2, y2, y)

InScans(x0, y0, x1, y1, x2, y2, x, y) ==
  LET a == ShortEnd(x0, y0, x1, y1, x2, y2, y)
      b == EdgeAt(x0, y0, x2, y2, y)
  IN y \in y0..y2 /\ x \in F!LesserOf(a, b)..F!GreaterOf(a, b)

\* A point in a row of an edge and less than a point from it.
IsClose(x0, y0, x1, y1, x, y) ==
  /\ y0 < y1 /\ y0 <= y /\ y <= y1
  /\ Turn(x0, y0, x1, y1, x, y) < y1 - y0 /\ -Turn(x0, y0, x1, y1, x, y) < y1 - y0

\* Each row is between the long edge and one of the others.
LEMMA RowIs ==
  ASSUME NEW x0, NEW y0, NEW x1, NEW y1, NEW x2, NEW y2, IsSorted(x0, y0, x1, y1, x2, y2), NEW y \in y0..y2
  PROVE  \/ y0 < y1 /\ y <= y1 /\ ShortEnd(x0, y0, x1, y1, x2, y2, y) = EdgeAt(x0, y0, x1, y1, y)
         \/ y1 < y2 /\ y1 <= y /\ ShortEnd(x0, y0, x1, y1, x2, y2, y) = EdgeAt(x1, y1, x2, y2, y)
<1>1. /\ y0 \in Int /\ y1 \in Int /\ y2 \in Int /\ y0 <= y1 /\ y1 <= y2 /\ y0 < y2 /\ y \in Int
  BY DEF IsSorted
<1>2. CASE y1 = y2
  BY <1>1, <1>2 DEF ShortEnd
<1>3. CASE y1 # y2
  <2>1. CASE y <= y1 - 1
    BY <1>1, <1>3, <2>1 DEF ShortEnd
  <2>2. CASE ~(y <= y1 - 1)
    BY <1>1, <1>3, <2>2 DEF ShortEnd
  <2>3. QED
    BY <2>1, <2>2
<1>4. QED
  BY <1>2, <1>3

\* An edge seen from its other end turns the other way.
LEMMA BackTurn ==
  ASSUME NEW x0 \in Int, NEW y0 \in Int, NEW x1 \in Int, NEW y1 \in Int, NEW x \in Int, NEW y \in Int
  PROVE  /\ Turn(x0, y0, x1, y1, x, y) \in Int
         /\ Turn(x1, y1, x0, y0, x, y) + Turn(x0, y0, x1, y1, x, y) = 0
<1>1. PICK a \in Int, b \in Int, c \in Int, d \in Int : a = x1 - x0 /\ b = y1 - y0 /\ c = x - x0 /\ d = y - y0
  OBVIOUS
<1>2. PICK i \in Int, j \in Int, k \in Int : i = a * d /\ j = b * c /\ k = a * b
  OBVIOUS
<1>3. Turn(x0, y0, x1, y1, x, y) = i - j
  BY <1>1, <1>2 DEF Turn
<1>4. x0 - x1 = -a /\ y0 - y1 = -b /\ x - x1 = c - a /\ y - y1 = d - b
  BY <1>1
<1>5. (-a) * (d - b) = k - i /\ (-b) * (c - a) = k - j
  BY <1>2
<1>6. Turn(x1, y1, x0, y0, x, y) = (k - i) - (k - j)
  BY <1>4, <1>5 DEF Turn
<1>7. QED
  BY <1>2, <1>3, <1>6

\* The points of a scan line.
IsRow(x, a, b) == x \in F!LesserOf(a, b)..F!GreaterOf(a, b)

\* What a row has.
LEMMA RowHas ==
  ASSUME NEW x \in Int, NEW a \in Int, NEW b \in Int
  PROVE  IsRow(x, a, b) <=> (a <= x /\ x <= b) \/ (b <= x /\ x <= a)
BY DEF IsRow, F!LesserOf, F!GreaterOf

\* The scan lines leave nothing out, and what they have is covered or close to an edge.
LEMMA ScansFill ==
  ASSUME NEW x0, NEW y0, NEW x1, NEW y1, NEW x2, NEW y2, IsSorted(x0, y0, x1, y1, x2, y2),
         NEW x \in Int, NEW y \in Int
  PROVE  /\ InTriangle(x0, y0, x1, y1, x2, y2, x, y) => InScans(x0, y0, x1, y1, x2, y2, x, y)
         /\ InScans(x0, y0, x1, y1, x2, y2, x, y) =>
              \/ InTriangle(x0, y0, x1, y1, x2, y2, x, y)
              \/ IsClose(x0, y0, x1, y1, x, y)
              \/ IsClose(x1, y1, x2, y2, x, y)
              \/ IsClose(x0, y0, x2, y2, x, y)
<1>1. /\ x0 \in Int /\ y0 \in Int /\ x1 \in Int /\ y1 \in Int /\ x2 \in Int /\ y2 \in Int
      /\ y0 <= y1 /\ y1 <= y2 /\ y0 < y2
  BY DEF IsSorted
<1>2. Within(y0, y1, y2, y) <=> y \in y0..y2
  BY <1>1 DEF Within
<1> SUFFICES ASSUME y \in y0..y2
             PROVE  /\ InTriangle(x0, y0, x1, y1, x2, y2, x, y) => InScans(x0, y0, x1, y1, x2, y2, x, y)
                    /\ InScans(x0, y0, x1, y1, x2, y2, x, y) =>
                         \/ InTriangle(x0, y0, x1, y1, x2, y2, x, y)
                         \/ IsClose(x0, y0, x1, y1, x, y)
                         \/ IsClose(x1, y1, x2, y2, x, y)
                         \/ IsClose(x0, y0, x2, y2, x, y)
  BY <1>2 DEF InTriangle, InScans
<1>3. PICK u \in Int, s \in Int, v \in Int :
        /\ u = Turn(x0, y0, x1, y1, x, y) /\ s = Turn(x1, y1, x2, y2, x, y)
        /\ v = Turn(x0, y0, x2, y2, x, y) /\ Turn(x2, y2, x0, y0, x, y) = -v
  <2>1. Turn(x0, y0, x1, y1, x, y) \in Int
    BY <1>1, BackTurn
  <2>2. Turn(x1, y1, x2, y2, x, y) \in Int
    BY <1>1, BackTurn
  <2>3. Turn(x0, y0, x2, y2, x, y) \in Int
    BY <1>1, BackTurn
  <2>4. Turn(x2, y2, x0, y0, x, y) = -Turn(x0, y0, x2, y2, x, y)
    <3>1. Turn(x2, y2, x0, y0, x, y) \in Int
      BY <1>1, BackTurn
    <3>2. Turn(x2, y2, x0, y0, x, y) + Turn(x0, y0, x2, y2, x, y) = 0
      BY <1>1, BackTurn, ZenonT(60)
    <3>3. QED
      BY <2>3, <3>1, <3>2
  <2>5. QED
    BY <2>1, <2>2, <2>3, <2>4
<1>4. PICK b \in Int : b = EdgeAt(x0, y0, x2, y2, y)
  BY <1>1, EdgeFacts
<1>5. PICK d \in Int : d = y2 - y0 /\ d > 0 /\ y0 - y2 = -d
  BY <1>1
<1>6. (v >= 0 => x <= b) /\ (v <= 0 => x >= b) /\ (x <= b => v > -d) /\ (x >= b => v < d)
  <2>1. /\ Turn(x0, y0, x2, y2, x, y) >= 0 => x <= EdgeAt(x0, y0, x2, y2, y)
        /\ Turn(x0, y0, x2, y2, x, y) <= 0 => x >= EdgeAt(x0, y0, x2, y2, y)
        /\ x <= EdgeAt(x0, y0, x2, y2, y) => Turn(x0, y0, x2, y2, x, y) > y0 - y2
        /\ x >= EdgeAt(x0, y0, x2, y2, y) => Turn(x0, y0, x2, y2, x, y) < y2 - y0
    BY <1>1, EdgeFacts
  <2>2. QED
    BY <1>3, <1>4, <1>5, <2>1
<1>7. (x0 <= b \/ x2 <= b) /\ (x0 >= b \/ x2 >= b)
  BY <1>1, <1>4, EdgeWithin
<1>8. Weighted(u, s, v, y0 - y, y1 - y, y2 - y)
  BY <1>1, <1>3, TurnsWeighted
<1>9. InTriangle(x0, y0, x1, y1, x2, y2, x, y) <=>
        Within(x0, x1, x2, x) /\ ((u >= 0 /\ s >= 0 /\ v <= 0) \/ (u <= 0 /\ s <= 0 /\ v >= 0))
  <2>1. /\ (u >= 0 /\ s >= 0 /\ v <= 0) <=> (u >= 0 /\ s >= 0 /\ -v >= 0)
        /\ (u <= 0 /\ s <= 0 /\ v >= 0) <=> (u <= 0 /\ s <= 0 /\ -v <= 0)
    OBVIOUS
  <2>2. InTriangle(x0, y0, x1, y1, x2, y2, x, y) <=>
          Within(x0, x1, x2, x) /\ ((u >= 0 /\ s >= 0 /\ -v >= 0) \/ (u <= 0 /\ s <= 0 /\ -v <= 0))
    BY <1>2, <1>3 DEF InTriangle
  <2>3. QED
    BY <2>1, <2>2
<1>10. PICK e : e = ShortEnd(x0, y0, x1, y1, x2, y2, y)
  OBVIOUS
<1>11. InScans(x0, y0, x1, y1, x2, y2, x, y) <=> IsRow(x, e, b)
  BY <1>4, <1>10 DEF InScans, IsRow
<1>12. IsClose(x0, y0, x2, y2, x, y) <=> v < d /\ -v < d
  BY <1>1, <1>3, <1>5 DEF IsClose
<1>13. CASE y0 < y1 /\ y <= y1 /\ e = EdgeAt(x0, y0, x1, y1, y)
  <2>1. e \in Int
    BY <1>1, <1>13, EdgeFacts
  <2>2. PICK g \in Int : g = y1 - y0 /\ g > 0 /\ y0 - y1 = -g
    BY <1>1, <1>13
  <2>3. (u >= 0 => x <= e) /\ (u <= 0 => x >= e) /\ (x <= e => u > -g) /\ (x >= e => u < g)
    <3>1. /\ Turn(x0, y0, x1, y1, x, y) >= 0 => x <= EdgeAt(x0, y0, x1, y1, y)
          /\ Turn(x0, y0, x1, y1, x, y) <= 0 => x >= EdgeAt(x0, y0, x1, y1, y)
          /\ x <= EdgeAt(x0, y0, x1, y1, y) => Turn(x0, y0, x1, y1, x, y) > y0 - y1
          /\ x >= EdgeAt(x0, y0, x1, y1, y) => Turn(x0, y0, x1, y1, x, y) < y1 - y0
      BY <1>1, <1>13, EdgeFacts
    <3>2. QED
      BY <1>3, <1>13, <2>2, <3>1
  <2>4. (x0 <= e \/ x1 <= e) /\ (x0 >= e \/ x1 >= e)
    BY <1>1, <1>13, EdgeWithin
  <2>5. IsClose(x0, y0, x1, y1, x, y) <=> u < g /\ -u < g
    BY <1>1, <1>3, <1>13, <2>2 DEF IsClose
  <2>6. /\ u >= 0 /\ v <= 0 => s >= 0 \/ (u = 0 /\ v = 0)
        /\ u <= 0 /\ v >= 0 => s <= 0 \/ (u = 0 /\ v = 0)
    <3>1. y1 - y >= 0 /\ y0 - y < y1 - y
      BY <1>1, <1>13
    <3>2. QED
      BY <1>8, <3>1, UpperRow
  <2>7. IsRow(x, e, b) <=> (e <= x /\ x <= b) \/ (b <= x /\ x <= e)
    BY <2>1, RowHas
  <2>8. IsRow(x, e, b) => Within(x0, x1, x2, x)
    BY <1>1, <1>7, <2>1, <2>4, <2>7 DEF Within
  <2>9. IsRow(x, e, b) =>
          \/ (u >= 0 /\ s >= 0 /\ v <= 0) \/ (u <= 0 /\ s <= 0 /\ v >= 0)
          \/ (u < g /\ -u < g)
          \/ (v < d /\ -v < d)
    BY <1>5, <1>6, <2>1, <2>2, <2>3, <2>6, <2>7
  <2>10. (u >= 0 /\ s >= 0 /\ v <= 0) \/ (u <= 0 /\ s <= 0 /\ v >= 0) => IsRow(x, e, b)
    BY <1>6, <2>3, <2>7
  <2>11. QED
    BY <1>9, <1>11, <1>12, <2>5, <2>8, <2>9, <2>10
<1>14. CASE y1 < y2 /\ y1 <= y /\ e = EdgeAt(x1, y1, x2, y2, y)
  <2>1. e \in Int
    BY <1>1, <1>14, EdgeFacts
  <2>2. PICK g \in Int : g = y2 - y1 /\ g > 0 /\ y1 - y2 = -g
    BY <1>1, <1>14
  <2>3. (s >= 0 => x <= e) /\ (s <= 0 => x >= e) /\ (x <= e => s > -g) /\ (x >= e => s < g)
    <3>1. /\ Turn(x1, y1, x2, y2, x, y) >= 0 => x <= EdgeAt(x1, y1, x2, y2, y)
          /\ Turn(x1, y1, x2, y2, x, y) <= 0 => x >= EdgeAt(x1, y1, x2, y2, y)
          /\ x <= EdgeAt(x1, y1, x2, y2, y) => Turn(x1, y1, x2, y2, x, y) > y1 - y2
          /\ x >= EdgeAt(x1, y1, x2, y2, y) => Turn(x1, y1, x2, y2, x, y) < y2 - y1
      BY <1>1, <1>14, EdgeFacts
    <3>2. QED
      BY <1>3, <1>14, <2>2, <3>1
  <2>4. (x1 <= e \/ x2 <= e) /\ (x1 >= e \/ x2 >= e)
    BY <1>1, <1>14, EdgeWithin
  <2>5. IsClose(x1, y1, x2, y2, x, y) <=> s < g /\ -s < g
    BY <1>1, <1>3, <1>14, <2>2 DEF IsClose
  <2>6. /\ s >= 0 /\ v <= 0 => u >= 0 \/ (s = 0 /\ v = 0)
        /\ s <= 0 /\ v >= 0 => u <= 0 \/ (s = 0 /\ v = 0)
    <3>1. y1 - y \in Int /\ y1 - y <= 0 /\ y1 - y < y2 - y
      BY <1>1, <1>14
    <3>2. QED
      BY <1>8, <3>1, LowerRow
  <2>7. IsRow(x, e, b) <=> (e <= x /\ x <= b) \/ (b <= x /\ x <= e)
    BY <2>1, RowHas
  <2>8. IsRow(x, e, b) => Within(x0, x1, x2, x)
    BY <1>1, <1>7, <2>1, <2>4, <2>7 DEF Within
  <2>9. IsRow(x, e, b) =>
          \/ (u >= 0 /\ s >= 0 /\ v <= 0) \/ (u <= 0 /\ s <= 0 /\ v >= 0)
          \/ (s < g /\ -s < g)
          \/ (v < d /\ -v < d)
    BY <1>5, <1>6, <2>1, <2>2, <2>3, <2>6, <2>7
  <2>10. (u >= 0 /\ s >= 0 /\ v <= 0) \/ (u <= 0 /\ s <= 0 /\ v >= 0) => IsRow(x, e, b)
    BY <1>6, <2>3, <2>7
  <2>11. QED
    BY <1>9, <1>11, <1>12, <2>5, <2>8, <2>9, <2>10
<1>15. QED
  BY <1>10, <1>13, <1>14, RowIs

\* What the definition of covered points means.
LeastOf(S) == CHOOSE i \in S : \A m \in S : i <= m
MostOf(S) == CHOOSE i \in S : \A m \in S : i >= m

\* The definition bounds a coordinate by the least and the greatest.
LEMMA LeastMost ==
  ASSUME NEW a \in Int, NEW b \in Int, NEW c \in Int
  PROVE  /\ LeastOf({a, b, c}) \in Int /\ MostOf({a, b, c}) \in Int
         /\ \A n \in Int : /\ LeastOf({a, b, c}) <= n <=> a <= n \/ b <= n \/ c <= n
                           /\ n <= MostOf({a, b, c}) <=> n <= a \/ n <= b \/ n <= c
<1>1. \E i \in {a, b, c} : \A m \in {a, b, c} : i <= m
  OBVIOUS
<1>2. PICK l : l = LeastOf({a, b, c})
  OBVIOUS
<1>3. l \in {a, b, c} /\ \A m \in {a, b, c} : l <= m
  BY <1>1, <1>2 DEF LeastOf
<1>4. \E i \in {a, b, c} : \A m \in {a, b, c} : i >= m
  OBVIOUS
<1>5. PICK g : g = MostOf({a, b, c})
  OBVIOUS
<1>6. g \in {a, b, c} /\ \A m \in {a, b, c} : g >= m
  BY <1>4, <1>5 DEF MostOf
<1>7. /\ l \in Int /\ g \in Int
      /\ \A n \in Int : /\ l <= n <=> a <= n \/ b <= n \/ c <= n
                        /\ n <= g <=> n <= a \/ n <= b \/ n <= c
  BY <1>3, <1>6
<1>8. QED
  BY <1>2, <1>5, <1>7

\* Both turns are numbers.
LEMMA BothTurns ==
  ASSUME NEW x0 \in Int, NEW y0 \in Int, NEW x1 \in Int, NEW y1 \in Int, NEW x \in Int, NEW y \in Int
  PROVE  /\ Turn(x0, y0, x1, y1, x, y) \in Int /\ Turn(x1, y1, x0, y0, x, y) \in Int
         /\ Turn(x1, y1, x0, y0, x, y) + Turn(x0, y0, x1, y1, x, y) = 0
<1>1. Turn(x0, y0, x1, y1, x, y) \in Int
  BY BackTurn
<1>2. Turn(x1, y1, x0, y0, x, y) \in Int
  BY BackTurn
<1>3. Turn(x1, y1, x0, y0, x, y) + Turn(x0, y0, x1, y1, x, y) = 0
  BY BackTurn, SMTT(60)
<1>4. QED
  BY <1>1, <1>2, <1>3

\* What is covered is in the triangle.
LEMMA CoveredIs ==
  ASSUME NEW x0 \in Int, NEW y0 \in Int, NEW x1 \in Int, NEW y1 \in Int, NEW x2 \in Int, NEW y2 \in Int
  PROVE  /\ F!Covered(<<x0, y0>>, <<x1, y1>>, <<x2, y2>>) \subseteq Int \X Int
         /\ \A x, y \in Int : <<x, y>> \in F!Covered(<<x0, y0>>, <<x1, y1>>, <<x2, y2>>) <=>
                                InTriangle(x0, y0, x1, y1, x2, y2, x, y)
<1> DEFINE p == <<x0, y0>>
           q == <<x1, y1>>
           r == <<x2, y2>>
           lx == LeastOf({x0, x1, x2})
           gx == MostOf({x0, x1, x2})
           ly == LeastOf({y0, y1, y2})
           gy == MostOf({y0, y1, y2})
           good(pt) == LET turns == {F!Turned(p, q, pt), F!Turned(q, r, pt), F!Turned(r, p, pt)}
                       IN (\A t \in turns : t >= 0) \/ (\A t \in turns : t <= 0)
<1>1. F!Covered(p, q, r) = {pt \in (lx..gx) \X (ly..gy) : good(pt)}
  BY DEF F!Covered, LeastOf, MostOf
<1>2. /\ lx \in Int /\ gx \in Int /\ ly \in Int /\ gy \in Int
  BY LeastMost
<1>3. ASSUME NEW n \in Int
      PROVE  (n \in lx..gx <=> Within(x0, x1, x2, n)) /\ (n \in ly..gy <=> Within(y0, y1, y2, n))
  <2>1. /\ lx <= n <=> x0 <= n \/ x1 <= n \/ x2 <= n
        /\ n <= gx <=> n <= x0 \/ n <= x1 \/ n <= x2
        /\ ly <= n <=> y0 <= n \/ y1 <= n \/ y2 <= n
        /\ n <= gy <=> n <= y0 \/ n <= y1 \/ n <= y2
    <3>1. \A k \in Int : (lx <= k <=> x0 <= k \/ x1 <= k \/ x2 <= k) /\ (k <= gx <=> k <= x0 \/ k <= x1 \/ k <= x2)
      BY LeastMost, SMTT(60)
    <3>2. \A k \in Int : (ly <= k <=> y0 <= k \/ y1 <= k \/ y2 <= k) /\ (k <= gy <=> k <= y0 \/ k <= y1 \/ k <= y2)
      BY LeastMost, SMTT(60)
    <3> HIDE DEF lx, gx, ly, gy
    <3>3. QED
      BY <3>1, <3>2
  <2> HIDE DEF lx, gx, ly, gy
  <2>2. QED
    BY <1>2, <2>1 DEF Within
<1> HIDE DEF lx, gx, ly, gy
<1>4. ASSUME NEW x \in Int, NEW y \in Int
      PROVE  good(<<x, y>>) <=>
               \/ /\ Turn(x0, y0, x1, y1, x, y) >= 0 /\ Turn(x1, y1, x2, y2, x, y) >= 0
                  /\ Turn(x2, y2, x0, y0, x, y) >= 0
               \/ /\ Turn(x0, y0, x1, y1, x, y) <= 0 /\ Turn(x1, y1, x2, y2, x, y) <= 0
                  /\ Turn(x2, y2, x0, y0, x, y) <= 0
  <2>1. /\ F!Turned(p, q, <<x, y>>) = Turn(x0, y0, x1, y1, x, y)
        /\ F!Turned(q, r, <<x, y>>) = Turn(x1, y1, x2, y2, x, y)
        /\ F!Turned(r, p, <<x, y>>) = Turn(x2, y2, x0, y0, x, y)
    BY DEF F!Turned, Turn
  <2> HIDE DEF p, q, r
  <2>2. QED
    BY <2>1
<1> HIDE DEF good
<1>5. ASSUME NEW x \in Int, NEW y \in Int
      PROVE  <<x, y>> \in {pt \in (lx..gx) \X (ly..gy) : good(pt)} <=>
                InTriangle(x0, y0, x1, y1, x2, y2, x, y)
  BY <1>3, <1>4 DEF InTriangle
<1>6. {pt \in (lx..gx) \X (ly..gy) : good(pt)} \subseteq Int \X Int
  BY <1>2
<1>7. QED
  BY <1>1, <1>5, <1>6

\* The order of the corners does not matter.
LEMMA InTriangleTurned ==
  ASSUME NEW x0 \in Int, NEW y0 \in Int, NEW x1 \in Int, NEW y1 \in Int, NEW x2 \in Int, NEW y2 \in Int,
         NEW x \in Int, NEW y \in Int
  PROVE  /\ InTriangle(x0, y0, x1, y1, x2, y2, x, y) <=> InTriangle(x1, y1, x0, y0, x2, y2, x, y)
         /\ InTriangle(x0, y0, x1, y1, x2, y2, x, y) <=> InTriangle(x0, y0, x2, y2, x1, y1, x, y)
<1>1. PICK a \in Int, b \in Int : /\ a = Turn(x0, y0, x1, y1, x, y) /\ b = Turn(x1, y1, x0, y0, x, y) /\ a + b = 0
  <2>1. /\ Turn(x0, y0, x1, y1, x, y) \in Int /\ Turn(x1, y1, x0, y0, x, y) \in Int
        /\ Turn(x1, y1, x0, y0, x, y) + Turn(x0, y0, x1, y1, x, y) = 0
    BY BothTurns
  <2>2. QED
    BY <2>1
<1>2. PICK c \in Int, d \in Int : /\ c = Turn(x1, y1, x2, y2, x, y) /\ d = Turn(x2, y2, x1, y1, x, y) /\ c + d = 0
  <2>1. /\ Turn(x1, y1, x2, y2, x, y) \in Int /\ Turn(x2, y2, x1, y1, x, y) \in Int
        /\ Turn(x2, y2, x1, y1, x, y) + Turn(x1, y1, x2, y2, x, y) = 0
    BY BothTurns
  <2>2. QED
    BY <2>1
<1>3. PICK e \in Int, f \in Int : /\ e = Turn(x2, y2, x0, y0, x, y) /\ f = Turn(x0, y0, x2, y2, x, y) /\ e + f = 0
  <2>1. /\ Turn(x2, y2, x0, y0, x, y) \in Int /\ Turn(x0, y0, x2, y2, x, y) \in Int
        /\ Turn(x0, y0, x2, y2, x, y) + Turn(x2, y2, x0, y0, x, y) = 0
    BY BothTurns
  <2>2. QED
    BY <2>1
<1>4. /\ Within(x0, x1, x2, x) <=> Within(x1, x0, x2, x)
      /\ Within(x0, x1, x2, x) <=> Within(x0, x2, x1, x)
      /\ Within(y0, y1, y2, y) <=> Within(y1, y0, y2, y)
      /\ Within(y0, y1, y2, y) <=> Within(y0, y2, y1, y)
  BY DEF Within
<1>5. /\ InTriangle(x0, y0, x1, y1, x2, y2, x, y) <=>
           /\ Within(x0, x1, x2, x) /\ Within(y0, y1, y2, y)
           /\ (a >= 0 /\ c >= 0 /\ e >= 0) \/ (a <= 0 /\ c <= 0 /\ e <= 0)
      /\ InTriangle(x1, y1, x0, y0, x2, y2, x, y) <=>
           /\ Within(x1, x0, x2, x) /\ Within(y1, y0, y2, y)
           /\ (b >= 0 /\ f >= 0 /\ d >= 0) \/ (b <= 0 /\ f <= 0 /\ d <= 0)
      /\ InTriangle(x0, y0, x2, y2, x1, y1, x, y) <=>
           /\ Within(x0, x2, x1, x) /\ Within(y0, y2, y1, y)
           /\ (f >= 0 /\ d >= 0 /\ b >= 0) \/ (f <= 0 /\ d <= 0 /\ b <= 0)
  BY <1>1, <1>2, <1>3 DEF InTriangle
<1>6. /\ (a >= 0 <=> b <= 0) /\ (a <= 0 <=> b >= 0) /\ (c >= 0 <=> d <= 0) /\ (c <= 0 <=> d >= 0)
      /\ (e >= 0 <=> f <= 0) /\ (e <= 0 <=> f >= 0)
  BY <1>1, <1>2, <1>3
<1>7. QED
  BY <1>4, <1>5, <1>6

\* An edge is drawn from one of its ends.
HasEdge(E, x0, y0, x1, y1) ==
  F!LinePoints(x0, y0, x1, y1) \subseteq E \/ F!LinePoints(x1, y1, x0, y0) \subseteq E

\* What is next to a line is next to more points.
LEMMA NextToMore ==
  ASSUME NEW x, NEW y, NEW S, NEW E, S \subseteq E, NextTo(x, y, S)
  PROVE  NextTo(x, y, E)
BY DEF NextTo

\* Whatever end it is drawn from, its points are next to it, ...
LEMMA EdgeNext ==
  ASSUME NEW x0 \in Int, NEW y0 \in Int, NEW x1 \in Int, NEW y1 \in Int, NEW E, HasEdge(E, x0, y0, x1, y1),
         NEW x \in Int, NEW y \in Int
  PROVE  /\ <<x, y>> \in F!LinePoints(x0, y0, x1, y1) => NextTo(x, y, E)
         /\ <<x, y>> \in F!LinePoints(x1, y1, x0, y0) => NextTo(x, y, E)
<1>1. x \in x - 1..x + 1
  OBVIOUS
<1>2. \A S : <<x, y>> \in S => NextTo(x, y, S)
  BY <1>1, NextToBy
<1>3. <<x, y>> \in F!LinePoints(x0, y0, x1, y1) =>
        NextTo(x, y, F!LinePoints(x0, y0, x1, y1)) /\ NextTo(x, y, F!LinePoints(x1, y1, x0, y0))
  BY <1>2, LineBack
<1>4. <<x, y>> \in F!LinePoints(x1, y1, x0, y0) =>
        NextTo(x, y, F!LinePoints(x0, y0, x1, y1)) /\ NextTo(x, y, F!LinePoints(x1, y1, x0, y0))
  BY <1>2, LineBack
<1>5. QED
  BY <1>3, <1>4, NextToMore DEF HasEdge

\* ... and so is what is close.
LEMMA CloseNext ==
  ASSUME NEW x0 \in Int, NEW y0 \in Int, NEW x1 \in Int, NEW y1 \in Int, NEW E,
         HasEdge(E, x0, y0, x1, y1) \/ HasEdge(E, x1, y1, x0, y0),
         NEW x \in Int, NEW y \in Int, IsClose(x0, y0, x1, y1, x, y)
  PROVE  NextTo(x, y, E)
<1>1. PICK t \in Int, u \in Int, d \in Int, e \in Int :
         /\ t = Turn(x0, y0, x1, y1, x, y) /\ u = Turn(x1, y1, x0, y0, x, y) /\ u + t = 0
         /\ d = y1 - y0 /\ e = y0 - y1
  <2>1. /\ Turn(x0, y0, x1, y1, x, y) \in Int /\ Turn(x1, y1, x0, y0, x, y) \in Int
        /\ Turn(x1, y1, x0, y0, x, y) + Turn(x0, y0, x1, y1, x, y) = 0
    BY BothTurns
  <2>2. QED
    BY <2>1
<1>2. y0 < y1 /\ y0 <= y /\ y <= y1 /\ t < d /\ -t < d
  BY <1>1 DEF IsClose
<1>3. F!Mag(d) = d /\ F!Mag(e) = d
  BY <1>1, <1>2 DEF F!Mag
<1>4. NextTo(x, y, F!LinePoints(x0, y0, x1, y1))
  BY <1>1, <1>2, <1>3, NearLine
<1>5. u < d /\ -u < d
  BY <1>1, <1>2
<1>6. NextTo(x, y, F!LinePoints(x1, y1, x0, y0))
  BY <1>1, <1>2, <1>3, <1>5, NearLine
<1>7. QED
  BY <1>4, <1>6, NextToMore DEF HasEdge

\* The corners by height, as a triple.
IsOrder(x0, y0, x1, y1, x2, y2, c) ==
  /\ c \in {<<<<x0, y0>>, <<x1, y1>>, <<x2, y2>>>>, <<<<x0, y0>>, <<x2, y2>>, <<x1, y1>>>>,
            <<<<x1, y1>>, <<x0, y0>>, <<x2, y2>>>>, <<<<x1, y1>>, <<x2, y2>>, <<x0, y0>>>>,
            <<<<x2, y2>>, <<x0, y0>>, <<x1, y1>>>>, <<<<x2, y2>>, <<x1, y1>>, <<x0, y0>>>>}
  /\ c[1][2] <= c[2][2] /\ c[2][2] <= c[3][2]

\* The three exchanges sort the corners.
LEMMA HeightOrder ==
  ASSUME NEW x0 \in Int, NEW y0 \in Int, NEW x1 \in Int, NEW y1 \in Int, NEW x2 \in Int, NEW y2 \in Int
  PROVE  IsOrder(x0, y0, x1, y1, x2, y2, F!ByHeight(<<x0, y0>>, <<x1, y1>>, <<x2, y2>>))
<1> DEFINE p == <<x0, y0>>
           q == <<x1, y1>>
           r == <<x2, y2>>
<1>1. PICK a : a = IF y0 > y1 THEN <<q, p, r>> ELSE <<p, q, r>>
  OBVIOUS
<1>2. PICK b : b = IF a[2][2] > a[3][2] THEN <<a[1], a[3], a[2]>> ELSE a
  OBVIOUS
<1>3. PICK c : c = IF b[1][2] > b[2][2] THEN <<b[2], b[1], b[3]>> ELSE b
  OBVIOUS
<1>4. F!ByHeight(p, q, r) = c
  <2>1. p[2] = y0 /\ q[2] = y1
    OBVIOUS
  <2>2. F!ByHeight(p, q, r) =
          LET d == IF p[2] > q[2] THEN <<q, p, r>> ELSE <<p, q, r>>
              e == IF d[2][2] > d[3][2] THEN <<d[1], d[3], d[2]>> ELSE d
          IN IF e[1][2] > e[2][2] THEN <<e[2], e[1], e[3]>> ELSE e
    BY DEF F!ByHeight
  <2> HIDE DEF p, q, r
  <2>3. QED
    BY <1>1, <1>2, <1>3, <2>1, <2>2
<1>5. p[2] = y0 /\ q[2] = y1 /\ r[2] = y2
  OBVIOUS
<1> HIDE DEF p, q, r
<1>6. CASE y0 > y1
  <2>1. a = <<q, p, r>> /\ a[1] = q /\ a[2] = p /\ a[3] = r
    BY <1>1, <1>6
  <2>2. CASE y0 > y2
    <3>1. b = <<q, r, p>> /\ b[1] = q /\ b[2] = r /\ b[3] = p
      BY <1>2, <1>5, <2>1, <2>2
    <3>2. (c = <<r, q, p>> /\ y2 <= y1) \/ (c = <<q, r, p>> /\ y1 <= y2)
      BY <1>3, <1>5, <3>1
    <3>3. QED
      BY <1>4, <1>5, <1>6, <2>2, <3>2 DEF IsOrder, p, q, r
  <2>3. CASE ~(y0 > y2)
    <3>1. b = <<q, p, r>> /\ b[1] = q /\ b[2] = p /\ b[3] = r
      BY <1>2, <1>5, <2>1, <2>3
    <3>2. c = <<q, p, r>>
      BY <1>3, <1>5, <1>6, <3>1
    <3>3. QED
      BY <1>4, <1>5, <1>6, <2>3, <3>2 DEF IsOrder, p, q, r
  <2>4. QED
    BY <2>2, <2>3
<1>7. CASE ~(y0 > y1)
  <2>1. a = <<p, q, r>> /\ a[1] = p /\ a[2] = q /\ a[3] = r
    BY <1>1, <1>7
  <2>2. CASE y1 > y2
    <3>1. b = <<p, r, q>> /\ b[1] = p /\ b[2] = r /\ b[3] = q
      BY <1>2, <1>5, <2>1, <2>2
    <3>2. (c = <<r, p, q>> /\ y2 <= y0) \/ (c = <<p, r, q>> /\ y0 <= y2)
      BY <1>3, <1>5, <3>1
    <3>3. QED
      BY <1>4, <1>5, <1>7, <2>2, <3>2 DEF IsOrder, p, q, r
  <2>3. CASE ~(y1 > y2)
    <3>1. b = <<p, q, r>> /\ b[1] = p /\ b[2] = q /\ b[3] = r
      BY <1>2, <1>5, <2>1, <2>3
    <3>2. c = <<p, q, r>>
      BY <1>3, <1>5, <1>7, <3>1
    <3>3. QED
      BY <1>4, <1>5, <1>7, <2>3, <3>2 DEF IsOrder, p, q, r
  <2>4. QED
    BY <2>2, <2>3
<1>8. QED
  BY <1>6, <1>7

\* Lines are points.
LEMMA LineInts ==
  ASSUME NEW x0 \in Int, NEW y0 \in Int, NEW x1 \in Int, NEW y1 \in Int
  PROVE  F!LinePoints(x0, y0, x1, y1) \subseteq Int \X Int
<1>1. CASE x0 = x1 /\ y0 = y1
  BY <1>1, LineOfPoint
<1>2. CASE x0 # x1 \/ y0 # y1
  <2>1. PICK s1, s2, swapped, dx, dy : IsLine(x0, y0, x1, y1, s1, s2, swapped, dx, dy)
    BY <1>2, LineIs
  <2>2. /\ s1 \in {-1, 0, 1} /\ s2 \in {-1, 0, 1} /\ dx \in Nat \ {0} /\ dy \in Nat
        /\ F!LinePoints(x0, y0, x1, y1) = {OnWay(x0, y0, s1, s2, swapped, dx, dy, j) : j \in 0..dx}
    BY <2>1 DEF IsLine, IsCourse
  <2>3. ASSUME NEW j \in 0..dx PROVE OnWay(x0, y0, s1, s2, swapped, dx, dy, j) \in Int \X Int
    <3>1. j \in Nat
      BY <2>2
    <3>2. PICK k \in Nat : k = Minor(dx, dy, j)
      BY <2>2, <3>1, MinorFacts
    <3>3. PICK m \in Nat, n \in Nat : m = (IF swapped THEN k ELSE j) /\ n = (IF swapped THEN j ELSE k)
      BY <3>1
    <3>4. s1 * m \in Int /\ s2 * n \in Int
      BY <2>2
    <3>5. OnWay(x0, y0, s1, s2, swapped, dx, dy, j) = <<x0 + s1 * m, y0 + s2 * n>>
      BY <3>2, <3>3 DEF OnWay
    <3>6. QED
      BY <3>4, <3>5
  <2>4. QED
    BY <2>2, <2>3
<1>3. QED
  BY <1>1, <1>2

\* What a triangle whose corners are sorted touches.
ScanPoints(x0, y0, x1, y1, x2, y2) ==
  UNION {(F!LesserOf(ShortEnd(x0, y0, x1, y1, x2, y2, y), EdgeAt(x0, y0, x2, y2, y))
            ..F!GreaterOf(ShortEnd(x0, y0, x1, y1, x2, y2, y), EdgeAt(x0, y0, x2, y2, y))) \X {y} : y \in y0..y2}

\* The scan lines, point by point.
LEMMA ScanPointsAre ==
  ASSUME NEW x0, NEW y0, NEW x1, NEW y1, NEW x2, NEW y2, IsSorted(x0, y0, x1, y1, x2, y2)
  PROVE  /\ ScanPoints(x0, y0, x1, y1, x2, y2) \subseteq Int \X Int
         /\ \A x, y \in Int : <<x, y>> \in ScanPoints(x0, y0, x1, y1, x2, y2) <=>
                                InScans(x0, y0, x1, y1, x2, y2, x, y)
<1>1. /\ x0 \in Int /\ y0 \in Int /\ x1 \in Int /\ y1 \in Int /\ x2 \in Int /\ y2 \in Int
      /\ y0 < y2 /\ y0 <= y1 /\ y1 <= y2
  BY DEF IsSorted
<1> DEFINE a(y) == ShortEnd(x0, y0, x1, y1, x2, y2, y)
           b(y) == EdgeAt(x0, y0, x2, y2, y)
           row(y) == (F!LesserOf(a(y), b(y))..F!GreaterOf(a(y), b(y))) \X {y}
<1>2. ScanPoints(x0, y0, x1, y1, x2, y2) = UNION {row(y) : y \in y0..y2}
  BY DEF ScanPoints
<1>3. \A x, y : InScans(x0, y0, x1, y1, x2, y2, x, y) <=> y \in y0..y2 /\ <<x, y>> \in row(y)
  BY DEF InScans
<1>4. ASSUME NEW y \in y0..y2
      PROVE  row(y) \subseteq Int \X {y}
  <2>1. y \in Int
    BY <1>1
  <2>2. b(y) \in Int
    BY <1>1, <2>1, EdgeFacts
  <2>3. a(y) \in Int
    <3>1. y0 < y1 => EdgeAt(x0, y0, x1, y1, y) \in Int
      BY <1>1, <2>1, EdgeFacts
    <3>2. y1 < y2 => EdgeAt(x1, y1, x2, y2, y) \in Int
      BY <1>1, <2>1, EdgeFacts
    <3>3. QED
      BY <3>1, <3>2, RowIs
  <2> HIDE DEF a, b
  <2>4. F!LesserOf(a(y), b(y)) \in Int /\ F!GreaterOf(a(y), b(y)) \in Int
    BY <2>2, <2>3 DEF F!LesserOf, F!GreaterOf
  <2>5. QED
    BY <2>4
<1> HIDE DEF row
<1>5. \A y \in y0..y2 : y \in Int
  BY <1>1
<1>6. UNION {row(y) : y \in y0..y2} \subseteq Int \X Int
  <2> SUFFICES ASSUME NEW y \in y0..y2, NEW pt \in row(y) PROVE pt \in Int \X Int
    OBVIOUS
  <2>1. QED
    BY <1>4, <1>5
<1>7. ASSUME NEW x, NEW y PROVE <<x, y>> \in UNION {row(k) : k \in y0..y2} <=> y \in y0..y2 /\ <<x, y>> \in row(y)
  <2>1. ASSUME NEW k \in y0..y2, <<x, y>> \in row(k) PROVE y = k
    BY <1>4, <2>1
  <2>2. QED
    BY <2>1
<1>8. QED
  BY <1>2, <1>3, <1>6, <1>7

\* What triangleFilled() draws of corners in different rows.
LEMMA TriangleDrawn ==
  ASSUME NEW p, NEW q, NEW r, NEW x0, NEW y0, NEW x1, NEW y1, NEW x2, NEW y2,
         F!ByHeight(p, q, r) = <<<<x0, y0>>, <<x1, y1>>, <<x2, y2>>>>,
         IsSorted(x0, y0, x1, y1, x2, y2)
  PROVE  F!Touched(F!triangleFilled(p, q, r, "white", "white")) =
           ScanPoints(x0, y0, x1, y1, x2, y2) \cup F!LinePoints(x0, y0, x1, y1)
           \cup F!LinePoints(x1, y1, x2, y2) \cup F!LinePoints(x2, y2, x0, y0)
<1>1. /\ x0 \in Int /\ y0 \in Int /\ x1 \in Int /\ y1 \in Int /\ x2 \in Int /\ y2 \in Int /\ y0 # y2
  BY DEF IsSorted
<1> DEFINE scans == ScanPoints(x0, y0, x1, y1, x2, y2)
           l1 == F!LinePoints(x0, y0, x1, y1)
           l2 == F!LinePoints(x1, y1, x2, y2)
           l3 == F!LinePoints(x2, y2, x0, y0)
           c == <<<<x0, y0>>, <<x1, y1>>, <<x2, y2>>>>
<1>2. /\ c[1] = <<x0, y0>> /\ c[2] = <<x1, y1>> /\ c[3] = <<x2, y2>>
      /\ c[1][1] = x0 /\ c[1][2] = y0 /\ c[2][1] = x1 /\ c[2][2] = y1 /\ c[3][1] = x2 /\ c[3][2] = y2
  OBVIOUS
<1> HIDE DEF c
<1>3. F!triangle(c[1], c[2], c[3], "white") =
        F!Stroke(l1, "white") \o F!Stroke(l2, "white") \o F!Stroke(l3, "white")
  BY <1>2 DEF F!triangle, F!line
<1>4. F!triangleFilled(p, q, r, "white", "white") =
        F!Stroke(scans, "white") \o (F!Stroke(l1, "white") \o F!Stroke(l2, "white") \o F!Stroke(l3, "white"))
  <2>1. F!ByHeight(p, q, r) = c
    BY DEF c
  <2> DEFINE d == F!ByHeight(p, q, r)
  <2>2. d[1][2] # d[3][2] =>
          F!triangleFilled(p, q, r, "white", "white") =
            F!Stroke(ScanPoints(d[1][1], d[1][2], d[2][1], d[2][2], d[3][1], d[3][2]), "white")
            \o F!triangle(d[1], d[2], d[3], "white")
    BY DEF F!triangleFilled, ScanPoints, ShortEnd, EdgeAt
  <2> HIDE DEF d
  <2>3. d = c
    BY <2>1 DEF d
  <2>4. QED
    BY <1>1, <1>2, <1>3, <2>2, <2>3
<1>5. scans \subseteq Int \X Int /\ l1 \subseteq Int \X Int /\ l2 \subseteq Int \X Int /\ l3 \subseteq Int \X Int
  BY <1>1, LineInts, ScanPointsAre
<1> HIDE DEF scans, l1, l2, l3
<1>6. ASSUME NEW P, P \subseteq Int \X Int
      PROVE  F!Stroke(P, "white") \in Sketches /\ F!Touched(F!Stroke(P, "white")) = P
  BY <1>6, SketchStroke DEF IsSketch, InkSet
<1>7. PICK s, t, u, v : /\ s = F!Stroke(scans, "white") /\ t = F!Stroke(l1, "white")
                        /\ u = F!Stroke(l2, "white") /\ v = F!Stroke(l3, "white")
  OBVIOUS
<1>8. /\ s \in Sketches /\ F!Touched(s) = scans /\ t \in Sketches /\ F!Touched(t) = l1
      /\ u \in Sketches /\ F!Touched(u) = l2 /\ v \in Sketches /\ F!Touched(v) = l3
  BY <1>5, <1>6, <1>7
<1>9. t \o u \in Sketches /\ F!Touched(t \o u) = l1 \cup l2
  BY <1>8, TouchedJoin
<1>10. t \o u \o v \in Sketches /\ F!Touched(t \o u \o v) = l1 \cup l2 \cup l3
  BY <1>8, <1>9, TouchedJoin
<1>11. F!Touched(s \o (t \o u \o v)) = scans \cup (l1 \cup l2 \cup l3)
  BY <1>8, <1>10, TouchedJoin
<1>12. QED
  BY <1>4, <1>7, <1>11 DEF scans, l1, l2, l3

\* Nothing is left out, and nothing is touched that is not next to it.
LEMMA SortedFilled ==
  ASSUME NEW x0, NEW y0, NEW x1, NEW y1, NEW x2, NEW y2, IsSorted(x0, y0, x1, y1, x2, y2), NEW E,
         HasEdge(E, x0, y0, x1, y1), HasEdge(E, x1, y1, x2, y2), HasEdge(E, x2, y2, x0, y0),
         NEW x \in Int, NEW y \in Int
  PROVE  LET touched == ScanPoints(x0, y0, x1, y1, x2, y2) \cup F!LinePoints(x0, y0, x1, y1)
                  \cup F!LinePoints(x1, y1, x2, y2) \cup F!LinePoints(x2, y2, x0, y0)
         IN /\ InTriangle(x0, y0, x1, y1, x2, y2, x, y) => <<x, y>> \in touched
            /\ <<x, y>> \in touched => InTriangle(x0, y0, x1, y1, x2, y2, x, y) \/ NextTo(x, y, E)
<1>1. x0 \in Int /\ y0 \in Int /\ x1 \in Int /\ y1 \in Int /\ x2 \in Int /\ y2 \in Int
  BY DEF IsSorted
<1>2. <<x, y>> \in ScanPoints(x0, y0, x1, y1, x2, y2) <=> InScans(x0, y0, x1, y1, x2, y2, x, y)
  BY ScanPointsAre
<1>3. /\ InTriangle(x0, y0, x1, y1, x2, y2, x, y) => InScans(x0, y0, x1, y1, x2, y2, x, y)
      /\ InScans(x0, y0, x1, y1, x2, y2, x, y) =>
           \/ InTriangle(x0, y0, x1, y1, x2, y2, x, y)
           \/ IsClose(x0, y0, x1, y1, x, y)
           \/ IsClose(x1, y1, x2, y2, x, y)
           \/ IsClose(x0, y0, x2, y2, x, y)
  BY ScansFill
<1>4. /\ IsClose(x0, y0, x1, y1, x, y) => NextTo(x, y, E)
      /\ IsClose(x1, y1, x2, y2, x, y) => NextTo(x, y, E)
      /\ IsClose(x0, y0, x2, y2, x, y) => NextTo(x, y, E)
  BY <1>1, CloseNext
<1>5. /\ <<x, y>> \in F!LinePoints(x0, y0, x1, y1) => NextTo(x, y, E)
      /\ <<x, y>> \in F!LinePoints(x1, y1, x2, y2) => NextTo(x, y, E)
      /\ <<x, y>> \in F!LinePoints(x2, y2, x0, y0) => NextTo(x, y, E)
  BY <1>1, EdgeNext
<1>6. QED
  BY <1>2, <1>3, <1>4, <1>5

\* Corners in one row.
LEMMA FlatFilled ==
  ASSUME NEW p, NEW q, NEW r, NEW x0 \in Int, NEW x1 \in Int, NEW x2 \in Int, NEW y0 \in Int,
         F!ByHeight(p, q, r) = <<<<x0, y0>>, <<x1, y0>>, <<x2, y0>>>>,
         NEW x \in Int, NEW y \in Int
  PROVE  /\ F!Touched(F!triangleFilled(p, q, r, "white", "white")) \subseteq Int \X Int
         /\ <<x, y>> \in F!Touched(F!triangleFilled(p, q, r, "white", "white")) <=>
              InTriangle(x0, y0, x1, y0, x2, y0, x, y)
<1> DEFINE c == <<<<x0, y0>>, <<x1, y0>>, <<x2, y0>>>>
           d == F!ByHeight(p, q, r)
<1>1. /\ c[1][1] = x0 /\ c[1][2] = y0 /\ c[2][1] = x1 /\ c[3][1] = x2 /\ c[3][2] = y0
  OBVIOUS
<1>2. PICK left \in Int, right \in Int :
        /\ left = F!LesserOf(x0, F!LesserOf(x1, x2)) /\ right = F!GreaterOf(x0, F!GreaterOf(x1, x2))
        /\ left <= x <=> x0 <= x \/ x1 <= x \/ x2 <= x
        /\ x <= right <=> x <= x0 \/ x <= x1 \/ x <= x2
  BY DEF F!LesserOf, F!GreaterOf
<1>3. d[1][2] = d[3][2] =>
        F!triangleFilled(p, q, r, "white", "white") =
          F!Stroke(F!Box(F!LesserOf(d[1][1], F!LesserOf(d[2][1], d[3][1])), d[1][2],
                         F!GreaterOf(d[1][1], F!GreaterOf(d[2][1], d[3][1]))
                           - F!LesserOf(d[1][1], F!LesserOf(d[2][1], d[3][1])) + 1, 1), "white")
  BY DEF F!triangleFilled, F!lineHorizontal
<1>4. d = c
  OBVIOUS
<1> HIDE DEF c, d
<1>5. F!triangleFilled(p, q, r, "white", "white") = F!Stroke(F!Box(left, y0, right - left + 1, 1), "white")
  BY <1>1, <1>2, <1>3, <1>4
<1>6. PICK w \in Int, l \in Int : w = right - left + 1 /\ l = 1
  BY <1>2
<1>7. F!Touched(F!triangleFilled(p, q, r, "white", "white")) = F!Box(left, y0, w, l)
  BY <1>2, <1>5, <1>6, TouchedBox
<1>7a. left \in Int /\ y0 \in Int /\ w \in Int /\ l \in Int
  BY <1>2, <1>6
<1>8. F!Box(left, y0, w, l) \subseteq Int \X Int
  BY <1>7a, BoxIs
<1>9. <<x, y>> \in F!Box(left, y0, w, l) <=> left <= x /\ x <= right /\ y = y0
  <2>1. <<x, y>> \in F!Box(left, y0, w, l) <=> left <= x /\ x < left + w /\ y0 <= y /\ y < y0 + l
    BY <1>7a, BoxIs
  <2>2. QED
    BY <1>2, <1>6, <2>1
<1>10. InTriangle(x0, y0, x1, y0, x2, y0, x, y) <=> left <= x /\ x <= right /\ y = y0
  <2>1. Within(y0, y0, y0, y) <=> y = y0
    BY DEF Within
  <2>2. Within(x0, x1, x2, x) <=> left <= x /\ x <= right
    BY <1>2 DEF Within
  <2>3. ASSUME NEW a \in Int, NEW b \in Int, y = y0 PROVE Turn(a, y0, b, y0, x, y) = 0
    <3>1. PICK i \in Int, j \in Int : i = b - a /\ j = x - a
      OBVIOUS
    <3>2. y - y0 = 0 /\ y0 - y0 = 0 /\ i * 0 = 0 /\ 0 * j = 0
      BY <2>3
    <3>3. QED
      BY <3>1, <3>2 DEF Turn
  <2>4. y = y0 => /\ Turn(x0, y0, x1, y0, x, y) = 0 /\ Turn(x1, y0, x2, y0, x, y) = 0
                  /\ Turn(x2, y0, x0, y0, x, y) = 0
    BY <2>3
  <2>5. QED
    BY <2>1, <2>2, <2>4 DEF InTriangle
<1>11. QED
  BY <1>7, <1>8, <1>9, <1>10

\* Triangles with corners in any order.
LEMMA NearIs ==
  ASSUME NEW E, E \subseteq Int \X Int, NEW x \in Int, NEW y
  PROVE  <<x, y>> \in UNION {(pt[1] - 1..pt[1] + 1) \X {pt[2]} : pt \in E} <=> NextTo(x, y, E)
<1>1. \A pt \in E : pt[1] \in Int /\ (x \in pt[1] - 1..pt[1] + 1 <=> pt[1] \in x - 1..x + 1)
  <2> SUFFICES ASSUME NEW pt \in E
               PROVE  pt[1] \in Int /\ (x \in pt[1] - 1..pt[1] + 1 <=> pt[1] \in x - 1..x + 1)
    OBVIOUS
  <2>1. PICK a \in Int : a = pt[1]
    OBVIOUS
  <2>2. QED
    BY <2>1
<1>2. <<x, y>> \in UNION {(pt[1] - 1..pt[1] + 1) \X {pt[2]} : pt \in E} <=>
        \E pt \in E : x \in pt[1] - 1..pt[1] + 1 /\ y = pt[2]
  OBVIOUS
<1>3. QED
  BY <1>1, <1>2 DEF NextTo

\* All orders of the corners.
LEMMA AllOrders ==
  ASSUME NEW x0 \in Int, NEW y0 \in Int, NEW x1 \in Int, NEW y1 \in Int, NEW x2 \in Int, NEW y2 \in Int,
         NEW x \in Int, NEW y \in Int
  PROVE  /\ InTriangle(x0, y0, x1, y1, x2, y2, x, y) <=> InTriangle(x1, y1, x0, y0, x2, y2, x, y)
         /\ InTriangle(x0, y0, x1, y1, x2, y2, x, y) <=> InTriangle(x0, y0, x2, y2, x1, y1, x, y)
         /\ InTriangle(x0, y0, x1, y1, x2, y2, x, y) <=> InTriangle(x1, y1, x2, y2, x0, y0, x, y)
         /\ InTriangle(x0, y0, x1, y1, x2, y2, x, y) <=> InTriangle(x2, y2, x0, y0, x1, y1, x, y)
         /\ InTriangle(x0, y0, x1, y1, x2, y2, x, y) <=> InTriangle(x2, y2, x1, y1, x0, y0, x, y)
<1>1. InTriangle(x0, y0, x1, y1, x2, y2, x, y) <=> InTriangle(x1, y1, x0, y0, x2, y2, x, y)
  BY InTriangleTurned
<1>2. InTriangle(x0, y0, x1, y1, x2, y2, x, y) <=> InTriangle(x0, y0, x2, y2, x1, y1, x, y)
  BY InTriangleTurned
<1>3. InTriangle(x1, y1, x0, y0, x2, y2, x, y) <=> InTriangle(x1, y1, x2, y2, x0, y0, x, y)
  BY InTriangleTurned
<1>4. InTriangle(x0, y0, x2, y2, x1, y1, x, y) <=> InTriangle(x2, y2, x0, y0, x1, y1, x, y)
  BY InTriangleTurned
<1>5. InTriangle(x1, y1, x2, y2, x0, y0, x, y) <=> InTriangle(x2, y2, x1, y1, x0, y0, x, y)
  BY InTriangleTurned
<1>6. QED
  BY <1>1, <1>2, <1>3, <1>4, <1>5

\* triangleFilled() of any three corners, in any order: no hole, and nothing touched that is
\* neither covered nor beside a point of an edge, unless the first loop has no end.
THEOREM TriangleFilled ==
  ASSUME NEW p \in Int \X Int, NEW q \in Int \X Int, NEW r \in Int \X Int
  PROVE  F!TriangleIsFilled(p, q, r)
<1>1. PICK x0 \in Int, y0 \in Int, x1 \in Int, y1 \in Int, x2 \in Int, y2 \in Int :
         p = <<x0, y0>> /\ q = <<x1, y1>> /\ r = <<x2, y2>>
  OBVIOUS
<1>2. /\ p[1] = x0 /\ p[2] = y0 /\ q[1] = x1 /\ q[2] = y1 /\ r[1] = x2 /\ r[2] = y2
  BY <1>1
<1> DEFINE touched == F!Touched(F!triangleFilled(p, q, r, "white", "white"))
           E == F!LinePoints(x0, y0, x1, y1) \cup F!LinePoints(x1, y1, x2, y2)
                  \cup F!LinePoints(x2, y2, x0, y0)
           near == UNION {(pt[1] - 1..pt[1] + 1) \X {pt[2]} : pt \in E}
<1>3. SUFFICES F!Covered(p, q, r) \subseteq touched /\ touched \subseteq F!Covered(p, q, r) \cup near
  BY <1>2 DEF F!TriangleIsFilled
<1>4. /\ HasEdge(E, x0, y0, x1, y1) /\ HasEdge(E, x1, y1, x0, y0)
      /\ HasEdge(E, x1, y1, x2, y2) /\ HasEdge(E, x2, y2, x1, y1)
      /\ HasEdge(E, x2, y2, x0, y0) /\ HasEdge(E, x0, y0, x2, y2)
  BY DEF HasEdge
<1>5. E \subseteq Int \X Int
  BY LineInts
<1>6. \A x, y \in Int : <<x, y>> \in near <=> NextTo(x, y, E)
  BY <1>5, NearIs
<1>7. /\ F!Covered(p, q, r) \subseteq Int \X Int
      /\ \A x, y \in Int : <<x, y>> \in F!Covered(p, q, r) <=> InTriangle(x0, y0, x1, y1, x2, y2, x, y)
  BY <1>1, CoveredIs
<1>8. PICK c : c = F!ByHeight(p, q, r) /\ IsOrder(x0, y0, x1, y1, x2, y2, c)
  BY <1>1, HeightOrder
<1>9. PICK a0 \in Int, b0 \in Int, a1 \in Int, b1 \in Int, a2 \in Int, b2 \in Int :
         /\ c = <<<<a0, b0>>, <<a1, b1>>, <<a2, b2>>>> /\ b0 <= b1 /\ b1 <= b2
         /\ \/ a0 = x0 /\ b0 = y0 /\ a1 = x1 /\ b1 = y1 /\ a2 = x2 /\ b2 = y2
            \/ a0 = x0 /\ b0 = y0 /\ a1 = x2 /\ b1 = y2 /\ a2 = x1 /\ b2 = y1
            \/ a0 = x1 /\ b0 = y1 /\ a1 = x0 /\ b1 = y0 /\ a2 = x2 /\ b2 = y2
            \/ a0 = x1 /\ b0 = y1 /\ a1 = x2 /\ b1 = y2 /\ a2 = x0 /\ b2 = y0
            \/ a0 = x2 /\ b0 = y2 /\ a1 = x0 /\ b1 = y0 /\ a2 = x1 /\ b2 = y1
            \/ a0 = x2 /\ b0 = y2 /\ a1 = x1 /\ b1 = y1 /\ a2 = x0 /\ b2 = y0
  <2>1. \/ c = <<<<x0, y0>>, <<x1, y1>>, <<x2, y2>>>>
        \/ c = <<<<x0, y0>>, <<x2, y2>>, <<x1, y1>>>>
        \/ c = <<<<x1, y1>>, <<x0, y0>>, <<x2, y2>>>>
        \/ c = <<<<x1, y1>>, <<x2, y2>>, <<x0, y0>>>>
        \/ c = <<<<x2, y2>>, <<x0, y0>>, <<x1, y1>>>>
        \/ c = <<<<x2, y2>>, <<x1, y1>>, <<x0, y0>>>>
    BY <1>8 DEF IsOrder
  <2>2. c[1][2] <= c[2][2] /\ c[2][2] <= c[3][2]
    BY <1>8 DEF IsOrder
  <2>3. CASE c = <<<<x0, y0>>, <<x1, y1>>, <<x2, y2>>>>
    <3>1. c[1][2] = y0 /\ c[2][2] = y1 /\ c[3][2] = y2
      BY <2>3
    <3>2. y0 <= y1 /\ y1 <= y2
      BY <2>2, <3>1
    <3>3. QED
      BY <2>3, <3>2
  <2>4. CASE c = <<<<x0, y0>>, <<x2, y2>>, <<x1, y1>>>>
    <3>1. c[1][2] = y0 /\ c[2][2] = y2 /\ c[3][2] = y1
      BY <2>4
    <3>2. y0 <= y2 /\ y2 <= y1
      BY <2>2, <3>1
    <3>3. QED
      BY <2>4, <3>2
  <2>5. CASE c = <<<<x1, y1>>, <<x0, y0>>, <<x2, y2>>>>
    <3>1. c[1][2] = y1 /\ c[2][2] = y0 /\ c[3][2] = y2
      BY <2>5
    <3>2. y1 <= y0 /\ y0 <= y2
      BY <2>2, <3>1
    <3>3. QED
      BY <2>5, <3>2
  <2>6. CASE c = <<<<x1, y1>>, <<x2, y2>>, <<x0, y0>>>>
    <3>1. c[1][2] = y1 /\ c[2][2] = y2 /\ c[3][2] = y0
      BY <2>6
    <3>2. y1 <= y2 /\ y2 <= y0
      BY <2>2, <3>1
    <3>3. QED
      BY <2>6, <3>2
  <2>7. CASE c = <<<<x2, y2>>, <<x0, y0>>, <<x1, y1>>>>
    <3>1. c[1][2] = y2 /\ c[2][2] = y0 /\ c[3][2] = y1
      BY <2>7
    <3>2. y2 <= y0 /\ y0 <= y1
      BY <2>2, <3>1
    <3>3. QED
      BY <2>7, <3>2
  <2>8. CASE c = <<<<x2, y2>>, <<x1, y1>>, <<x0, y0>>>>
    <3>1. c[1][2] = y2 /\ c[2][2] = y1 /\ c[3][2] = y0
      BY <2>8
    <3>2. y2 <= y1 /\ y1 <= y0
      BY <2>2, <3>1
    <3>3. QED
      BY <2>8, <3>2
  <2>9. QED
    BY <2>1, <2>3, <2>4, <2>5, <2>6, <2>7, <2>8
<1> HIDE DEF touched, E, near
<1>10. HasEdge(E, a0, b0, a1, b1) /\ HasEdge(E, a1, b1, a2, b2) /\ HasEdge(E, a2, b2, a0, b0)
  BY <1>4, <1>9
<1>11. ASSUME NEW x \in Int, NEW y \in Int
       PROVE  InTriangle(x0, y0, x1, y1, x2, y2, x, y) <=> InTriangle(a0, b0, a1, b1, a2, b2, x, y)
  <2>1. /\ InTriangle(x0, y0, x1, y1, x2, y2, x, y) <=> InTriangle(x1, y1, x0, y0, x2, y2, x, y)
        /\ InTriangle(x0, y0, x1, y1, x2, y2, x, y) <=> InTriangle(x0, y0, x2, y2, x1, y1, x, y)
        /\ InTriangle(x0, y0, x1, y1, x2, y2, x, y) <=> InTriangle(x1, y1, x2, y2, x0, y0, x, y)
        /\ InTriangle(x0, y0, x1, y1, x2, y2, x, y) <=> InTriangle(x2, y2, x0, y0, x1, y1, x, y)
        /\ InTriangle(x0, y0, x1, y1, x2, y2, x, y) <=> InTriangle(x2, y2, x1, y1, x0, y0, x, y)
    BY AllOrders
  <2>2. QED
    BY <1>9, <2>1
<1>12. touched \subseteq Int \X Int /\ \A x, y \in Int :
         /\ InTriangle(a0, b0, a1, b1, a2, b2, x, y) => <<x, y>> \in touched
         /\ <<x, y>> \in touched => InTriangle(a0, b0, a1, b1, a2, b2, x, y) \/ NextTo(x, y, E)
  <2>1. CASE b0 = b2
    <3>1. b1 = b0 /\ F!ByHeight(p, q, r) = <<<<a0, b0>>, <<a1, b0>>, <<a2, b0>>>>
      BY <1>8, <1>9, <2>1
    <3>2. \A x, y \in Int : /\ touched \subseteq Int \X Int
                            /\ <<x, y>> \in touched <=> InTriangle(a0, b0, a1, b0, a2, b0, x, y)
      BY <3>1, FlatFilled DEF touched
    <3>3. QED
      BY <2>1, <3>1, <3>2
  <2>2. CASE b0 # b2
    <3>1. IsSorted(a0, b0, a1, b1, a2, b2)
      BY <1>9, <2>2 DEF IsSorted
    <3>2. F!ByHeight(p, q, r) = <<<<a0, b0>>, <<a1, b1>>, <<a2, b2>>>>
      BY <1>8, <1>9
    <3>3. touched = ScanPoints(a0, b0, a1, b1, a2, b2) \cup F!LinePoints(a0, b0, a1, b1)
              \cup F!LinePoints(a1, b1, a2, b2) \cup F!LinePoints(a2, b2, a0, b0)
      BY <3>1, <3>2, TriangleDrawn DEF touched
    <3>4. touched \subseteq Int \X Int
      BY <3>1, <3>3, ScanPointsAre, LineInts
    <3>5. QED
      BY <1>10, <3>1, <3>3, <3>4, SortedFilled
  <2>3. QED
    BY <2>1, <2>2
<1>13. ASSUME NEW pt \in F!Covered(p, q, r) PROVE pt \in touched
  <2>1. PICK x \in Int, y \in Int : pt = <<x, y>>
    BY <1>7
  <2>2. QED
    BY <1>7, <1>11, <1>12, <2>1
<1>14. ASSUME NEW pt \in touched PROVE pt \in F!Covered(p, q, r) \cup near
  <2>1. PICK x \in Int, y \in Int : pt = <<x, y>>
    BY <1>12
  <2>2. QED
    BY <1>6, <1>7, <1>11, <1>12, <2>1
<1>15. QED
  BY <1>13, <1>14

\* A sample of a figure or of a surface has what its algorithm takes.
LEMMA DrawingTypes ==
  ASSUME NEW s \in SampleSet
  PROVE  /\ s.algorithm \in {"line", "triangle", "circle", "rectangle", "rounded", "bitmap"} =>
              s \in FigureSamples
         /\ s.algorithm = "points" => s \in PointSamples
         /\ s.algorithm = "marks" => s \in MarkSamples
         /\ s.algorithm = "leds" => s \in [algorithm : {"leds"}, length : {8, 11}, e : -2..9]
<1>1. CASE s \in FigureSamples
  <2>1. s.algorithm \in {"line", "triangle", "circle", "rectangle", "rounded", "bitmap"}
    BY <1>1 DEF FigureSamples
  <2>2. QED
    BY <1>1, <2>1
<1>2. CASE s \in SurfaceSamples
  <2>1. CASE s \in PointSamples
    <3>1. s.algorithm = "points"
      BY <2>1 DEF PointSamples
    <3>2. QED
      BY <2>1, <3>1
  <2>2. CASE s \in MarkSamples
    <3>1. s.algorithm = "marks"
      BY <2>2 DEF MarkSamples
    <3>2. QED
      BY <2>2, <3>1
  <2>3. CASE s \in [algorithm : {"leds"}, length : {8, 11}, e : -2..9]
    <3>1. s.algorithm = "leds"
      BY <2>3
    <3>2. QED
      BY <2>3, <3>1
  <2>4. QED
    BY <1>2, <2>1, <2>2, <2>3 DEF SurfaceSamples
<1>3. CASE s \in LookupSamples
  <2>1. s.algorithm \in {"versions", "descriptors", "colors", "greys", "bus"}
    BY <1>3 DEF LookupSamples
  <2>2. QED
    BY <2>1
<1>4. CASE s \in SysexSamples
  <2>1. s.algorithm = "sysex"
    BY <1>4 DEF SysexSamples
  <2>2. QED
    BY <2>1
<1>5. CASE s = NoSample
  <2>1. s.algorithm = "none"
    BY <1>5 DEF NoSample
  <2>2. QED
    BY <2>1
<1>6. QED
  BY <1>1, <1>2, <1>3, <1>4, <1>5 DEF SampleSet

\* The figures are of a size that is drawn.
LEMMA FiguresAreTyped ==
  ASSUME NEW s \in FigureSamples
  PROVE  /\ s.algorithm = "line" => s.p \in Int \X Int /\ s.q \in Int \X Int
         /\ s.algorithm = "triangle" => s.p \in Int \X Int /\ s.q \in Int \X Int /\ s.r \in Int \X Int
         /\ s.algorithm = "circle" => s.radius \in Nat
         /\ s.algorithm = "rectangle" => s.w \in Nat /\ s.h \in Nat
         /\ s.algorithm = "rounded" => s.w \in Nat /\ s.h \in Nat /\ s.radius \in Nat
         /\ s.algorithm = "bitmap" => s.w \in {8, 16} /\ s.h \in 1..3 /\ s.bits \subseteq Nat \X (0..7)
<1>1. Grid(4) \subseteq Int \X Int /\ Grid(3) \subseteq Int \X Int
  BY DEF Grid
<1>2. \A bits \in {{<<0, 0>>}, {<<0, 7>>, <<1, 3>>}, {<<2, 2>>, <<3, 1>>, <<5, 5>>}} : bits \subseteq Nat \X (0..7)
  OBVIOUS
<1>3. CASE s \in [algorithm : {"line"}, p : Grid(4), q : Grid(4)]
  BY <1>1, <1>3
<1>4. CASE s \in [algorithm : {"triangle"}, p : Grid(3), q : Grid(3), r : Grid(3)]
  BY <1>1, <1>4
<1>5. CASE s \in [algorithm : {"circle"}, radius : 0..6, type : F!CircleTypes]
  BY <1>5
<1>6. CASE s \in [algorithm : {"rectangle"}, w : 0..5, h : 0..5]
  BY <1>6
<1>7. CASE s \in [algorithm : {"rounded"}, w : 1..8, h : 1..8, radius : 0..3]
  BY <1>7
<1>8. CASE s \in [algorithm : {"bitmap"}, w : {8, 16}, h : 1..3,
                  bits : {{<<0, 0>>}, {<<0, 7>>, <<1, 3>>}, {<<2, 2>>, <<3, 1>>, <<5, 5>>}}]
  BY <1>2, <1>8
<1>9. QED
  BY <1>3, <1>4, <1>5, <1>6, <1>7, <1>8 DEF FigureSamples

\* The windows lie on the displays.
LEMMA WindowsAreShown ==
  ASSUME NEW kind \in D!DisplayKinds
  PROVE  Windows(kind) \subseteq PointsOf(kind)
  BY DEF Windows, PointsOf, D!DisplayKinds, D!Geometry

\* Whatever is drawn, in any sample, is right.
LEMMA SamplesDrawRight == ASSUME SampleInv PROVE DrawingsAreRight
<1> DEFINE s == sample
<1>1. s \in SampleSet
  BY DEF SampleInv
<1> HIDE DEF s
<1>2. s.algorithm = "line" => F!LineIsStraight(s.p, s.q)
  BY <1>1, DrawingTypes, FiguresAreTyped, LineStraight
<1>3. s.algorithm = "triangle" => F!TriangleIsFilled(s.p, s.q, s.r)
  BY <1>1, DrawingTypes, FiguresAreTyped, TriangleFilled
<1>4. s.algorithm = "circle" => F!CircleIsRound(s.radius, s.type)
  BY <1>1, DrawingTypes, FiguresAreTyped, CircleRound
<1>5. s.algorithm = "rectangle" => F!RectangleIsFramed(3, 2, s.w, s.h)
  BY <1>1, DrawingTypes, FiguresAreTyped, RectangleFramed
<1>6. s.algorithm = "rounded" => F!RoundedIsFramed(3, 2, s.w, s.h, s.radius)
  BY <1>1, DrawingTypes, FiguresAreTyped, RoundedFramed
<1>7. s.algorithm = "bitmap" => F!BitmapIsCopied(3, 2, s.w, s.h, s.bits)
  <2>1. SUFFICES ASSUME s.algorithm = "bitmap" PROVE F!BitmapIsCopied(3, 2, s.w, s.h, s.bits)
    OBVIOUS
  <2>2. s.w \in {8, 16} /\ s.h \in 1..3 /\ s.bits \subseteq Nat \X (0..7)
    BY <1>1, <2>1, DrawingTypes, FiguresAreTyped
  <2>3. PICK n \in Nat \ {0} : s.w = 8 * n
    <3>1. 8 = 8 * 1 /\ 16 = 8 * 2
      OBVIOUS
    <3>2. QED
      BY <2>2, <3>1
  <2>4. PICK x \in Nat, y \in Nat, h \in Nat \ {0}, bits \in SUBSET (Nat \X (0..7)) :
          x = 3 /\ y = 2 /\ h = s.h /\ bits = s.bits
    BY <2>2
  <2>5. x + 8 * n <= 100 /\ y + h <= 100 /\ bits \subseteq Nat \X (0..7)
    BY <2>2, <2>3, <2>4
  <2>6. F!BitmapIsCopied(x, y, 8 * n, h, bits)
    BY <2>5, BitmapCopied
  <2>7. QED
    BY <2>3, <2>4, <2>6
<1>8. s.algorithm = "points" => D!PointsAreApart(s.kind, s.p, s.q)
  BY <1>1, DrawingTypes, WindowsAreShown, PointsApart DEF PointSamples
<1>9. s.algorithm = "marks" => D!ChangesAreMarked(s.kind, s.old, s.v)
  BY <1>1, DrawingTypes, ChangesMarked DEF MarkSamples, Greys
<1>10. s.algorithm = "leds" => D!LedsShowValue(s.length, s.e)
  BY <1>1, DrawingTypes, LedsShow
<1>11. QED
  BY <1>2, <1>3, <1>4, <1>5, <1>6, <1>7, <1>8, <1>9, <1>10 DEF DrawingsAreRight, s

\* Every primitive of every behaviour draws the shape it is named for, every point of a
\* display has bits of its own, changes are marked and LEDs show their values.
THEOREM DrawingsRight == Spec => []DrawingsAreRight
<1>1. Spec => Init /\ [][Next]_allVars
  BY DEF Spec, allVars
<1>2. SampleInv => DrawingsAreRight
  BY SamplesDrawRight
<1>3. QED
  BY <1>1, <1>2, SampleInit, SampleStays, PTL

-----------------------------------------------------------------------------
(* The library: one part moves at a time.                                  *)

\* A step of the library is one of each part, or leaves the part alone.
LEMMA OneMoves ==
  ASSUME [Next]_allVars
  PROVE  /\ [C!Next]_canvasVars /\ [T!Next]_textVars /\ [R!Next]_traceVars
         /\ [M!Next]_midiVars /\ [U!Next]_usbVars /\ [B!Next]_handleVars
<1> USE DEF canvasVars, textVars, traceVars, midiVars, usbVars, handleVars
<1>1. CASE UNCHANGED allVars
  BY <1>1 DEF allVars
<1>2. CASE Next
  BY <1>2 DEF Next
<1>3. QED
  BY <1>1, <1>2

\* DriverMIDI: for any number of ports, whatever their names and whichever of them answer,
\* the tasks of enumerate() list what answered, all of it and each once.
THEOREM DevicesListed == Spec => []DevicesAreListed
<1>1. Spec => Init /\ [][Next]_allVars
  BY DEF Spec, allVars
<1>2. Init => MidiInv
  BY MidiInit DEF Init
<1>3. MidiInv /\ [Next]_allVars => MidiInv'
  BY OneMoves, MidiStep
<1>4. MidiInv => DevicesAreListed
  BY MidiListed DEF DevicesAreListed
<1>5. QED
  BY <1>1, <1>2, <1>3, <1>4, PTL

\* DeviceHandleLibUSB, DeviceHandleHIDAPI, DeviceHandleMIDI: for any number of reports, tries
\* and places for pads, reports are given in order and once, of USB all but those that were
\* overwritten in the shared buffer or came with a failed transfer; and a message is in the
\* packets it is cut into.
THEOREM ReportsWhole == Spec => []ReportsAreWhole
<1> DEFINE Inv == UsbInv /\ HandleInv /\ SampleInv
<1>1. Spec => Init /\ [][Next]_allVars
  BY DEF Spec, allVars
<1>2. Init => Inv
  BY UsbInit, HandleInit, SampleInit DEF Init
<1>3. Inv /\ [Next]_allVars => Inv'
  BY OneMoves, UsbStep, HandleStep, SampleStays
<1>4. Inv => ReportsAreWhole
  <2> SUFFICES ASSUME Inv PROVE ReportsAreWhole
    OBVIOUS
  <2>1. U!ReportsAreWhole /\ B!ReportsAreTaken
    BY UsbGiven, HandleTaken
  <2>2. sample.algorithm = "sysex" => B!SysexIsWhole(sample.message)
    BY SampleTypes, SamplesAreTyped, SysexWhole DEF SampleInv
  <2>3. QED
    BY <2>1, <2>2 DEF ReportsAreWhole
<1>5. QED
  BY <1>1, <1>2, <1>3, <1>4, PTL

\* Canvas: on a canvas of any size and any number of chunks, whatever is drawn, a display
\* with no mark shows the picture.
THEOREM PictureShown == Spec => []PictureIsShown
<1>1. Spec => Init /\ [][Next]_allVars
  BY DEF Spec, allVars
<1>2. Init => CanvasInv
  BY CanvasInit DEF Init
<1>3. CanvasInv /\ [Next]_allVars => CanvasInv'
  BY OneMoves, CanvasStep
<1>4. CanvasInv => PictureIsShown
  BY CanvasShown DEF PictureIsShown
<1>5. QED
  BY <1>1, <1>2, <1>3, <1>4, PTL

\* TraceRecorder: for any number of threads and rings of any size, whatever the other threads
\* record meanwhile, a dump has of each thread that rests its latest events, each of them once,
\* with its time and in the order of time.
THEOREM RestingWhole == Spec => []RestingThreadsAreWhole
<1>1. Spec => Init /\ [][Next]_allVars
  BY DEF Spec, allVars
<1>2. Init => TraceInv
  BY TraceInit DEF Init
<1>3. TraceInv /\ [Next]_allVars => TraceInv'
  BY OneMoves, TraceStep
<1>4. TraceInv => RestingThreadsAreWhole
  BY TraceIsWhole DEF RestingThreadsAreWhole
<1>5. QED
  BY <1>1, <1>2, <1>3, <1>4, PTL

\* Text displays: for any texts of ASCII and numbers of less than ten digits, what is put in a
\* row stands there as it is aligned and nowhere else, a point is behind the integral part, and
\* no byte is out of range.
THEOREM TextsShown == Spec => []TextsAreShown
<1>1. Spec => Init /\ [][Next]_allVars
  BY DEF Spec, allVars
<1>2. Init => TextInv
  BY TextInit DEF Init
<1>3. TextInv /\ [Next]_allVars => TextInv'
  BY OneMoves, TextStep
<1>4. TextInv => TextsAreShown
  BY TextIsShown DEF TextsAreShown
<1>5. QED
  BY <1>1, <1>2, <1>3, <1>4, PTL

=============================================================================
