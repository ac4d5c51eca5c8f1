----------------------------- MODULE InputProofs ------------------------------
(***************************************************************************)
(* Proofs about the input side of the controllers: for any number of turns *)
(* of the encoders, of transfers that a read() looks at, and of messages,  *)
(* stray bytes and cuts at the MIDI IN socket.                             *)
(***************************************************************************)
EXTENDS MCInput, WellFoundedInduction, TLAPS

-----------------------------------------------------------------------------
(* Encoders.                                                               *)

Encoders == {"wheel", "knob", "dial"}

\* How many positions there are.
LEMMA ModulusFacts ==
  /\ part = "wheel" => Modulus = IF kind = "F1" THEN 256 ELSE 16
  /\ part = "knob" \/ part = "dial" => Modulus = 16
  /\ Modulus \in {3, 16, 256}
<1>1. 1024 \div KnobUnit = 16
  BY DEF KnobUnit
<1>2. QED
  BY <1>1 DEF Modulus, Top

\* The byte of a wheel: a click is told, past the wrap too.
LEMMA WheelDirection ==
  ASSUME NEW top \in Nat, top = 15 \/ top = 255, NEW v \in 0..top, NEW t \in Int, t = 1 \/ t = -1
  PROVE  Increased(v, (v + t) % (top + 1), top) <=> t > 0
<1>1. CASE top = 15
  <2>1. (v + t) % 16 = IF v + t = 16 THEN 0 ELSE IF v + t = -1 THEN 15 ELSE v + t
    BY <1>1
  <2>2. QED
    BY <2>1, <1>1 DEF Increased
<1>2. CASE top = 255
  <2>1. (v + t) % 256 = IF v + t = 256 THEN 0 ELSE IF v + t = -1 THEN 255 ELSE v + t
    BY <1>2
  <2>2. QED
    BY <2>1, <1>2 DEF Increased
<1>3. QED
  BY <1>1, <1>2

\* The 10 bits of a knob: up to a quarter of a turn is.
LEMMA KnobDirection ==
  ASSUME NEW v \in 0..15, NEW t \in -4..4, t # 0
  PROVE  KnobIncreased(64 * v, 64 * ((v + t) % 16)) <=> t > 0
<1> DEFINE p == (v + t) % 16
<1>1. p = IF v + t > 15 THEN v + t - 16 ELSE IF v + t < 0 THEN v + t + 16 ELSE v + t
  OBVIOUS
<1> HIDE DEF p
<1>2. p \in 0..15
  BY <1>1
<1>3. ((64 * v) \div 256) % 16 = v \div 4 /\ (64 * p) \div 256 = p \div 4
  BY <1>2
<1>4. /\ v \div 4 = 3 <=> v >= 12
      /\ v \div 4 = 0 <=> v < 4
      /\ p \div 4 = 3 <=> p >= 12
      /\ p \div 4 = 0 <=> p < 4
  BY <1>2
<1>5. KnobIncreased(64 * v, 64 * p) <=>
        (v < p \/ (v >= 12 /\ p < 4)) /\ ~(v < 4 /\ p >= 12)
  BY <1>2, <1>3, <1>4 DEF KnobIncreased
<1>6. QED
  BY <1>1, <1>5 DEF p

\* The waves of MK1's dials: up to two of the sixteen positions, upwards between two peaks.
LEMMA DialDirection ==
  ASSUME NEW v \in 0..15, NEW t \in -2..2, t # 0,
         t < 0 \/ v \div 4 = ((v + t) % 16) \div 4
  PROVE  DialIncreased(Dial(v), Dial((v + t) % 16)) <=> t > 0
<1> DEFINE p == (v + t) % 16
<1>1. p = IF v + t > 15 THEN v + t - 16 ELSE IF v + t < 0 THEN v + t + 16 ELSE v + t
  OBVIOUS
<1>2. \A i \in 0..15 : /\ i % 16 = i
                       /\ (i + 12) % 16 = IF i < 4 THEN i + 12 ELSE i - 4
  OBVIOUS
<1> DEFINE W(i) == IF i < 4 THEN 128 + 30 * i
                   ELSE IF i < 12 THEN 128 + 30 * (8 - i) ELSE 128 + 30 * (i - 16)
           Q(i) == IF i < 4 THEN i + 12 ELSE i - 4
<1>3. \A i \in 0..15 : Wave(i) = W(i) /\ Wave(i + 12) = W(Q(i))
  BY <1>2 DEF Wave
<1>4. p \in 0..15
  BY <1>1
<1>5. t < 0 \/ v \div 4 = p \div 4
  OBVIOUS
<1> HIDE DEF p
<1>6. DialIncreased(Dial(v), Dial(p)) <=>
        \/ W(p) > 127 /\ W(Q(p)) > 127 /\ W(p) < W(v) /\ W(Q(p)) >= W(Q(v))
        \/ W(p) > 127 /\ W(Q(p)) <= 127 /\ W(p) >= W(v) /\ W(Q(p)) >= W(Q(v))
        \/ W(p) <= 127 /\ W(Q(p)) > 127 /\ W(p) < W(v) /\ W(Q(p)) < W(Q(v))
        \/ W(p) <= 127 /\ W(Q(p)) <= 127 /\ W(p) >= W(v) /\ W(Q(p)) < W(Q(v))
  <2> HIDE DEF W, Q
  <2>1. Dial(v) = <<W(v), W(Q(v))>> /\ Dial(p) = <<W(p), W(Q(p))>>
    BY <1>3, <1>4 DEF Dial
  <2>2. W(v) \in Int /\ W(p) \in Int /\ W(Q(v)) \in Int /\ W(Q(p)) \in Int
    BY <1>4 DEF W, Q
  <2>3. QED
    BY <2>1, <2>2 DEF DialIncreased
<1>7. QED
  BY <1>1, <1>4, <1>5, <1>6 DEF p

-----------------------------------------------------------------------------
(* THEOREM: the direction of an encoder is told.                           *)

LEMMA PartsFacts ==
  ASSUME kind \in Kinds, part \in Parts[kind]
  PROVE  /\ part \in {"buttons", "dial", "wheel", "knob", "pads", "slider", "keys", "messages"}
         /\ part = "buttons" \/ part = "dial" => kind = "MK1"
         /\ part = "wheel" \/ part = "knob" => kind \in {"MK2", "Mikro", "Jam", "KK", "F1"}
         /\ part = "messages" => kind \in {"Push", "Push2"}
<1>1. CASE kind = "MK1"
  BY <1>1 DEF Parts
<1>2. CASE kind = "MK2"
  BY <1>2 DEF Parts
<1>3. CASE kind = "Mikro"
  BY <1>3 DEF Parts
<1>4. CASE kind = "Jam"
  BY <1>4 DEF Parts
<1>5. CASE kind = "KK"
  BY <1>5 DEF Parts
<1>6. CASE kind = "F1"
  BY <1>6 DEF Parts
<1>7. CASE kind \in {"Push", "Push2"}
  BY <1>7 DEF Parts
<1>8. QED
  BY <1>1, <1>2, <1>3, <1>4, <1>5, <1>6, <1>7 DEF Kinds

\* What is owed to the client is what lies between the record and the position.
EncoderInv ==
  /\ kind \in Kinds /\ part \in Parts[kind]
  /\ value \in 0..Modulus - 1 /\ position \in 0..Modulus - 1 /\ owed \in Int
  /\ known => part \in Encoders /\ position = (value + owed) % Modulus
  /\ ~known => owed = 0
  /\ TurnsKeepDirection

\* The reports compare the position with the record.
LEMMA ReportTells ==
  ASSUME EncoderInv, part \in Encoders, owed # 0, owed \in -Reach..Reach, Sure
  PROVE  IncreasedNow(value, position) = (owed > 0)
<1>1. value \in 0..Modulus - 1 /\ position = (value + owed) % Modulus /\ owed \in Int
  BY DEF EncoderInv
<1> DEFINE v == value
           t == owed
           top == Top
<1>2. ASSUME part = "wheel"
      PROVE  IncreasedNow(value, position) <=> owed > 0
  <2>1. Modulus = top + 1 /\ top \in Nat /\ (top = 15 \/ top = 255)
        /\ t \in Int /\ (t = 1 \/ t = -1)
    BY <1>2, <1>1 DEF Modulus, Top, Reach
  <2>2. v \in 0..top
    BY <2>1, <1>1
  <2> HIDE DEF v, t, top
  <2>3. Increased(v, (v + t) % (top + 1), top) <=> t > 0
    BY <2>1, <2>2, WheelDirection
  <2> USE DEF v, t, top
  <2>4. QED
    BY <2>1, <2>3, <1>1, <1>2 DEF IncreasedNow
<1>3. ASSUME part = "knob"
      PROVE  IncreasedNow(value, position) <=> owed > 0
  <2>1. Modulus = 16 /\ t \in -4..4 /\ t # 0
    <3>1. 256 \div KnobUnit = 4
      BY DEF KnobUnit
    <3>2. QED
      BY <3>1, <1>3, <1>1, ModulusFacts DEF Reach
  <2>2. v \in 0..15
    BY <2>1, <1>1
  <2> HIDE DEF v, t
  <2>3. KnobIncreased(64 * v, 64 * ((v + t) % 16)) <=> t > 0
    BY <2>1, <2>2, KnobDirection
  <2> USE DEF v, t
  <2>4. QED
    BY <2>1, <2>3, <1>1, <1>3 DEF IncreasedNow, KnobUnit
<1>4. ASSUME part = "dial"
      PROVE  IncreasedNow(value, position) <=> owed > 0
  <2>1. Modulus = 16 /\ t \in -2..2 /\ t # 0
    BY <1>4, <1>1, ModulusFacts DEF Reach
  <2>2. t < 0 \/ v \div 4 = ((v + t) % 16) \div 4
    BY <2>1, <1>1, <1>4 DEF Sure
  <2>3. v \in 0..15
    BY <2>1, <1>1
  <2> HIDE DEF v, t
  <2>4. DialIncreased(Dial(v), Dial((v + t) % 16)) <=> t > 0
    BY <2>1, <2>2, <2>3, DialDirection
  <2> USE DEF v, t
  <2>5. QED
    BY <2>1, <2>4, <1>1, <1>4 DEF IncreasedNow
<1>5. IncreasedNow(value, position) <=> owed > 0
  BY <1>2, <1>3, <1>4 DEF Encoders
<1>6. IncreasedNow(value, position) \in BOOLEAN
  BY DEF IncreasedNow
<1>7. QED
  BY <1>5, <1>6

LEMMA InitEncoder == Init => EncoderInv
<1> SUFFICES ASSUME Init PROVE EncoderInv
  OBVIOUS
<1>1. /\ 7 % 3 \in 0..2 /\ 7 % 16 \in 0..15 /\ 7 % 256 \in 0..255
  OBVIOUS
<1>2. Modulus \in {3, 16, 256}
  BY ModulusFacts
<1>3. {0, 7 % Modulus, Modulus - 1} \subseteq 0..Modulus - 1
  BY <1>1, <1>2
<1>4. value \in 0..Modulus - 1 /\ position \in 0..Modulus - 1
  BY <1>2, <1>3 DEF Init, Ends
<1>5. TurnsKeepDirection
  BY DEF Init, TurnsKeepDirection
<1>6. QED
  BY <1>4, <1>5 DEF Init, EncoderInv

\* A click moves the position and what is owed alike.
LEMMA TurnKeeps ==
  ASSUME EncoderInv, NEW t \in -2..2, Turn(t)
  PROVE  EncoderInv'
<1>1. /\ kind' = kind /\ part' = part /\ value' = value /\ known' = known /\ told' = told
      /\ position' = (position + Modulus + t) % Modulus
      /\ owed' = IF known THEN owed + t ELSE 0
  BY DEF Turn
<1> DEFINE m == Modulus
<1>2. Modulus' = m
  BY <1>1 DEF Modulus, Top
<1>3. m \in {3, 16, 256}
  BY ModulusFacts
<1>4. value \in 0..m - 1 /\ position \in 0..m - 1 /\ owed \in Int /\ position' = (position + m + t) % m
  BY <1>1 DEF EncoderInv
<1>5. known => position = (value + owed) % m
  BY DEF EncoderInv
<1> HIDE DEF m
<1>6. position' \in 0..m - 1
  BY <1>3, <1>4
<1>7. known => position' = (value + (owed + t)) % m
  <2> SUFFICES ASSUME known PROVE (((value + owed) % m) + m + t) % m = (value + (owed + t)) % m
    BY <1>4, <1>5
  <2>1. CASE m = 3
    BY <2>1, <1>4
  <2>2. CASE m = 16
    BY <2>2, <1>4
  <2>3. CASE m = 256
    BY <2>3, <1>4
  <2>4. QED
    BY <2>1, <2>2, <2>3, <1>3
<1>8. TurnsKeepDirection'
  BY <1>1 DEF EncoderInv, TurnsKeepDirection, Reach
<1>9. owed' \in Int
  BY <1>1, <1>4
<1>10. QED
  BY <1>1, <1>2, <1>4, <1>6, <1>7, <1>8, <1>9 DEF EncoderInv

\* A report records the position.
LEMMA RecordKeeps ==
  ASSUME EncoderInv, part \in Encoders, kind' = kind, part' = part, position' = position,
         value' = position, known' = TRUE, owed' = 0, NEW sure \in BOOLEAN, sure => Sure,
         told' \in {told, [by |-> owed, up |-> IncreasedNow(value, position), sure |-> sure]}
  PROVE  EncoderInv'
<1>1. Modulus' = Modulus /\ Modulus \in {3, 16, 256} /\ Reach' = Reach
  BY ModulusFacts DEF Modulus, Top, Reach
<1>2. position \in 0..Modulus - 1
  BY DEF EncoderInv
<1>3. position = (position + 0) % Modulus
  BY <1>1, <1>2
<1>4. TurnsKeepDirection'
  <2>1. CASE told' = told
    BY <2>1, <1>1 DEF EncoderInv, TurnsKeepDirection
  <2>2. CASE told' = [by |-> owed, up |-> IncreasedNow(value, position), sure |-> sure]
    <3> SUFFICES ASSUME told'.by # 0 /\ told'.by \in -Reach..Reach /\ told'.sure
                 PROVE  told'.up = (told'.by > 0)
      BY <1>1 DEF TurnsKeepDirection
    <3>1. owed # 0 /\ owed \in -Reach..Reach /\ Sure
      BY <2>2
    <3>2. IncreasedNow(value, position) = (owed > 0)
      BY <3>1, ReportTells
    <3>3. told'.up = IncreasedNow(value, position) /\ told'.by = owed
      BY <2>2
    <3>4. QED
      BY <3>2, <3>3
  <2>3. QED
    BY <2>1, <2>2
<1>5. QED
  BY <1>1, <1>2, <1>3, <1>4 DEF EncoderInv

\* What does not concern the encoder.
LEMMA EncoderStays ==
  ASSUME EncoderInv, UNCHANGED <<kind, part, value, known, owed, told, position>>
  PROVE  EncoderInv'
BY DEF EncoderInv, TurnsKeepDirection, Reach, Modulus, Top

LEMMA EncoderStep ==
  ASSUME EncoderInv, [Next]_vars
  PROVE  EncoderInv'
<1>1. CASE UNCHANGED vars
  BY <1>1, EncoderStays DEF vars
<1>2. CASE Player
  <2>1. CASE (\E b : Hold(b)) \/ MoveOctave
    BY <2>1, EncoderStays DEF Hold, MoveOctave
  <2>2. CASE \E t \in -2..2 : Turn(t)
    BY <2>2, TurnKeeps
  <2>3. QED
    BY <2>1, <2>2, <1>2 DEF Player
<1>3. CASE ReadButtons
  <2>1. HasButtons /\ UNCHANGED <<kind, part, position>>
    BY <1>3 DEF ReadButtons
  <2>2. NoEncoder \/ (kind # "MK1" /\ ProcessEncoder)
    BY <1>3 DEF ReadButtons, MK2ProcessButtons, JamProcessButtons, MK1ProcessButtons,
                MikroProcessButtons, KKProcessButtons, F1ProcessButtons, ProcessFirst, ProcessAll
  <2>3. CASE NoEncoder
    BY <2>1, <2>3, EncoderStays DEF NoEncoder
  <2>4. CASE kind # "MK1" /\ ProcessEncoder
    <3>1. part \in {"wheel", "knob"}
      BY <2>1, <2>4, PartsFacts DEF EncoderInv, HasButtons
    <3>2. part \in Encoders /\ Sure
      BY <3>1 DEF Encoders, Sure
    <3>3. told' \in {told, [by |-> owed, up |-> IncreasedNow(value, position), sure |-> TRUE]}
      BY <2>4 DEF ProcessEncoder
    <3>4. value' = position /\ known' = TRUE /\ owed' = 0
      BY <2>4 DEF ProcessEncoder
    <3>5. QED
      BY <2>1, <3>2, <3>3, <3>4, RecordKeeps
  <2>5. QED
    BY <2>2, <2>3, <2>4
<1>4. CASE MK1ProcessEncoders
  <2>1. /\ part \in Encoders /\ UNCHANGED <<kind, part, position>>
        /\ value' = position /\ known' = TRUE /\ owed' = 0
    BY <1>4 DEF MK1ProcessEncoders, Encoders
  <2> DEFINE sure == Sure
  <2>2. sure \in BOOLEAN
    BY DEF Sure
  <2>3. told' \in {told, [by |-> owed, up |-> IncreasedNow(value, position), sure |-> sure]}
    BY <1>4 DEF MK1ProcessEncoders
  <2>4. sure => Sure
    OBVIOUS
  <2> HIDE DEF sure
  <2>5. QED
    BY <2>1, <2>2, <2>3, <2>4, RecordKeeps
<1>5. CASE MK1Read \/ MK2Read \/ MikroRead \/ KKReadOctave \/ (\E k \in Keys : KKMidiIn(k))
  BY <1>5, EncoderStays
     DEF MK1Read, MK2Read, MikroRead, ReadSlot, ReadEnds, KKReadOctave, KKMidiIn
<1>6. CASE JamProcessStrips \/ F1ReadPotentiometer
  <2>1. \E slides : ReadSlider(slides)
    BY <1>6 DEF JamProcessStrips, F1ReadPotentiometer
  <2>2. /\ part = "slider" /\ UNCHANGED <<kind, part, position, known, owed, told>>
        /\ value' \in {value, position}
    BY <2>1 DEF ReadSlider
  <2>3. ~known
    BY <2>2 DEF EncoderInv, Encoders
  <2>4. QED
    BY <2>2, <2>3 DEF EncoderInv, TurnsKeepDirection, Reach, Modulus, Top
<1>7. CASE Messages
  <2>1. CASE \E b : Message(b)
    BY <2>1, EncoderStays DEF Message
  <2>2. CASE part = "messages" /\ \E t \in {-1, 1} : EncoderChange(t)
    <3>1. PICK t \in {-1, 1} : EncoderChange(t)
      BY <2>2
    <3>2. /\ UNCHANGED <<kind, part, value, known, owed, position>>
          /\ told'.by = t /\ told'.up = ((t % 128) < 64)
      BY <3>1 DEF EncoderChange
    <3>3. ((t % 128) < 64) = (t > 0)
      OBVIOUS
    <3>4. told'.up = (told'.by > 0)
      BY <3>2, <3>3
    <3>5. QED
      BY <3>2, <3>4 DEF EncoderInv, TurnsKeepDirection, Modulus, Top
  <2>3. QED
    BY <2>1, <2>2, <1>7 DEF Messages
<1>8. QED
  BY <1>1, <1>2, <1>3, <1>4, <1>5, <1>6, <1>7 DEF Next

\* Of the steps of the whole, only those of ControllerInput concern it.
LEMMA OnlyNext == [MCNext]_<<vars, count, extra, togo, hit, cut, wire, m_midiInBuffer, popping,
                             relayed, size>> => [Next]_vars
BY DEF MCNext

\* The direction told is that of the turns since the last time, however the reports and the
\* turns interleave and wherever the encoder wraps.
THEOREM DirectionTold == MCSpec => []TurnsKeepDirection
<1>1. MCInit => EncoderInv
  BY InitEncoder DEF MCInit
<1>2. EncoderInv /\ [MCNext]_<<vars, count, extra, togo, hit, cut, wire, m_midiInBuffer, popping,
                               relayed, size>> => EncoderInv'
  BY OnlyNext, EncoderStep
<1>3. EncoderInv => TurnsKeepDirection
  BY DEF EncoderInv
<1>4. QED
  BY <1>1, <1>2, <1>3, PTL DEF MCSpec

-----------------------------------------------------------------------------
(* THEOREM: the client's picture is the one that was recorded.             *)

\* What may be held, and what the driver has recorded, in each part.
HandsInv ==
  /\ HasButtons => hands \subseteq Watched[kind] /\ states \subseteq Watched[kind]
  /\ part = "pads" => hands \subseteq Pads /\ states \subseteq Pads
  /\ part \in {"dial", "slider"} => hands = {} /\ states = {}
  /\ part = "keys" => hands \subseteq Keys /\ octave \in Int /\ firstKey \in Int
  /\ part = "messages" => hands \subseteq Watched[kind] \cup Pads

\* A settled picture of the keys was made with the octave they have; a turn can only be
\* owed by an encoder that is known; Push tells every message as it comes.
PictureInv ==
  /\ HandsInv
  /\ PictureIsCurrent
  /\ part = "keys" /\ settled => firstKey = octave
  /\ part = "messages" => picture = hands \cap Tellable

LEMMA InitPicture == Init => PictureInv
<1> SUFFICES ASSUME Init PROVE PictureInv
  OBVIOUS
<1>1. HandsInv
  BY DEF Init, HandsInv
<1>2. PictureIsCurrent
  BY DEF Init, PictureIsCurrent
<1>3. QED
  BY <1>1, <1>2 DEF Init, PictureInv

\* What has moved is not settled.
LEMMA NotSettled ==
  ASSUME PictureInv, UNCHANGED <<kind, part, states, picture>>, ~settled', HandsInv',
         part = "messages" => hands' = hands
  PROVE  PictureInv'
<1>1. Tellable' = Tellable
  BY DEF Tellable, Looked
<1>2. QED
  BY <1>1 DEF PictureInv, PictureIsCurrent

\* Watched buttons are not pads.
LEMMA WatchedFacts ==
  ASSUME NEW k \in Kinds
  PROVE  /\ Watched[k] \cap Pads = {}
         /\ Mapped[k] \subseteq Watched[k]
<1>1. Watched[k] \cap Pads = {}
  BY DEF Kinds, Watched, Pads
<1>2. QED
  BY <1>1 DEF Mapped

LEMMA TypesOfKinds ==
  ASSUME NEW k \in {"MK1", "MK2", "Mikro", "Jam", "KK", "F1"}
  PROVE  /\ k \in Kinds
         /\ Looked[k] = {b \in Watched[k] \ {"Shift"} : Button[k][b] <= LastButton[k]}
BY DEF Kinds, Looked, LastButton

\* What a report of the buttons says of button b: `bs' is what was recorded.
LEMMA RecordedFacts ==
  ASSUME NEW bs, bs \subseteq Watched[kind]
  PROVE  /\ Recorded(bs) \subseteq Watched[kind]
         /\ \A b \in Watched[kind] :
              b # "Shift" => b \in Recorded(bs) <=> IF b \in bs THEN b \in hands ELSE b \in states
BY DEF Recorded, Record

\* A set of numbers has a least one.
LEMMA LeastExists ==
  ASSUME NEW S, S \subseteq Nat, S # {}
  PROVE  \E i \in S : \A j \in S : i <= j
<1>1. \E x \in S : \A y \in S : ~(<<y, x>> \in OpToRel(<, Nat))
  BY NatLessThanWellFounded, WFMin, Zenon
<1>2. PICK x \in S : \A y \in S : ~(<<y, x>> \in OpToRel(<, Nat))
  BY <1>1
<1>3. \A y \in S : ~(y < x)
  BY <1>2 DEF OpToRel
<1>4. QED
  BY <1>3

LEMMA PictureButtons ==
  ASSUME PictureInv, EncoderInv, EncoderInv', ReadButtons
  PROVE  PictureInv'
<1>1. /\ HasButtons /\ UNCHANGED <<kind, part, hands, position, turns, octave, firstKey, slot>>
      /\ kind \in Kinds /\ part \in Parts[kind]
  BY DEF ReadButtons, EncoderInv
<1>2. kind \in {"MK1", "MK2", "Mikro", "Jam", "KK", "F1"} /\ part \in {"buttons", "wheel", "knob"}
      /\ (part = "buttons" => kind = "MK1")
  BY <1>1, PartsFacts DEF HasButtons
<1> DEFINE W == Watched[kind]
           L == Looked[kind]
           M == Mapped[kind]
           mapped == Changed \cap M
           btn == CHOOSE b \in mapped : \A c \in mapped : Button[kind][b] <= Button[kind][c]
           seen == {b \in Changed : Button[kind][b] <= Button[kind][btn]}
<1>3. /\ L = {b \in W \ {"Shift"} : Button[kind][b] <= LastButton[kind]}
      /\ W \cap Pads = {} /\ M \subseteq W
  BY <1>1, <1>2, TypesOfKinds, WatchedFacts
<1>4. hands \subseteq W /\ states \subseteq W /\ picture = states \cap Tellable
  BY <1>1, <1>2 DEF PictureInv, HandsInv, PictureIsCurrent
<1>5. Tellable = (M \cap L) \cup Pads /\ Tellable' = Tellable
  BY <1>1, <1>2 DEF Tellable
<1>6. Changed = {b \in L : (b \in hands) # (b \in states)}
  BY DEF Changed
<1> HIDE DEF L, M
<1>7. mapped \subseteq Changed /\ Changed \subseteq L /\ L \subseteq W /\ "Shift" \notin L /\ seen \subseteq Changed
  BY <1>3, <1>6
<1>8. ASSUME NEW bs, bs \subseteq Changed, states' = Recorded(bs),
             picture' = (picture \ (bs \cap M)) \cup ((bs \cap M) \cap hands)
      PROVE  /\ states' \subseteq W
             /\ picture' = states' \cap Tellable
  <2>1. /\ states' \subseteq W
        /\ \A b \in W : b # "Shift" => b \in states' <=> IF b \in bs THEN b \in hands ELSE b \in states
    BY <1>7, <1>8, RecordedFacts
  <2>2. ASSUME NEW b
        PROVE  b \in picture' <=> b \in states' /\ b \in Tellable
    <3> HIDE DEF W, mapped, btn, seen
    <3>1. CASE b \in M \cap L
      <4>1. b \in W /\ b # "Shift" /\ b \in Tellable
        BY <3>1, <1>5, <1>7
      <4>2. b \in states' <=> IF b \in bs THEN b \in hands ELSE b \in states
        BY <4>1, <2>1
      <4>3. b \in picture <=> b \in states
        BY <4>1, <1>4
      <4>4. QED
        BY <3>1, <4>1, <4>2, <4>3, <1>8
    <3>2. CASE b \notin M \cap L
      <4>1. b \notin bs \cap M
        BY <3>2, <1>7, <1>8
      <4>2. b \in picture' <=> b \in picture
        BY <4>1, <1>8
      <4>3. b \notin picture
        BY <3>2, <1>3, <1>4, <1>5
      <4>4. ~(b \in states' /\ b \in Tellable)
        BY <3>2, <2>1, <1>3, <1>5
      <4>5. QED
        BY <4>2, <4>3, <4>4
    <3>3. QED
      BY <3>1, <3>2
  <2>3. QED
    BY <2>1, <2>2
<1>9. mapped = {} => hands \cap Tellable = states \cap Tellable
  <2> SUFFICES ASSUME mapped = {}, NEW b \in Tellable
               PROVE  b \in hands <=> b \in states
    OBVIOUS
  <2>1. CASE b \in Pads
    BY <2>1, <1>3, <1>4
  <2>2. CASE b \in M \cap L
    BY <2>2, <1>6
  <2>3. QED
    BY <2>1, <2>2, <1>5
<1>10. ASSUME mapped # {}
       PROVE  seen \cap M = {btn} /\ btn \in mapped
  <2> DEFINE numbers == {Button[kind][b] : b \in mapped}
  <2>1. \A b \in mapped : Button[kind][b] \in Nat /\ b \in DOMAIN Button[kind]
    BY <1>1, <1>7, NumbersAssumption
  <2>2. \E n \in numbers : \A m \in numbers : n <= m
    BY <1>10, <2>1, LeastExists
  <2>3. \E b \in mapped : \A c \in mapped : Button[kind][b] <= Button[kind][c]
    BY <2>2
  <2>4. btn \in mapped /\ \A c \in mapped : Button[kind][btn] <= Button[kind][c]
    BY <2>3
  <2> HIDE DEF btn
  <2>5. ASSUME NEW b \in mapped, Button[kind][b] <= Button[kind][btn]
        PROVE  b = btn
    <3>1. Button[kind][btn] <= Button[kind][b] /\ btn \in mapped
      BY <2>4
    <3>2. Button[kind][b] = Button[kind][btn]
      BY <2>1, <2>4, <2>5, <3>1
    <3>3. btn \in W
      BY <1>7, <2>4
    <3>4. QED
      BY <3>2, <3>3, <2>1, <1>1, NumbersAssumption
  <2>6. btn \in seen
    BY <2>1, <2>4
  <2>7. QED
    BY <2>4, <2>5, <2>6
<1>11. /\ states' \subseteq W /\ picture' = states' \cap Tellable
       /\ settled' => mapped = {} /\ owed' = 0 /\ picture' = picture
  <2>1. CASE ProcessAll
    <3>1. states' = Recorded(Changed) /\ picture' = (picture \ mapped) \cup (mapped \cap hands)
      BY <2>1 DEF ProcessAll, M
    <3>2. states' \subseteq W /\ picture' = states' \cap Tellable
      BY <3>1, <1>8
    <3>3. ASSUME settled'
          PROVE  mapped = {} /\ owed' = 0 /\ picture' = picture
      <4>1. mapped = {}
        BY <2>1, <3>3 DEF ProcessAll, M
      <4>2. picture' = picture
        BY <4>1, <3>1
      <4>3. CASE kind = "MK1"
        <5>1. ~known /\ owed = 0
          BY <4>3, <1>1, <1>2, PartsFacts DEF EncoderInv, Encoders
        <5>2. QED
          BY <4>1, <4>2, <5>1, <4>3, <2>1 DEF ProcessAll, NoEncoder
      <4>4. CASE kind # "MK1"
        BY <4>1, <4>2, <4>4, <2>1 DEF ProcessAll, ProcessEncoder
      <4>5. QED
        BY <4>3, <4>4
    <3>4. QED
      BY <3>2, <3>3
  <2>2. CASE ProcessFirst
    <3>1. CASE mapped = {}
      <4>1. states' = Recorded(Changed) /\ picture' = picture /\ owed' = 0
        BY <2>2, <3>1 DEF ProcessFirst, ProcessEncoder, M
      <4>2. picture' = (picture \ mapped) \cup (mapped \cap hands)
        BY <4>1, <3>1
      <4>3. QED
        BY <4>1, <4>2, <3>1, <1>8
    <3>2. CASE mapped # {}
      <4>1. /\ states' = Recorded(seen)
            /\ picture' = (picture \ {btn}) \cup ({btn} \cap hands)
            /\ settled' = FALSE
        BY <2>2, <3>2 DEF ProcessFirst, M
      <4>2. seen \cap M = {btn}
        BY <3>2, <1>10
      <4>3. picture' = (picture \ (seen \cap M)) \cup ((seen \cap M) \cap hands)
        BY <4>1, <4>2
      <4> HIDE DEF seen
      <4>4. QED
        BY <4>1, <4>3, <1>7, <1>8
    <3>3. QED
      BY <3>1, <3>2
  <2>3. QED
    BY <2>1, <2>2 DEF ReadButtons, MK2ProcessButtons, JamProcessButtons, MK1ProcessButtons,
                      MikroProcessButtons, KKProcessButtons, F1ProcessButtons
<1>12. settled' => picture' = hands \cap Tellable
  BY <1>4, <1>9, <1>11
<1>13. HandsInv'
  BY <1>1, <1>2, <1>4, <1>11 DEF HandsInv, HasButtons
<1>14. PictureIsCurrent'
  BY <1>1, <1>2, <1>5, <1>11, <1>12 DEF PictureIsCurrent
<1>15. QED
  BY <1>1, <1>2, <1>13, <1>14 DEF PictureInv

\* A report of the pads tells of all of them.
LEMMA PicturePads ==
  ASSUME PictureInv, EncoderInv, part = "pads", ProcessPads,
         UNCHANGED <<kind, part, hands, owed, known>>
  PROVE  PictureInv'
<1>1. hands \subseteq Pads /\ states \subseteq Pads /\ picture = states \cap Tellable
  BY DEF PictureInv, HandsInv, PictureIsCurrent
<1>2. Pads \subseteq Tellable /\ Tellable' = Tellable
  BY DEF Tellable
<1>3. states' = hands /\ picture' = hands
  BY <1>1, <1>2 DEF ProcessPads
<1>4. owed = 0
  BY DEF EncoderInv, Encoders
<1>5. HandsInv'
  BY <1>1, <1>3 DEF HandsInv, HasButtons
<1>6. PictureIsCurrent'
  BY <1>1, <1>2, <1>3, <1>4, <1>5 DEF PictureIsCurrent
<1>7. QED
  BY <1>5, <1>6 DEF PictureInv

\* MK1's encoders.
LEMMA PictureDial ==
  ASSUME PictureInv, EncoderInv, MK1ProcessEncoders
  PROVE  PictureInv'
<1>1. /\ part = "dial" /\ UNCHANGED <<kind, part, hands, states, picture, octave, firstKey>>
      /\ owed' = 0
  BY DEF MK1ProcessEncoders
<1>2. hands = {} /\ states = {} /\ picture = {}
  BY <1>1 DEF PictureInv, HandsInv, PictureIsCurrent
<1>3. HandsInv'
  BY <1>1, <1>2 DEF HandsInv, HasButtons
<1>4. PictureIsCurrent'
  BY <1>1, <1>2 DEF PictureIsCurrent
<1>5. QED
  BY <1>1, <1>3, <1>4 DEF PictureInv

\* Sliders: a finger that leaves a strip is passed over.
LEMMA PictureSlider ==
  ASSUME PictureInv, EncoderInv, JamProcessStrips \/ F1ReadPotentiometer
  PROVE  PictureInv'
<1>1. /\ part = "slider"
      /\ UNCHANGED <<kind, part, hands, states, picture, octave, firstKey, position, owed>>
      /\ settled' => value' = position \/ position = 0
  <2>1. CASE JamProcessStrips
    <3> DEFINE slides == position # 0 /\ value # position
    <3>1. ReadSlider(slides) /\ slides \in BOOLEAN
      BY <2>1 DEF JamProcessStrips
    <3>2. slides \/ value = position \/ position = 0
      OBVIOUS
    <3> HIDE DEF slides
    <3>3. /\ part = "slider"
          /\ UNCHANGED <<kind, part, hands, states, picture, octave, firstKey, position, owed>>
      BY <3>1 DEF ReadSlider
    <3>4. slides => ~settled'
      BY <3>1 DEF ReadSlider
    <3>5. ~slides => value' = value
      BY <3>1 DEF ReadSlider
    <3>6. QED
      BY <3>2, <3>3, <3>4, <3>5
  <2>2. CASE F1ReadPotentiometer
    <3> DEFINE slides == value # position
    <3>1. ReadSlider(slides) /\ slides \in BOOLEAN
      BY <2>2 DEF F1ReadPotentiometer
    <3>2. slides \/ value = position \/ position = 0
      OBVIOUS
    <3> HIDE DEF slides
    <3>3. /\ part = "slider"
          /\ UNCHANGED <<kind, part, hands, states, picture, octave, firstKey, position, owed>>
      BY <3>1 DEF ReadSlider
    <3>4. slides => ~settled'
      BY <3>1 DEF ReadSlider
    <3>5. ~slides => value' = value
      BY <3>1 DEF ReadSlider
    <3>6. QED
      BY <3>2, <3>3, <3>4, <3>5
  <2>3. QED
    BY <2>1, <2>2
<1>2. hands = {} /\ states = {} /\ picture = {}
  BY <1>1 DEF PictureInv, HandsInv, PictureIsCurrent
<1>3. owed = 0
  BY <1>1 DEF EncoderInv, Encoders
<1>4. HandsInv'
  BY <1>1, <1>2 DEF HandsInv, HasButtons
<1>5. PictureIsCurrent'
  BY <1>1, <1>2, <1>3 DEF PictureIsCurrent
<1>6. QED
  BY <1>1, <1>4, <1>5 DEF PictureInv

\* The keys of KK, and their octave.
LEMMA PictureKeys ==
  ASSUME PictureInv, EncoderInv, KKReadOctave \/ \E k \in Keys : KKMidiIn(k)
  PROVE  PictureInv'
<1>1. /\ part = "keys" /\ UNCHANGED <<kind, part, states, octave, owed>>
  BY DEF KKReadOctave, KKMidiIn
<1>2. /\ hands \subseteq {"KeyA"} /\ octave \in Int /\ firstKey \in Int
      /\ settled => picture = hands \X {0} /\ firstKey = octave
      /\ owed = 0
  BY <1>1 DEF PictureInv, HandsInv, PictureIsCurrent, EncoderInv, Encoders, Keys
<1>3. CASE KKReadOctave
  <2>1. /\ hands' = hands /\ picture' = picture /\ firstKey' = octave
        /\ settled' = (settled \/ (hands = {} /\ picture = {}))
    BY <1>3 DEF KKReadOctave
  <2>2. settled' => picture' = hands' \X {0}
    BY <1>2, <2>1
  <2>3. HandsInv'
    BY <1>1, <1>2, <2>1 DEF HandsInv, HasButtons, Keys
  <2>4. PictureIsCurrent'
    BY <1>1, <1>2, <2>2 DEF PictureIsCurrent
  <2>5. QED
    BY <1>1, <2>1, <2>3, <2>4 DEF PictureInv
<1>4. CASE KKMidiIn("KeyA")
  <2> DEFINE key == <<"KeyA", octave - firstKey>>
  <2>1. /\ hands' = IF "KeyA" \in hands THEN {} ELSE {"KeyA"}
        /\ picture' = IF "KeyA" \in hands' THEN picture \cup {key} ELSE picture \ {key}
        /\ firstKey' = firstKey /\ settled' = settled
    BY <1>4 DEF KKMidiIn
  <2>2. settled' => picture' = hands' \X {0}
    <3> SUFFICES ASSUME settled PROVE picture' = hands' \X {0}
      BY <2>1
    <3>1. key = <<"KeyA", 0>> /\ picture = hands \X {0}
      BY <1>2
    <3>2. CASE "KeyA" \in hands
      <4>1. hands = {"KeyA"} /\ hands' = {}
        BY <3>2, <1>2, <2>1
      <4>2. QED
        BY <4>1, <3>1, <2>1
    <3>3. CASE "KeyA" \notin hands
      <4>1. hands = {} /\ hands' = {"KeyA"}
        BY <3>3, <1>2, <2>1
      <4>2. QED
        BY <4>1, <3>1, <2>1
    <3>4. QED
      BY <3>2, <3>3
  <2>3. HandsInv'
    BY <1>1, <1>2, <2>1 DEF HandsInv, HasButtons, Keys
  <2>4. PictureIsCurrent'
    BY <1>1, <1>2, <2>2 DEF PictureIsCurrent
  <2>5. QED
    BY <1>1, <1>2, <2>1, <2>3, <2>4 DEF PictureInv
<1>5. QED
  BY <1>3, <1>4 DEF Keys

\* Push: a message tells one button; that of NavigateDown is kept for Shift.
LEMMA PictureMessage ==
  ASSUME PictureInv, EncoderInv, NEW b \in Watched[kind] \cup Pads, Message(b)
  PROVE  PictureInv'
<1> DEFINE down == b \notin hands
<1>1. /\ part = "messages" /\ UNCHANGED <<kind, part, octave, firstKey, owed>>
      /\ hands' = IF b \in hands THEN hands \ {b} ELSE hands \cup {b}
      /\ kind \in {"Push", "Push2"} /\ kind \in Kinds
  BY PartsFacts DEF Message, EncoderInv
<1>2. /\ Tellable = (Watched[kind] \cup Pads) \ {"NavigateDown"} /\ Tellable' = Tellable
      /\ hands \subseteq Watched[kind] \cup Pads /\ picture = hands \cap Tellable
      /\ owed = 0
  BY <1>1 DEF Tellable, PictureInv, HandsInv, EncoderInv, Encoders
<1>3. \/ ControlChange(b, down) \/ ProcessNote(b, down)
  BY DEF Message, PushControlChange, Push2ControlChange, PushProcessNote, Push2ProcessNote
<1>4. \/ b = "NavigateDown" /\ picture' = picture
      \/ b # "NavigateDown" /\ picture' = IF down THEN picture \cup {b} ELSE picture \ {b}
  <2>1. CASE ControlChange(b, down)
    <3>1. b \in DOMAIN Button[kind] /\ b \in Watched[kind]
      BY <2>1, <1>1, NumbersAssumption DEF ControlChange
    <3>2. /\ \A c \in DOMAIN Button[kind] : Button[kind][c] = Button[kind][b] => c = b
          /\ Button[kind]["NavigateDown"] = DeviceButton["Shift"]
      BY <3>1, <1>1, NumbersAssumption
    <3>3. "NavigateDown" \in Watched[kind]
      BY <1>1 DEF Watched
    <3>4. "NavigateDown" \in DOMAIN Button[kind]
      BY <3>3, <1>1, NumbersAssumption
    <3>5. IsShift(Button[kind][b]) <=> b = "NavigateDown"
      BY <3>2, <3>4 DEF IsShift
    <3>6. ButtonName(Button[kind][b]) = b
      BY <3>1, <3>2 DEF ButtonName
    <3>7. QED
      BY <2>1, <3>5, <3>6 DEF ControlChange, Tell
  <2>2. CASE ProcessNote(b, down)
    <3>1. b # "NavigateDown"
      BY <2>2, NumbersAssumption DEF ProcessNote, Pads
    <3>2. QED
      BY <2>2, <3>1 DEF ProcessNote, Tell
  <2>3. QED
    BY <1>3, <2>1, <2>2
<1>5. hands' \subseteq Watched[kind] \cup Pads /\ picture' = hands' \cap Tellable
  BY <1>1, <1>2, <1>4
<1>6. HandsInv'
  BY <1>1, <1>5 DEF HandsInv, HasButtons
<1>7. PictureIsCurrent'
  BY <1>1, <1>2, <1>5 DEF PictureIsCurrent
<1>8. QED
  BY <1>1, <1>2, <1>5, <1>6, <1>7 DEF PictureInv

\* What the picture depends on.
LEMMA PictureStays ==
  ASSUME PictureInv, UNCHANGED <<kind, part, hands, states, picture, position, value, owed, octave,
                                 firstKey, settled>>
  PROVE  PictureInv'
<1>1. Tellable' = Tellable
  BY DEF Tellable, Looked
<1>2. HandsInv'
  BY DEF PictureInv, HandsInv, HasButtons
<1>3. QED
  BY <1>1, <1>2 DEF PictureInv, PictureIsCurrent

LEMMA PictureStep ==
  ASSUME PictureInv, EncoderInv, EncoderInv', [Next]_vars
  PROVE  PictureInv'
<1>1. CASE UNCHANGED vars
  BY <1>1, PictureStays DEF vars
<1>2. CASE Player
  <2>1. UNCHANGED <<kind, part, states, picture, firstKey>> /\ ~settled'
    BY <1>2 DEF Player, Hold, Turn, MoveOctave
  <2>2. HandsInv'
    <3>1. CASE HasButtons /\ \E b \in Watched[kind] : Hold(b)
      BY <3>1, <2>1 DEF PictureInv, HandsInv, HasButtons, Hold
    <3>2. CASE part = "pads" /\ \E p \in Pads : Hold(p)
      BY <3>2, <2>1 DEF PictureInv, HandsInv, HasButtons, Hold
    <3>3. CASE \E t : Turn(t)
      BY <3>3, <2>1 DEF PictureInv, HandsInv, HasButtons, Turn
    <3>4. CASE MoveOctave
      BY <3>4, <2>1 DEF PictureInv, HandsInv, HasButtons, MoveOctave
    <3>5. QED
      BY <3>1, <3>2, <3>3, <3>4, <1>2 DEF Player
  <2>3. part = "messages" => hands' = hands
    BY <1>2 DEF Player, HasButtons, Turn, MoveOctave
  <2>4. QED
    BY <2>1, <2>2, <2>3, NotSettled
<1>3. CASE ReadButtons
  BY <1>3, PictureButtons
<1>4. CASE MK1ProcessEncoders
  BY <1>4, PictureDial
<1>5. CASE MK1Read \/ MK2Read \/ MikroRead
  <2>1. part = "pads" /\ UNCHANGED <<kind, part, hands, position, value, known, owed, octave, firstKey>>
    BY <1>5 DEF MK1Read, MK2Read, MikroRead, ReadSlot, ReadEnds
  <2>2. ProcessPads \/ UNCHANGED <<states, picture, settled>>
    BY <1>5 DEF MK1Read, MK2Read, MikroRead, ReadSlot, ReadEnds, MK1ProcessPads, MK2ProcessPads,
                MikroProcessPads
  <2>3. QED
    BY <2>1, <2>2, PicturePads, PictureStays
<1>6. CASE JamProcessStrips \/ F1ReadPotentiometer
  BY <1>6, PictureSlider
<1>7. CASE KKReadOctave \/ \E k \in Keys : KKMidiIn(k)
  BY <1>7, PictureKeys
<1>8. CASE Messages
  <2>1. CASE \E b \in Watched[kind] \cup Pads : Message(b)
    BY <2>1, PictureMessage
  <2>2. CASE \E t \in {-1, 1} : EncoderChange(t)
    BY <2>2, PictureStays DEF EncoderChange
  <2>3. QED
    BY <2>1, <2>2, <1>8 DEF Messages
<1>9. QED
  BY <1>1, <1>2, <1>3, <1>4, <1>5, <1>6, <1>7, <1>8 DEF Next

\* Whatever the player does between two reports and wherever a read() stops, the client was
\* told what the driver recorded, and nothing is left behind in the end.
THEOREM PictureCurrent == MCSpec => []PictureIsCurrent
<1>1. MCInit => EncoderInv /\ PictureInv
  BY InitEncoder, InitPicture DEF MCInit
<1>2. EncoderInv /\ PictureInv
      /\ [MCNext]_<<vars, count, extra, togo, hit, cut, wire, m_midiInBuffer, popping, relayed, size>>
      => EncoderInv' /\ PictureInv'
  BY OnlyNext, EncoderStep, PictureStep
<1>3. PictureInv => PictureIsCurrent
  BY DEF PictureInv
<1>4. QED
  BY <1>1, <1>2, <1>3, PTL DEF MCSpec

-----------------------------------------------------------------------------
(* THEOREM: messages of the MIDI IN socket are framed.                     *)

\* The bytes that no message was made of yet.
Rest == m_midiInBuffer \o wire

\* Where a message begins.
Starts == {i \in DOMAIN Rest : Rest[i].kind = "status"}

\* How many bytes of message m were sent, if it was not cut.
SoFar(m) == IF m = count THEN size[m] - togo ELSE size[m]

\* Types that the run's TypeOK leaves open, and the sender's place in its message.
SenderInv ==
  /\ MidiIn!TypeOK
  /\ relayed \in Seq(Seq(MidiIn!Bytes))
  /\ togo > 0 => count > 0 /\ togo < size[count] /\ count \notin cut

\* Status bytes are in order, and from any of them on all are there.
StartsInv ==
  /\ \A i \in Starts : Rest[i].msg \in 1..count
  /\ \A i, j \in Starts : i < j => Rest[i].msg < Rest[j].msg
  /\ \A i \in Starts : \E j \in Starts : i <= j /\ Rest[j].msg = count

\* What is taken for a message ends before the next one, unless the one before that was cut.
SpansInv ==
  \A i, j \in Starts : i < j /\ Rest[j].msg - 1 \notin cut => i + size[Rest[i].msg] <= j

\* What was sent of a message is behind its status byte, and with it if nothing came between.
BytesInv ==
  \A i \in Starts :
    /\ Rest[i].msg = count /\ count \notin cut => i + SoFar(count) <= Len(Rest) + 1
    /\ Rest[i].msg \notin hit \cup cut =>
         /\ i + SoFar(Rest[i].msg) <= Len(Rest) + 1
         /\ \A j \in 1..SoFar(Rest[i].msg) - 1 : Rest[i + j] = MidiIn!Byte("data", Rest[i].msg)
         /\ Rest[i].msg = count /\ togo > 0 => i + SoFar(count) = Len(Rest) + 1

\* What was relayed began with a status byte, before those that wait, and is its message.
RelayedInv ==
  /\ \A k \in DOMAIN relayed :
       /\ relayed[k][1].kind = "status" /\ relayed[k][1].msg \in 1..count
       /\ relayed[k][1].msg \notin hit \cup cut => relayed[k] = MidiIn!Message(relayed[k][1].msg)
       /\ \A i \in Starts : relayed[k][1].msg < Rest[i].msg
  /\ MidiIn!RelayedInOrder

\* A message that follows a whole one waits or was relayed.
NoneIsMissing ==
  \A m \in 1..count : m - 1 \notin cut =>
    \/ \E i \in Starts : Rest[i].msg = m
    \/ \E k \in DOMAIN relayed : relayed[k][1].msg = m

\* What is left after a transfer is the beginning of a message.
BufferInv ==
  ~popping /\ m_midiInBuffer # << >> =>
    /\ m_midiInBuffer[1].kind = "status"
    /\ Len(m_midiInBuffer) < size[m_midiInBuffer[1].msg]

FrameInv == SenderInv /\ StartsInv /\ SpansInv /\ BytesInv /\ RelayedInv /\ NoneIsMissing /\ BufferInv

\* Two sequences, one behind the other.
LEMMA Concatenated ==
  ASSUME NEW S, NEW b \in Seq(S), NEW w \in Seq(S)
  PROVE  /\ b \o w \in Seq(S) /\ Len(b \o w) \in Nat /\ DOMAIN (b \o w) = 1..Len(b \o w)
         /\ Len(b \o w) = Len(b) + Len(w) /\ Len(b) \in Nat /\ Len(w) \in Nat
         /\ \A i \in 1..Len(b \o w) :
              /\ (b \o w)[i] \in S
              /\ i <= Len(b) => (b \o w)[i] = b[i]
              /\ i > Len(b) => (b \o w)[i] = w[i - Len(b)]
OBVIOUS

\* The rest as a sequence of its own.
LEMMA RestFacts ==
  ASSUME SenderInv
  PROVE  /\ m_midiInBuffer \in Seq(MidiIn!Bytes) /\ wire \in Seq(MidiIn!Bytes)
         /\ Rest \in Seq(MidiIn!Bytes) /\ Len(Rest) \in Nat /\ DOMAIN Rest = 1..Len(Rest)
         /\ Len(Rest) = Len(m_midiInBuffer) + Len(wire)
         /\ Len(m_midiInBuffer) \in Nat /\ Len(wire) \in Nat
         /\ \A i \in 1..Len(Rest) :
              /\ Rest[i] \in MidiIn!Bytes
              /\ i <= Len(m_midiInBuffer) => Rest[i] = m_midiInBuffer[i]
              /\ i > Len(m_midiInBuffer) => Rest[i] = wire[i - Len(m_midiInBuffer)]
         /\ Starts \subseteq 1..Len(Rest)
<1>1. m_midiInBuffer \in Seq(MidiIn!Bytes) /\ wire \in Seq(MidiIn!Bytes)
  BY DEF SenderInv, MidiIn!TypeOK
<1> HIDE DEF SenderInv
<1>2. QED
  BY <1>1, Concatenated DEF Rest, Starts

\* Sizes and what was sent so far are a few bytes.
LEMMA SizeFacts ==
  ASSUME SenderInv
  PROVE  /\ count \in Nat /\ togo \in 0..2 /\ extra \in Nat
         /\ size \in Seq(MessageSizes) /\ Len(size) = count
         /\ \A m \in 1..count : size[m] \in 2..3 /\ SoFar(m) \in 1..3 /\ SoFar(m) <= size[m]
<1>1. /\ count \in 0..MaxIn /\ togo \in 0..2 /\ extra \in 0..MaxExtra
      /\ size \in Seq(MessageSizes) /\ Len(size) = count
  BY DEF SenderInv, MidiIn!TypeOK
<1>2. \A m \in 1..count : size[m] \in MessageSizes
  BY <1>1
<1>3. \A m \in 1..count : size[m] \in 2..3
  <2>1. \A n \in MessageSizes : n = 2 \/ n = 3
    BY MidiInAssumption
  <2>2. QED
    BY <1>2, <2>1
<1>4. \A m \in 1..count : SoFar(m) \in 1..3 /\ SoFar(m) <= size[m]
  BY <1>1, <1>3, MidiInAssumption DEF SenderInv, SoFar
<1>5. QED
  BY <1>1, <1>3, <1>4, MidiInAssumption

\* The first byte of a buffer is the first of the rest.
LEMMA BufferStarts ==
  ASSUME SenderInv, m_midiInBuffer # << >>
  PROVE  /\ 1 \in 1..Len(Rest) /\ Rest[1] = m_midiInBuffer[1]
         /\ m_midiInBuffer[1].kind = "status" => 1 \in Starts
<1>1. Len(m_midiInBuffer) >= 1 /\ Len(m_midiInBuffer) \in Nat
  BY RestFacts
<1>2. QED
  BY <1>1, RestFacts DEF Starts

LEMMA InitFrame == MidiIn!Init => FrameInv
<1> SUFFICES ASSUME MidiIn!Init PROVE FrameInv
  OBVIOUS
<1> USE MidiInAssumption DEF MidiIn!Init
<1>1. Rest = << >> /\ Starts = {}
  BY DEF Rest, Starts
<1>2. << >> \in Seq(MidiIn!Bytes) /\ << >> \in Seq(MessageSizes) /\ << >> \in Seq(Seq(MidiIn!Bytes))
  OBVIOUS
<1>3. DOMAIN << >> = {} /\ Len(<< >>) = 0
  OBVIOUS
<1>4. SenderInv
  <2>1. /\ count \in 0..MaxIn /\ extra \in 0..MaxExtra /\ togo \in 0..2 /\ hit \cup cut \subseteq 1..count
    OBVIOUS
  <2>2. /\ wire \in Seq(MidiIn!Bytes) /\ m_midiInBuffer \in Seq(MidiIn!Bytes)
        /\ size \in Seq(MessageSizes) /\ Len(size) = count
        /\ relayed \in Seq(Seq(MidiIn!Bytes))
    BY <1>2, <1>3
  <2>3. \A k \in DOMAIN relayed : relayed[k] \in Seq(MidiIn!Bytes) /\ Len(relayed[k]) \in 2..3
    BY <1>3
  <2>4. togo = 0 /\ popping \in BOOLEAN
    OBVIOUS
  <2> HIDE DEF MidiIn!Init
  <2>5. QED
    BY <2>1, <2>2, <2>3, <2>4 DEF SenderInv, MidiIn!TypeOK
<1>5. RelayedInv
  BY <1>3 DEF RelayedInv, MidiIn!RelayedInOrder
<1>6. QED
  BY <1>1, <1>4, <1>5 DEF FrameInv, StartsInv, SpansInv, BytesInv, NoneIsMissing, BufferInv

-----------------------------------------------------------------------------
(* The sender.                                                             *)

\* A byte is put behind the rest.
LEMMA ByteSent ==
  ASSUME SenderInv, NEW x \in MidiIn!Bytes, wire' = Append(wire, x),
         m_midiInBuffer' = m_midiInBuffer
  PROVE  /\ wire' \in Seq(MidiIn!Bytes)
         /\ Len(Rest') = Len(Rest) + 1 /\ DOMAIN Rest' = 1..Len(Rest) + 1
         /\ \A i \in 1..Len(Rest) : Rest'[i] = Rest[i]
         /\ Rest'[Len(Rest) + 1] = x
         /\ x.kind = "status" => Starts' = Starts \cup {Len(Rest) + 1}
         /\ x.kind # "status" => Starts' = Starts
<1>1. m_midiInBuffer \in Seq(MidiIn!Bytes) /\ wire \in Seq(MidiIn!Bytes)
  BY RestFacts
<1>2. wire' \in Seq(MidiIn!Bytes) /\ Rest' = m_midiInBuffer \o Append(wire, x)
  BY <1>1 DEF Rest
<1>3. /\ Len(Rest') = Len(Rest) + 1 /\ DOMAIN Rest' = 1..Len(Rest) + 1
      /\ \A i \in 1..Len(Rest) : Rest'[i] = Rest[i]
      /\ Rest'[Len(Rest) + 1] = x
  <2>1. ASSUME NEW S, NEW b \in Seq(S), NEW w \in Seq(S), NEW y \in S
        PROVE  /\ Len(b \o Append(w, y)) = Len(b \o w) + 1
               /\ DOMAIN (b \o Append(w, y)) = 1..Len(b \o w) + 1
               /\ \A i \in 1..Len(b \o w) : (b \o Append(w, y))[i] = (b \o w)[i]
               /\ (b \o Append(w, y))[Len(b \o w) + 1] = y
    OBVIOUS
  <2>2. QED
    BY <1>1, <1>2, <2>1 DEF Rest
<1>4. Starts' = {i \in DOMAIN Rest' : Rest'[i].kind = "status"}
  BY DEF Starts
<1>5. Starts = {i \in 1..Len(Rest) : Rest[i].kind = "status"} /\ Len(Rest) \in Nat
  BY RestFacts DEF Starts
<1>6. \A i : i \in Starts' <=> i \in Starts \/ (i = Len(Rest) + 1 /\ x.kind = "status")
  BY <1>3, <1>4, <1>5
<1>7. x.kind = "status" => Starts' = Starts \cup {Len(Rest) + 1}
  BY <1>6
<1>8. x.kind # "status" => Starts' = Starts
  BY <1>6
<1>9. QED
  BY <1>1, <1>2, <1>3, <1>7, <1>8

LEMMA SendStatusFramed ==
  ASSUME FrameInv, NEW n \in MessageSizes, MidiIn!SendStatus(n)
  PROVE  FrameInv'
<1> DEFINE x == MidiIn!Byte("status", count + 1)
           p == Len(Rest) + 1
<1> USE DEF FrameInv
<1>1. /\ togo = 0 /\ count < MaxIn /\ count' = count + 1 /\ togo' = n - 1
      /\ size' = Append(size, n) /\ wire' = Append(wire, x)
      /\ UNCHANGED <<extra, hit, cut, m_midiInBuffer, popping, relayed>>
  BY DEF MidiIn!SendStatus
<1>2. n \in 2..3
  BY MidiInAssumption
<1>3. x \in MidiIn!Bytes /\ x.kind = "status" /\ x.msg = count + 1
  BY <1>1, SizeFacts, MidiInAssumption DEF MidiIn!Bytes, MidiIn!Byte
<1>4. /\ wire' \in Seq(MidiIn!Bytes)
      /\ Len(Rest') = p /\ \A i \in 1..Len(Rest) : Rest'[i] = Rest[i]
      /\ Rest'[p] = x /\ Starts' = Starts \cup {p}
  BY <1>1, <1>3, ByteSent
<1>5. /\ size' \in Seq(MessageSizes) /\ Len(size') = count + 1 /\ size'[count + 1] = n
      /\ \A m \in 1..count : size'[m] = size[m]
  BY <1>1, SizeFacts
<1>6. /\ Len(Rest) \in Nat /\ Starts \subseteq 1..Len(Rest) /\ p \notin Starts
      /\ \A i \in Starts : Rest'[i] = Rest[i]
  BY <1>4, RestFacts
<1> HIDE DEF x, p
<1>7. SenderInv'
  <2>1. hit \cup cut \subseteq 1..count
    BY DEF SenderInv, MidiIn!TypeOK
  <2>2. MidiIn!TypeOK'
    BY <1>1, <1>2, <1>4, <1>5, <2>1, SizeFacts, MidiInAssumption DEF SenderInv, MidiIn!TypeOK
  <2>3. QED
    BY <1>1, <1>2, <1>5, <2>1, <2>2, SizeFacts DEF SenderInv
<1>8. StartsInv'
  <2>1. \A i \in Starts : Rest'[i].msg = Rest[i].msg /\ Rest[i].msg \in 1..count /\ i < p
    BY <1>6 DEF StartsInv, p
  <2>2. Rest'[p].msg = count + 1 /\ count \in Nat /\ p \in Nat
    BY <1>3, <1>4, <1>6, SizeFacts DEF p
  <2>3. \A i \in Starts' : Rest'[i].msg \in 1..count'
    <3>1. \A i \in Starts : Rest'[i].msg \in 1..count + 1
      BY <2>1, <2>2
    <3>2. Rest'[p].msg \in 1..count + 1
      BY <2>2
    <3>3. QED
      BY <1>1, <1>4, <3>1, <3>2
  <2>4. \A i, j \in Starts' : i < j => Rest'[i].msg < Rest'[j].msg
    <3>1. \A i, j \in Starts : i < j => Rest'[i].msg < Rest'[j].msg
      BY <2>1 DEF StartsInv
    <3>2. \A i \in Starts : i < p /\ Rest'[i].msg < Rest'[p].msg
      BY <2>1, <2>2
    <3>3. \A i \in Starts : ~(p < i)
      BY <1>6, <2>2 DEF p
    <3>4. QED
      BY <1>4, <2>2, <3>1, <3>2, <3>3
  <2>5. \A i \in Starts' : i <= p /\ Rest'[p].msg = count'
    BY <1>1, <1>4, <1>6, <2>1, <2>2
  <2>6. QED
    BY <1>4, <2>3, <2>4, <2>5 DEF StartsInv
<1>9. SpansInv'
  <2> SUFFICES ASSUME NEW i \in Starts', NEW j \in Starts', i < j, Rest'[j].msg - 1 \notin cut
               PROVE  i + size'[Rest'[i].msg] <= j
    BY <1>1 DEF SpansInv
  <2>1. i \in Starts /\ Rest[i].msg \in 1..count
    <3>1. p \in Nat /\ j \in 1..p
      BY <1>4, <1>6 DEF p
    <3>2. i # p
      BY <3>1
    <3>3. QED
      BY <1>4, <3>2 DEF StartsInv
  <2>2. CASE j \in Starts
    BY <1>5, <1>6, <2>1, <2>2 DEF SpansInv
  <2>3. CASE j = p
    <3>1. count \notin cut /\ size[Rest[i].msg] \in 2..3
      BY <1>3, <1>4, <2>1, <2>3, SizeFacts
    <3>2. PICK q \in Starts : i <= q /\ Rest[q].msg = count
      BY <2>1 DEF StartsInv
    <3>3. q + SoFar(count) <= Len(Rest) + 1 /\ SoFar(count) = size[count] /\ count \in 1..count
      BY <1>1, <2>1, <3>1, <3>2, SizeFacts DEF BytesInv, SoFar
    <3>4. i + size[Rest[i].msg] <= p
      <4>1. CASE i = q
        BY <1>6, <3>2, <3>3, <4>1 DEF p
      <4>2. CASE i < q
        BY <1>6, <2>1, <3>1, <3>2, <3>3, <4>2, SizeFacts DEF p
      <4>3. QED
        BY <1>6, <2>1, <3>2, <4>1, <4>2
    <3>5. QED
      BY <1>5, <1>6, <2>1, <2>3, <3>4
  <2>4. QED
    BY <1>4, <2>2, <2>3
<1>10. BytesInv'
  <2> SUFFICES ASSUME NEW i \in Starts'
               PROVE  /\ Rest'[i].msg = count' /\ count' \notin cut => i + SoFar(count)' <= Len(Rest') + 1
                      /\ Rest'[i].msg \notin hit \cup cut =>
                           /\ i + SoFar(Rest[i].msg)' <= Len(Rest') + 1
                           /\ \A j \in 1..SoFar(Rest[i].msg)' - 1 :
                                Rest'[i + j] = MidiIn!Byte("data", Rest'[i].msg)
                           /\ Rest'[i].msg = count' /\ togo' > 0 => i + SoFar(count)' = Len(Rest') + 1
    BY <1>1 DEF BytesInv
  <2>1. CASE i \in Starts
    <3>1. Rest'[i] = Rest[i] /\ Rest[i].msg \in 1..count /\ i \in 1..Len(Rest)
      BY <1>6, <2>1 DEF StartsInv
    <3>2. SoFar(Rest[i].msg)' = SoFar(Rest[i].msg) /\ SoFar(Rest[i].msg) \in 1..3
      BY <1>1, <1>5, <3>1, SizeFacts DEF SoFar
    <3>3. Rest'[i].msg # count'
      BY <1>1, <3>1, SizeFacts
    <3> DEFINE m == Rest[i].msg
    <3>4. m \notin hit \cup cut =>
            /\ i + SoFar(m) <= Len(Rest) + 1
            /\ \A j \in 1..SoFar(m) - 1 : Rest[i + j] = MidiIn!Byte("data", m)
      BY <2>1 DEF BytesInv
    <3>5. ASSUME m \notin hit \cup cut, NEW j \in 1..SoFar(m) - 1
          PROVE  Rest'[i + j] = MidiIn!Byte("data", m)
      <4>1. i + j \in 1..Len(Rest)
        BY <1>6, <3>1, <3>2, <3>4, <3>5
      <4>2. QED
        BY <1>4, <3>4, <3>5, <4>1
    <3>6. m \notin hit \cup cut => i + SoFar(m) <= Len(Rest') + 1
      BY <1>4, <1>6, <3>1, <3>2, <3>4 DEF p
    <3>7. QED
      BY <3>1, <3>2, <3>3, <3>5, <3>6
  <2>2. CASE i = p
    <3>1. Rest'[i].msg = count' /\ SoFar(count)' = 1
      BY <1>1, <1>2, <1>3, <1>4, <1>5, <2>2 DEF SoFar
    <3>2. SoFar(Rest[i].msg)' = 1
      BY <3>1 DEF SoFar
    <3>3. QED
      BY <1>4, <1>6, <2>2, <3>1, <3>2 DEF p
  <2>3. QED
    BY <1>4, <2>1, <2>2
<1>11. RelayedInv'
  <2>1. \A k \in DOMAIN relayed : relayed[k][1].msg \in 1..count
    BY DEF RelayedInv
  <2>2. \A m \in 1..count : MidiIn!Message(m)' = MidiIn!Message(m)
    BY <1>5 DEF MidiIn!Message
  <2>3. MidiIn!RelayedInOrder'
    BY <1>1 DEF RelayedInv, MidiIn!RelayedInOrder
  <2>4. \A k \in DOMAIN relayed : /\ relayed[k][1].kind = "status"
                                  /\ relayed[k][1].msg \in 1..count'
    BY <1>1, SizeFacts DEF RelayedInv
  <2>5. \A k \in DOMAIN relayed : relayed[k][1].msg \notin hit \cup cut =>
          relayed[k] = MidiIn!Message(relayed[k][1].msg)
    BY DEF RelayedInv
  <2>6. \A k \in DOMAIN relayed : relayed[k][1].msg \notin hit \cup cut =>
          relayed[k] = MidiIn!Message(relayed[k][1].msg)'
    BY <1>1, <2>1, <2>2, <2>5
  <2>7. \A k \in DOMAIN relayed, i \in Starts' : relayed[k][1].msg < Rest'[i].msg
    <3>1. \A k \in DOMAIN relayed, i \in Starts : relayed[k][1].msg < Rest'[i].msg
      BY <1>6 DEF RelayedInv
    <3>2. Rest'[p].msg = count + 1
      BY <1>3, <1>4
    <3>3. QED
      BY <1>4, <2>1, <3>1, <3>2, SizeFacts
  <2>8. QED
    BY <1>1, <2>3, <2>4, <2>6, <2>7 DEF RelayedInv
<1>12. NoneIsMissing'
  <2> SUFFICES ASSUME NEW m \in 1..count + 1, m - 1 \notin cut
               PROVE  \/ \E i \in Starts' : Rest'[i].msg = m
                      \/ \E k \in DOMAIN relayed : relayed[k][1].msg = m
    BY <1>1 DEF NoneIsMissing
  <2>1. CASE m = count + 1
    BY <1>3, <1>4, <2>1
  <2>2. CASE m \in 1..count
    BY <1>4, <1>6, <2>2 DEF NoneIsMissing
  <2>3. QED
    BY <2>1, <2>2, SizeFacts
<1>13. BufferInv'
  <2> SUFFICES ASSUME ~popping, m_midiInBuffer # << >>
               PROVE  /\ m_midiInBuffer[1].kind = "status"
                      /\ Len(m_midiInBuffer) < size'[m_midiInBuffer[1].msg]
    BY <1>1 DEF BufferInv
  <2>1. m_midiInBuffer[1].kind = "status" /\ Len(m_midiInBuffer) < size[m_midiInBuffer[1].msg]
    BY DEF BufferInv
  <2>2. 1 \in Starts /\ Rest[1] = m_midiInBuffer[1]
    BY <2>1, BufferStarts
  <2>3. QED
    BY <1>5, <2>1, <2>2 DEF StartsInv
<1>14. QED
  BY <1>7, <1>8, <1>9, <1>10, <1>11, <1>12, <1>13

\* A byte that begins no message leaves those that wait where they are.
LEMMA OthersStay ==
  ASSUME FrameInv, NEW x \in MidiIn!Bytes, x.kind # "status", wire' = Append(wire, x),
         UNCHANGED <<count, size, m_midiInBuffer, popping, relayed, cut>>,
         hit \subseteq hit'
  PROVE  /\ StartsInv' /\ SpansInv' /\ RelayedInv' /\ NoneIsMissing' /\ BufferInv'
         /\ Len(Rest') = Len(Rest) + 1 /\ Rest'[Len(Rest) + 1] = x
         /\ \A i \in 1..Len(Rest) : Rest'[i] = Rest[i]
         /\ Starts' = Starts /\ Starts \subseteq 1..Len(Rest) /\ Len(Rest) \in Nat
         /\ wire' \in Seq(MidiIn!Bytes)
<1> USE DEF FrameInv
<1>1. /\ wire' \in Seq(MidiIn!Bytes)
      /\ Len(Rest') = Len(Rest) + 1 /\ \A i \in 1..Len(Rest) : Rest'[i] = Rest[i]
      /\ Rest'[Len(Rest) + 1] = x /\ Starts' = Starts
  BY ByteSent
<1>2. /\ Len(Rest) \in Nat /\ Starts \subseteq 1..Len(Rest)
      /\ \A i \in Starts : Rest'[i] = Rest[i]
  BY <1>1, RestFacts
<1>3. StartsInv'
  BY <1>1, <1>2 DEF StartsInv
<1>4. SpansInv'
  BY <1>1, <1>2 DEF SpansInv
<1>5. RelayedInv'
  <2>1. \A m : MidiIn!Message(m)' = MidiIn!Message(m)
    BY DEF MidiIn!Message
  <2>2. MidiIn!RelayedInOrder'
    BY DEF RelayedInv, MidiIn!RelayedInOrder
  <2>3. \A k \in DOMAIN relayed : relayed[k][1].msg \notin hit' \cup cut =>
          relayed[k] = MidiIn!Message(relayed[k][1].msg)'
    BY <2>1 DEF RelayedInv
  <2>4. QED
    BY <1>1, <1>2, <2>2, <2>3 DEF RelayedInv
<1>6. NoneIsMissing'
  BY <1>1, <1>2 DEF NoneIsMissing
<1>7. BufferInv'
  BY DEF BufferInv
<1>8. QED
  BY <1>1, <1>2, <1>3, <1>4, <1>5, <1>6, <1>7

LEMMA SendDataFramed ==
  ASSUME FrameInv, MidiIn!SendData
  PROVE  FrameInv'
<1> DEFINE x == MidiIn!Byte("data", count)
<1> USE DEF FrameInv
<1>1. /\ togo > 0 /\ togo' = togo - 1 /\ wire' = Append(wire, x)
      /\ UNCHANGED <<count, extra, hit, cut, m_midiInBuffer, popping, relayed, size>>
  BY DEF MidiIn!SendData
<1>2. x \in MidiIn!Bytes /\ x.kind # "status"
  BY DEF SenderInv, MidiIn!TypeOK, MidiIn!Bytes, MidiIn!Byte
<1>3. /\ StartsInv' /\ SpansInv' /\ RelayedInv' /\ NoneIsMissing' /\ BufferInv'
      /\ Len(Rest') = Len(Rest) + 1 /\ Rest'[Len(Rest) + 1] = x
      /\ \A i \in 1..Len(Rest) : Rest'[i] = Rest[i]
      /\ Starts' = Starts /\ Starts \subseteq 1..Len(Rest) /\ Len(Rest) \in Nat
      /\ wire' \in Seq(MidiIn!Bytes)
  BY <1>1, <1>2, OthersStay
<1> HIDE DEF x
<1>4. SenderInv'
  <2>1. MidiIn!TypeOK'
    BY <1>1, <1>3, SizeFacts DEF SenderInv, MidiIn!TypeOK
  <2>2. QED
    BY <1>1, <2>1, SizeFacts DEF SenderInv
<1>5. BytesInv'
  <2> SUFFICES ASSUME NEW i \in Starts
               PROVE  /\ Rest'[i].msg = count /\ count \notin cut =>
                           i + SoFar(count)' <= Len(Rest') + 1
                      /\ Rest'[i].msg \notin hit \cup cut =>
                           /\ i + SoFar(Rest[i].msg)' <= Len(Rest') + 1
                           /\ \A j \in 1..SoFar(Rest[i].msg)' - 1 :
                                Rest'[i + j] = MidiIn!Byte("data", Rest'[i].msg)
                           /\ Rest'[i].msg = count /\ togo' > 0 =>
                                i + SoFar(count)' = Len(Rest') + 1
    BY <1>1, <1>3 DEF BytesInv
  <2> DEFINE m == Rest[i].msg
  <2>0. i \in 1..Len(Rest) /\ Rest'[i].msg = m /\ m \in 1..count
    BY <1>3 DEF StartsInv
  <2>1. SoFar(m) \in 1..3 /\ SoFar(Rest[i].msg)' = IF m = count THEN size[m] - togo' ELSE size[m]
    BY <1>1, <2>0, SizeFacts DEF SoFar
  <2>a. /\ m = count /\ count \notin cut => i + SoFar(count) <= Len(Rest) + 1
        /\ m \notin hit \cup cut =>
             /\ i + SoFar(m) <= Len(Rest) + 1
             /\ \A j \in 1..SoFar(m) - 1 : Rest[i + j] = MidiIn!Byte("data", m)
             /\ m = count => i + SoFar(count) = Len(Rest) + 1
    BY <1>1 DEF BytesInv
  <2> HIDE DEF m
  <2>2. CASE m # count
    <3>1. SoFar(Rest[i].msg)' = SoFar(m)
      BY <2>1, <2>2 DEF SoFar
    <3>3. ASSUME m \notin hit \cup cut, NEW j \in 1..SoFar(m) - 1
          PROVE  Rest'[i + j] = MidiIn!Byte("data", m)
      <4>1. i + j \in 1..Len(Rest)
        BY <1>3, <2>0, <2>1, <2>a, <3>3
      <4>2. QED
        BY <1>3, <2>a, <3>3, <4>1
    <3>4. QED
      BY <1>3, <2>0, <2>1, <2>2, <2>a, <3>1, <3>3
  <2>3. CASE m = count
    <3>1. SoFar(Rest[i].msg)' = SoFar(m) + 1 /\ SoFar(count)' = SoFar(m) + 1
      BY <1>1, <2>0, <2>1, <2>3, SizeFacts DEF SoFar
    <3>2. /\ count \notin cut => i + SoFar(m) <= Len(Rest) + 1
          /\ m \notin hit \cup cut => i + SoFar(m) = Len(Rest) + 1
      BY <2>3, <2>a
    <3>4. ASSUME m \notin hit \cup cut, NEW j \in 1..SoFar(m)
          PROVE  Rest'[i + j] = MidiIn!Byte("data", m)
      <4>1. CASE j = SoFar(m)
        BY <1>3, <2>0, <2>1, <2>3, <3>2, <3>4, <4>1 DEF x
      <4>2. CASE j # SoFar(m)
        <5>1. i + j \in 1..Len(Rest) /\ j \in 1..SoFar(m) - 1
          BY <1>3, <2>0, <2>1, <3>2, <3>4, <4>2
        <5>2. QED
          BY <1>3, <2>a, <3>4, <5>1
      <4>3. QED
        BY <4>1, <4>2
    <3>5. QED
      BY <1>3, <2>0, <2>1, <2>3, <3>1, <3>2, <3>4
  <2>4. QED
    BY <2>2, <2>3
<1>6. QED
  BY <1>3, <1>4, <1>5

LEMMA SendExtraFramed ==
  ASSUME FrameInv, MidiIn!SendExtra
  PROVE  FrameInv'
<1> USE DEF FrameInv
<1>1. PICK x \in MidiIn!Bytes :
        /\ wire' = Append(wire, x) /\ x.kind # "status"
        /\ hit \subseteq hit' /\ hit' \subseteq hit \cup {count}
        /\ togo > 0 => count \in hit'
  <2>1. MidiIn!Byte("system", 0) \in MidiIn!Bytes /\ MidiIn!Byte("data", 0) \in MidiIn!Bytes
    BY MidiInAssumption DEF MidiIn!Bytes, MidiIn!Byte
  <2>2. MidiIn!Byte("system", 0).kind # "status" /\ MidiIn!Byte("data", 0).kind # "status"
    BY DEF MidiIn!Byte
  <2>3. CASE /\ wire' = Append(wire, MidiIn!Byte("system", 0))
             /\ hit' = IF togo > 0 THEN hit \cup {count} ELSE hit
    BY <2>1, <2>2, <2>3
  <2>4. CASE togo = 0 /\ wire' = Append(wire, MidiIn!Byte("data", 0)) /\ hit' = hit
    BY <2>1, <2>2, <2>4
  <2>5. QED
    BY <2>3, <2>4 DEF MidiIn!SendExtra
<1>2. /\ extra < MaxExtra /\ extra' = extra + 1
      /\ UNCHANGED <<count, togo, cut, m_midiInBuffer, popping, relayed, size>>
  BY DEF MidiIn!SendExtra
<1>3. togo = 0 => hit' = hit
  BY DEF MidiIn!SendExtra
<1>4. /\ StartsInv' /\ SpansInv' /\ RelayedInv' /\ NoneIsMissing' /\ BufferInv'
      /\ Len(Rest') = Len(Rest) + 1
      /\ \A i \in 1..Len(Rest) : Rest'[i] = Rest[i]
      /\ Starts' = Starts /\ Starts \subseteq 1..Len(Rest) /\ Len(Rest) \in Nat
      /\ wire' \in Seq(MidiIn!Bytes)
  BY <1>1, <1>2, OthersStay
<1>5. SenderInv'
  <2>1. hit' \cup cut \subseteq 1..count
    BY <1>1, <1>3, SizeFacts DEF SenderInv, MidiIn!TypeOK
  <2>2. extra' \in 0..MaxExtra
    BY <1>2, SizeFacts, MidiInAssumption
  <2>3. MidiIn!TypeOK'
    BY <1>2, <1>4, <2>1, <2>2 DEF SenderInv, MidiIn!TypeOK
  <2>4. QED
    BY <1>2, <2>3 DEF SenderInv
<1>6. BytesInv'
  <2> SUFFICES ASSUME NEW i \in Starts
               PROVE  /\ Rest'[i].msg = count /\ count \notin cut =>
                           i + SoFar(count) <= Len(Rest') + 1
                      /\ Rest'[i].msg \notin hit' \cup cut =>
                           /\ i + SoFar(Rest'[i].msg) <= Len(Rest') + 1
                           /\ \A j \in 1..SoFar(Rest'[i].msg) - 1 :
                                Rest'[i + j] = MidiIn!Byte("data", Rest'[i].msg)
                           /\ Rest'[i].msg = count /\ togo > 0 =>
                                i + SoFar(count) = Len(Rest') + 1
    <3>1. \A m : SoFar(m)' = SoFar(m)
      BY <1>2 DEF SoFar
    <3>2. \A i \in Starts : SoFar(Rest[i].msg)' = SoFar(Rest'[i].msg)
      BY <1>2 DEF SoFar
    <3>3. SoFar(count)' = SoFar(count)
      BY <1>2 DEF SoFar
    <3>4. QED
      BY <1>2, <1>4, <3>2, <3>3 DEF BytesInv
  <2> DEFINE m == Rest[i].msg
  <2>1. i \in 1..Len(Rest) /\ Rest'[i].msg = m /\ m \in 1..count /\ SoFar(m) \in 1..3
    BY <1>4, SizeFacts DEF StartsInv
  <2>2. m = count /\ count \notin cut => i + SoFar(count) <= Len(Rest) + 1
    BY DEF BytesInv
  <2>3. m \notin hit \cup cut => /\ i + SoFar(m) <= Len(Rest) + 1
                                 /\ \A j \in 1..SoFar(m) - 1 : Rest[i + j] = MidiIn!Byte("data", m)
    BY DEF BytesInv
  <2>4. ASSUME m \notin hit \cup cut, NEW j \in 1..SoFar(m) - 1
        PROVE  Rest'[i + j] = MidiIn!Byte("data", m)
    <3>1. i + j \in 1..Len(Rest)
      BY <1>4, <2>1, <2>3, <2>4
    <3>2. QED
      BY <1>4, <2>3, <2>4, <3>1
  <2>5. m \notin hit' \cup cut => m \notin hit \cup cut /\ ~(m = count /\ togo > 0)
    BY <1>1
  <2>6. QED
    BY <1>4, <2>1, <2>2, <2>3, <2>4, <2>5
<1>7. QED
  BY <1>4, <1>5, <1>6

LEMMA SendCutFramed ==
  ASSUME FrameInv, MidiIn!SendCut
  PROVE  FrameInv'
<1> USE DEF FrameInv
<1>1. /\ togo > 0 /\ extra < MaxExtra /\ togo' = 0 /\ extra' = extra + 1 /\ cut' = cut \cup {count}
      /\ UNCHANGED <<count, hit, wire, m_midiInBuffer, popping, relayed, size>>
  BY DEF MidiIn!SendCut
<1>2. Rest' = Rest /\ Starts' = Starts
  BY <1>1 DEF Rest, Starts
<1>3. SenderInv'
  <2>1. hit \cup cut' \subseteq 1..count
    BY <1>1, SizeFacts DEF SenderInv, MidiIn!TypeOK
  <2>2. extra' \in 0..MaxExtra
    BY <1>1, SizeFacts, MidiInAssumption
  <2>3. MidiIn!TypeOK'
    BY <1>1, <2>1, <2>2 DEF SenderInv, MidiIn!TypeOK
  <2>4. QED
    BY <1>1, <2>3 DEF SenderInv
<1>4. StartsInv'
  BY <1>1, <1>2 DEF StartsInv
<1>5. SpansInv'
  BY <1>1, <1>2 DEF SpansInv
<1>6. BytesInv'
  <2>1. \A m : m # count => SoFar(m)' = SoFar(m)
    BY <1>1 DEF SoFar
  <2>2. count \in cut'
    BY <1>1
  <2>3. ASSUME NEW i \in Starts, Rest[i].msg \notin hit \cup cut'
        PROVE  /\ i + SoFar(Rest[i].msg)' <= Len(Rest) + 1
               /\ \A j \in 1..SoFar(Rest[i].msg)' - 1 :
                    Rest[i + j] = MidiIn!Byte("data", Rest[i].msg)
    <3>1. Rest[i].msg \notin hit \cup cut /\ Rest[i].msg # count
      BY <1>1, <2>3
    <3>2. SoFar(Rest[i].msg)' = SoFar(Rest[i].msg)
      BY <1>1, <1>2, <3>1 DEF SoFar
    <3>3. QED
      BY <3>1, <3>2 DEF BytesInv
  <2>4. QED
    BY <1>1, <1>2, <2>2, <2>3 DEF BytesInv
<1>7. RelayedInv'
  <2>1. \A m : MidiIn!Message(m)' = MidiIn!Message(m)
    BY <1>1 DEF MidiIn!Message
  <2>2. MidiIn!RelayedInOrder'
    BY <1>1 DEF RelayedInv, MidiIn!RelayedInOrder
  <2>3. \A k \in DOMAIN relayed : relayed[k][1].msg \notin hit \cup cut' =>
          relayed[k] = MidiIn!Message(relayed[k][1].msg)'
    BY <1>1, <2>1 DEF RelayedInv
  <2>4. QED
    BY <1>1, <1>2, <2>2, <2>3 DEF RelayedInv
<1>8. NoneIsMissing'
  BY <1>1, <1>2 DEF NoneIsMissing
<1>9. BufferInv'
  BY <1>1 DEF BufferInv
<1>10. QED
  BY <1>3, <1>4, <1>5, <1>6, <1>7, <1>8, <1>9

-----------------------------------------------------------------------------
(* The USB thread.                                                         *)

LEMMA ReceiveFramed ==
  ASSUME FrameInv, MidiIn!Receive
  PROVE  FrameInv'
<1> USE DEF FrameInv
<1>1. /\ m_midiInBuffer' = m_midiInBuffer \o wire /\ wire' = << >> /\ popping' = TRUE
      /\ UNCHANGED <<count, extra, togo, hit, cut, relayed, size>>
  BY DEF MidiIn!Receive
<1>2. Rest' = Rest /\ Starts' = Starts /\ m_midiInBuffer' \in Seq(MidiIn!Bytes)
      /\ wire' \in Seq(MidiIn!Bytes)
  <2>1. ASSUME NEW S, NEW b \in Seq(S), NEW w \in Seq(S)
        PROVE  (b \o w) \o << >> = b \o w /\ b \o w \in Seq(S) /\ << >> \in Seq(S)
    OBVIOUS
  <2>2. Rest' = Rest /\ m_midiInBuffer' \in Seq(MidiIn!Bytes) /\ wire' \in Seq(MidiIn!Bytes)
    BY <1>1, <2>1, RestFacts DEF Rest
  <2>3. QED
    BY <2>2 DEF Starts
<1>3. SenderInv'
  <2>1. MidiIn!TypeOK'
    <3>1. popping' \in BOOLEAN
      BY <1>1
    <3>2. QED
      BY <1>1, <1>2, <3>1 DEF SenderInv, MidiIn!TypeOK
  <2>2. QED
    BY <1>1, <2>1 DEF SenderInv
<1>4. StartsInv'
  BY <1>1, <1>2 DEF StartsInv
<1>5. SpansInv'
  BY <1>1, <1>2 DEF SpansInv
<1>6. BytesInv'
  BY <1>1, <1>2 DEF BytesInv, SoFar
<1>7. RelayedInv'
  BY <1>1, <1>2 DEF RelayedInv, MidiIn!RelayedInOrder, MidiIn!Message
<1>8. NoneIsMissing'
  BY <1>1, <1>2 DEF NoneIsMissing
<1>9. BufferInv'
  BY <1>1 DEF BufferInv
<1>10. QED
  BY <1>3, <1>4, <1>5, <1>6, <1>7, <1>8, <1>9

\* What is skipped has no status byte; what is left begins with one.
LEMMA SkipFacts ==
  ASSUME NEW b \in Seq(MidiIn!Bytes)
  PROVE  \E d \in 0..Len(b) :
           /\ MidiIn!Skip(b) = SubSeq(b, d + 1, Len(b))
           /\ \A i \in 1..d : b[i].kind # "status"
           /\ d < Len(b) => b[d + 1].kind = "status"
<1> DEFINE starts == {i \in DOMAIN b : b[i].kind = "status"}
<1>1. Len(b) \in Nat /\ DOMAIN b = 1..Len(b) /\ SubSeq(b, Len(b) + 1, Len(b)) = << >>
  OBVIOUS
<1>2. CASE starts = {}
  <2>1. MidiIn!Skip(b) = SubSeq(b, Len(b) + 1, Len(b))
    BY <1>1, <1>2 DEF MidiIn!Skip
  <2>2. QED
    BY <1>1, <1>2, <2>1
<1>3. CASE starts # {}
  <2>0. starts \subseteq Nat
    BY <1>1
  <2>1. \E i \in starts : \A j \in starts : i <= j
    BY <2>0, <1>3, LeastExists
  <2>2. PICK p : p = CHOOSE i \in starts : \A j \in starts : i <= j
    OBVIOUS
  <2>3. p \in starts /\ \A j \in starts : p <= j
    BY <2>1, <2>2
  <2>4. MidiIn!Skip(b) = SubSeq(b, p, Len(b))
    BY <1>3, <2>2 DEF MidiIn!Skip
  <2>5. p - 1 \in 0..Len(b) /\ (p - 1) + 1 = p
    BY <1>1, <2>3
  <2>6. \A i \in 1..p - 1 : b[i].kind # "status"
    BY <1>1, <2>3
  <2>7. b[p].kind = "status"
    BY <2>3
  <2>8. QED
    BY <2>4, <2>5, <2>6, <2>7
<1>4. QED
  BY <1>2, <1>3

\* What is behind the first n of a sequence.
LEMMA Suffix ==
  ASSUME NEW S, NEW b \in Seq(S), NEW n \in 0..Len(b)
  PROVE  /\ SubSeq(b, n + 1, Len(b)) \in Seq(S) /\ Len(SubSeq(b, n + 1, Len(b))) = Len(b) - n
         /\ \A i \in 1..Len(b) - n : SubSeq(b, n + 1, Len(b))[i] = b[i + n]
OBVIOUS

\* Two sequences with the same items are one.
LEMMA SameItems ==
  ASSUME NEW S, NEW u \in Seq(S), NEW v \in Seq(S), Len(u) = Len(v),
         \A i \in 1..Len(v) : u[i] = v[i]
  PROVE  u = v
<1>1. u = [i \in 1..Len(u) |-> u[i]] /\ v = [i \in 1..Len(v) |-> v[i]]
  OBVIOUS
<1>2. QED
  BY <1>1

\* What is taken off the front leaves the bytes behind it as they are.
LEMMA FrontTaken ==
  ASSUME SenderInv, NEW e \in 0..Len(m_midiInBuffer), wire' = wire,
         m_midiInBuffer' = SubSeq(m_midiInBuffer, e + 1, Len(m_midiInBuffer))
  PROVE  /\ m_midiInBuffer' \in Seq(MidiIn!Bytes)
         /\ Len(m_midiInBuffer') = Len(m_midiInBuffer) - e
         /\ \A i \in 1..Len(m_midiInBuffer) - e : m_midiInBuffer'[i] = m_midiInBuffer[i + e]
         /\ Len(Rest') = Len(Rest) - e /\ e <= Len(Rest)
         /\ \A i \in 1..Len(Rest) - e : Rest'[i] = Rest[i + e]
         /\ \A i : i \in Starts' <=> i \in 1..Len(Rest) - e /\ i + e \in Starts
         /\ \A i \in Starts : i > e => i - e \in Starts' /\ Rest'[i - e] = Rest[i]
<1>1. m_midiInBuffer \in Seq(MidiIn!Bytes) /\ wire \in Seq(MidiIn!Bytes)
  BY RestFacts
<1>2. ASSUME NEW S, NEW b \in Seq(S), NEW w \in Seq(S), NEW n \in 0..Len(b),
             NEW c, c = SubSeq(b, n + 1, Len(b))
      PROVE  /\ c \in Seq(S) /\ Len(c) = Len(b) - n
             /\ \A i \in 1..Len(b) - n : c[i] = b[i + n]
             /\ Len(c \o w) = Len(b \o w) - n /\ n <= Len(b \o w) /\ DOMAIN (c \o w) = 1..Len(b \o w) - n
             /\ \A i \in 1..Len(b \o w) - n : (c \o w)[i] = (b \o w)[i + n]
  <2>1. c \in Seq(S) /\ Len(c) = Len(b) - n /\ Len(b) \in Nat /\ Len(w) \in Nat
    BY <1>2, Suffix
  <2>2. \A i \in 1..Len(b) - n : c[i] = b[i + n]
    BY <1>2, Suffix
  <2>a. /\ Len(b \o w) = Len(b) + Len(w)
        /\ \A i \in 1..Len(b \o w) : /\ i <= Len(b) => (b \o w)[i] = b[i]
                                    /\ i > Len(b) => (b \o w)[i] = w[i - Len(b)]
    BY Concatenated
  <2>b. /\ Len(c \o w) = Len(c) + Len(w) /\ DOMAIN (c \o w) = 1..Len(c \o w)
        /\ \A i \in 1..Len(c \o w) : /\ i <= Len(c) => (c \o w)[i] = c[i]
                                    /\ i > Len(c) => (c \o w)[i] = w[i - Len(c)]
    <3>1. c \in Seq(S)
      BY <2>1
    <3>2. QED
      BY <3>1, Concatenated
  <2>4. ASSUME NEW i \in 1..Len(b \o w) - n
        PROVE  (c \o w)[i] = (b \o w)[i + n]
    <3>0. i \in 1..Len(c \o w) /\ i + n \in 1..Len(b \o w) /\ n \in Nat
      BY <2>1, <2>a, <2>b
    <3>1. CASE i <= Len(c)
      <4>1. i + n <= Len(b) /\ i \in 1..Len(b) - n
        BY <2>1, <3>0, <3>1
      <4>2. QED
        BY <2>2, <2>a, <2>b, <3>0, <3>1, <4>1
    <3>2. CASE i > Len(c)
      <4>1. i + n > Len(b) /\ i + n - Len(b) = i - Len(c)
        BY <2>1, <3>0, <3>2
      <4>2. (c \o w)[i] = w[i - Len(c)]
        BY <2>b, <3>0, <3>2
      <4>3. (b \o w)[i + n] = w[i + n - Len(b)]
        BY <2>a, <3>0, <4>1
      <4>4. QED
        BY <4>1, <4>2, <4>3
    <3>3. QED
      BY <2>1, <3>0, <3>1, <3>2
  <2>5. n <= Len(b \o w) /\ Len(c \o w) = Len(b \o w) - n
    BY <2>1, <2>a, <2>b
  <2>6. QED
    BY <2>1, <2>2, <2>a, <2>b, <2>4, <2>5
<1>3. /\ m_midiInBuffer' \in Seq(MidiIn!Bytes)
      /\ Len(m_midiInBuffer') = Len(m_midiInBuffer) - e
      /\ \A i \in 1..Len(m_midiInBuffer) - e : m_midiInBuffer'[i] = m_midiInBuffer[i + e]
      /\ Len(Rest') = Len(Rest) - e /\ e <= Len(Rest) /\ DOMAIN Rest' = 1..Len(Rest) - e
      /\ \A i \in 1..Len(Rest) - e : Rest'[i] = Rest[i + e]
  BY <1>1, <1>2 DEF Rest
<1>4. DOMAIN Rest = 1..Len(Rest) /\ Len(Rest) \in Nat /\ e \in Nat
  BY RestFacts
<1>5. \A i : i \in Starts' <=> i \in 1..Len(Rest) - e /\ Rest'[i].kind = "status"
  BY <1>3 DEF Starts
<1>6. \A i : i \in Starts <=> i \in 1..Len(Rest) /\ Rest[i].kind = "status"
  BY <1>4 DEF Starts
<1>7. \A i : i \in Starts' <=> i \in 1..Len(Rest) - e /\ i + e \in Starts
  <2>1. \A i \in 1..Len(Rest) - e : i + e \in 1..Len(Rest)
    BY <1>3, <1>4
  <2>2. \A i \in 1..Len(Rest) - e : Rest'[i].kind = "status" <=> i + e \in Starts
    BY <1>3, <1>6, <2>1
  <2>3. QED
    BY <1>5, <2>2
<1>8. \A i \in Starts : i > e => i - e \in Starts' /\ Rest'[i - e] = Rest[i]
  <2> SUFFICES ASSUME NEW i \in Starts, i > e PROVE i - e \in Starts' /\ Rest'[i - e] = Rest[i]
    OBVIOUS
  <2>1. i \in 1..Len(Rest) /\ i - e \in 1..Len(Rest) - e /\ (i - e) + e = i
    BY <1>4, <1>6
  <2>2. QED
    BY <1>3, <1>7, <2>1
<1>9. QED
  BY <1>3, <1>7, <1>8

\* What is taken off, up to the next byte that begins a message, leaves the rest in shape.
LEMMA RestStays ==
  ASSUME FrameInv, NEW e \in 0..Len(m_midiInBuffer),
         m_midiInBuffer' = SubSeq(m_midiInBuffer, e + 1, Len(m_midiInBuffer)),
         UNCHANGED <<count, extra, togo, hit, cut, wire, size>>
  PROVE  StartsInv' /\ SpansInv' /\ BytesInv'
<1> USE DEF FrameInv
<1>1. /\ Len(Rest') = Len(Rest) - e /\ e <= Len(Rest)
      /\ \A i \in 1..Len(Rest) - e : Rest'[i] = Rest[i + e]
      /\ \A i : i \in Starts' <=> i \in 1..Len(Rest) - e /\ i + e \in Starts
      /\ \A i \in Starts : i > e => i - e \in Starts' /\ Rest'[i - e] = Rest[i]
  BY FrontTaken
<1>2. Len(Rest) \in Nat /\ Starts \subseteq 1..Len(Rest) /\ e \in Nat
  BY RestFacts
<1>3. \A i \in Starts' : /\ i \in Nat /\ i + e \in Starts /\ Rest'[i] = Rest[i + e]
                         /\ Rest'[i].msg \in 1..count /\ i \in 1..Len(Rest) - e
  <2> SUFFICES ASSUME NEW i \in Starts'
               PROVE  /\ i \in Nat /\ i + e \in Starts /\ Rest'[i] = Rest[i + e]
                      /\ Rest'[i].msg \in 1..count /\ i \in 1..Len(Rest) - e
    OBVIOUS
  <2>1. i \in 1..Len(Rest) - e /\ i + e \in Starts
    BY <1>1
  <2>2. Rest'[i] = Rest[i + e] /\ i \in Nat
    BY <1>1, <2>1
  <2>3. QED
    BY <2>1, <2>2 DEF StartsInv
<1>4. StartsInv'
  <2>1. ASSUME NEW i \in Starts', NEW j \in Starts', i < j
        PROVE  Rest'[i].msg < Rest'[j].msg
    <3>1. i + e < j + e
      BY <1>2, <1>3, <2>1
    <3>2. QED
      BY <1>3, <3>1 DEF StartsInv
  <2>2. ASSUME NEW i \in Starts'
        PROVE  \E j \in Starts' : i <= j /\ Rest'[j].msg = count
    <3>1. PICK q \in Starts : i + e <= q /\ Rest[q].msg = count
      BY <1>3 DEF StartsInv
    <3>2. q > e /\ i <= q - e
      BY <1>1, <1>2, <1>3, <3>1
    <3>3. QED
      BY <1>1, <3>1, <3>2
  <2>3. QED
    BY <1>3, <2>1, <2>2 DEF StartsInv
<1>5. SpansInv'
  <2> SUFFICES ASSUME NEW i \in Starts', NEW j \in Starts', i < j, Rest'[j].msg - 1 \notin cut
               PROVE  i + size[Rest'[i].msg] <= j
    BY DEF SpansInv
  <2>1. i + e < j + e /\ i + e \in Starts /\ j + e \in Starts
    BY <1>2, <1>3
  <2>2. (i + e) + size[Rest[i + e].msg] <= j + e
    BY <1>3, <2>1 DEF SpansInv
  <2>3. size[Rest'[i].msg] \in 2..3
    BY <1>3, SizeFacts
  <2>4. Rest'[i] = Rest[i + e] /\ i \in Nat /\ j \in Nat /\ e \in Nat
    BY <1>2, <1>3
  <2> DEFINE s == size[Rest'[i].msg]
  <2>5. (i + e) + s <= j + e /\ s \in 2..3
    BY <2>2, <2>3, <2>4
  <2> HIDE DEF s
  <2>6. i + s <= j
    BY <2>4, <2>5
  <2>7. QED
    BY <2>6 DEF s
<1>6. BytesInv'
  <2>0. \A i \in Starts' : SoFar(Rest[i].msg)' = SoFar(Rest'[i].msg)
    BY DEF SoFar
  <2>1. SoFar(count)' = SoFar(count)
    BY DEF SoFar
  <2> SUFFICES ASSUME NEW i \in Starts'
               PROVE  /\ Rest'[i].msg = count /\ count \notin cut => i + SoFar(count) <= Len(Rest') + 1
                      /\ Rest'[i].msg \notin hit \cup cut =>
                           /\ i + SoFar(Rest'[i].msg) <= Len(Rest') + 1
                           /\ \A j \in 1..SoFar(Rest'[i].msg) - 1 :
                                Rest'[i + j] = MidiIn!Byte("data", Rest'[i].msg)
                           /\ Rest'[i].msg = count /\ togo > 0 => i + SoFar(count) = Len(Rest') + 1
    BY <2>0, <2>1 DEF BytesInv
  <2> DEFINE m == Rest'[i].msg
  <2>2. i \in Nat /\ i + e \in Starts /\ m = Rest[i + e].msg /\ m \in 1..count /\ SoFar(m) \in 1..3
        /\ i \in 1..Len(Rest) - e
    BY <1>1, <1>3, SizeFacts
  <2>3. /\ m = count /\ count \notin cut => (i + e) + SoFar(count) <= Len(Rest) + 1
        /\ m \notin hit \cup cut =>
             /\ (i + e) + SoFar(m) <= Len(Rest) + 1
             /\ \A j \in 1..SoFar(m) - 1 : Rest[(i + e) + j] = MidiIn!Byte("data", m)
             /\ m = count /\ togo > 0 => (i + e) + SoFar(count) = Len(Rest) + 1
    BY <2>2 DEF BytesInv
  <2> HIDE DEF m
  <2>4. ASSUME m \notin hit \cup cut, NEW j \in 1..SoFar(m) - 1
        PROVE  Rest'[i + j] = MidiIn!Byte("data", m)
    <3>0. (i + e) + SoFar(m) <= Len(Rest) + 1
      BY <2>3, <2>4
    <3>1. i + j \in 1..Len(Rest) - e /\ (i + j) + e = (i + e) + j
      <4>1. ASSUME NEW a \in Nat \ {0}, NEW s \in 1..3, NEW b \in 1..s - 1, NEW l \in Nat,
                   NEW f \in Nat, (a + f) + s <= l + 1
            PROVE  a + b \in 1..l - f /\ (a + b) + f = (a + f) + b
        BY <4>1
      <4>2. i \in Nat \ {0}
        BY <2>2
      <4>3. QED
        BY <1>2, <2>2, <2>4, <3>0, <4>1, <4>2
    <3>2. QED
      BY <1>1, <2>3, <2>4, <3>1
  <2>5. /\ m = count /\ count \notin cut => i + SoFar(count) <= Len(Rest') + 1
        /\ m \notin hit \cup cut =>
             /\ i + SoFar(m) <= Len(Rest') + 1
             /\ m = count /\ togo > 0 => i + SoFar(count) = Len(Rest') + 1
    <3>0. Len(Rest') = Len(Rest) - e /\ Len(Rest) \in Nat /\ e \in Nat /\ i \in Nat
      BY <1>1, <1>2, <2>2
    <3>1. \A n \in 1..3 : /\ (i + e) + n <= Len(Rest) + 1 => i + n <= Len(Rest') + 1
                          /\ (i + e) + n = Len(Rest) + 1 => i + n = Len(Rest') + 1
      BY <3>0
    <3>2. m = count => SoFar(count) \in 1..3
      BY <2>2
    <3>3. QED
      BY <2>2, <2>3, <3>1, <3>2
  <2>6. QED
    BY <2>4, <2>5 DEF m
<1>7. QED
  BY <1>4, <1>5, <1>6

\* The buffer as popCompleteMidiMsg() finds it: d bytes to skip, then a status byte.
Skips(d) ==
  /\ MidiIn!Skip(m_midiInBuffer) = SubSeq(m_midiInBuffer, d + 1, Len(m_midiInBuffer))
  /\ \A i \in 1..d : m_midiInBuffer[i].kind # "status"
  /\ d < Len(m_midiInBuffer) => m_midiInBuffer[d + 1].kind = "status"

\* The status byte behind what is skipped, and what is in front.
LEMMA SkippedFacts ==
  ASSUME FrameInv, NEW d \in 0..Len(m_midiInBuffer), Skips(d),
         NEW front, front = MidiIn!Skip(m_midiInBuffer)
  PROVE  /\ front \in Seq(MidiIn!Bytes) /\ Len(front) = Len(m_midiInBuffer) - d
         /\ \A i \in 1..Len(front) : front[i] = Rest[i + d]
         /\ \A i \in Starts : i > d
         /\ front # << >> => /\ d + 1 \in Starts /\ Rest[d + 1].msg \in 1..count
                             /\ MidiIn!ExpectedSize(front) = size[Rest[d + 1].msg]
                             /\ front[1].kind = "status" /\ front[1] = Rest[d + 1]
                             /\ d + 1 <= Len(m_midiInBuffer)
<1> USE DEF FrameInv
<1>1. m_midiInBuffer \in Seq(MidiIn!Bytes) /\ Len(m_midiInBuffer) \in Nat /\ d \in Nat
  BY RestFacts
<1>2. front = SubSeq(m_midiInBuffer, d + 1, Len(m_midiInBuffer))
  BY DEF Skips
<1>3. /\ front \in Seq(MidiIn!Bytes) /\ Len(front) = Len(m_midiInBuffer) - d
      /\ \A i \in 1..Len(front) : front[i] = m_midiInBuffer[i + d]
  BY <1>1, <1>2
<1>4. \A i \in 1..Len(m_midiInBuffer) : i \in 1..Len(Rest) /\ Rest[i] = m_midiInBuffer[i]
  BY RestFacts
<1>5. \A i \in 1..Len(front) : i + d \in 1..Len(m_midiInBuffer)
  BY <1>1, <1>3
<1>6. \A i \in 1..Len(front) : front[i] = Rest[i + d]
  BY <1>3, <1>4, <1>5
<1>7. \A i \in Starts : i > d
  <2> SUFFICES ASSUME NEW i \in Starts, i <= d PROVE FALSE
    BY <1>1, RestFacts
  <2>1. i \in 1..d /\ i \in 1..Len(m_midiInBuffer)
    BY <1>1, RestFacts
  <2>2. m_midiInBuffer[i].kind = "status"
    BY <1>4, <2>1 DEF Starts
  <2>3. QED
    BY <2>1, <2>2 DEF Skips
<1>8. ASSUME front # << >>
      PROVE  /\ d + 1 \in Starts /\ Rest[d + 1].msg \in 1..count
             /\ MidiIn!ExpectedSize(front) = size[Rest[d + 1].msg]
             /\ front[1].kind = "status" /\ front[1] = Rest[d + 1] /\ d + 1 <= Len(m_midiInBuffer)
  <2>1. Len(front) >= 1 /\ d < Len(m_midiInBuffer) /\ d + 1 \in 1..Len(m_midiInBuffer)
    BY <1>1, <1>3, <1>8
  <2>2. Rest[d + 1] = m_midiInBuffer[d + 1] /\ front[1] = Rest[d + 1] /\ d + 1 \in 1..Len(Rest)
    BY <1>1, <1>3, <1>4, <2>1
  <2>3. Rest[d + 1].kind = "status"
    BY <2>1, <2>2 DEF Skips
  <2>4. d + 1 \in Starts
    BY <2>2, <2>3, RestFacts DEF Starts
  <2>5. QED
    BY <2>1, <2>2, <2>3, <2>4 DEF StartsInv, MidiIn!ExpectedSize
<1>9. QED
  BY <1>3, <1>6, <1>7, <1>8

\* Nothing is relayed: the loop ends.
LEMMA PopNothingFramed ==
  ASSUME FrameInv, NEW d \in 0..Len(m_midiInBuffer), Skips(d),
         ~MidiIn!Complete(MidiIn!Skip(m_midiInBuffer)),
         m_midiInBuffer' = MidiIn!Skip(m_midiInBuffer), popping' = FALSE,
         UNCHANGED <<count, extra, togo, hit, cut, wire, size, relayed>>
  PROVE  FrameInv'
<1> USE DEF FrameInv
<1> DEFINE front == MidiIn!Skip(m_midiInBuffer)
<1>1. m_midiInBuffer' = SubSeq(m_midiInBuffer, d + 1, Len(m_midiInBuffer))
  BY DEF Skips
<1>2. StartsInv' /\ SpansInv' /\ BytesInv'
  BY <1>1, RestStays
<1>3. /\ m_midiInBuffer' \in Seq(MidiIn!Bytes)
      /\ \A i : i \in Starts' <=> i \in 1..Len(Rest) - d /\ i + d \in Starts
      /\ \A i \in 1..Len(Rest) - d : Rest'[i] = Rest[i + d]
      /\ \A i \in Starts : i > d => i - d \in Starts' /\ Rest'[i - d] = Rest[i]
  BY <1>1, FrontTaken
<1>4. /\ Len(front) = Len(m_midiInBuffer) - d
      /\ \A i \in Starts : i > d
      /\ front # << >> => /\ MidiIn!ExpectedSize(front) = size[Rest[d + 1].msg]
                          /\ front[1].kind = "status" /\ front[1] = Rest[d + 1]
                          /\ Rest[d + 1].msg \in 1..count
  BY SkippedFacts
<1>5. SenderInv'
  <2>1. popping' \in BOOLEAN
    OBVIOUS
  <2>2. MidiIn!TypeOK'
    BY <1>3, <2>1 DEF SenderInv, MidiIn!TypeOK
  <2>3. QED
    BY <2>2 DEF SenderInv
<1>6. RelayedInv'
  <2>1. \A m : MidiIn!Message(m)' = MidiIn!Message(m)
    BY DEF MidiIn!Message
  <2>2. MidiIn!RelayedInOrder'
    BY DEF RelayedInv, MidiIn!RelayedInOrder
  <2>3. \A k \in DOMAIN relayed : relayed[k][1].msg \notin hit \cup cut =>
          relayed[k] = MidiIn!Message(relayed[k][1].msg)'
    BY <2>1 DEF RelayedInv
  <2>4. \A k \in DOMAIN relayed, i \in Starts' : relayed[k][1].msg < Rest'[i].msg
    BY <1>3 DEF RelayedInv
  <2>5. QED
    BY <2>2, <2>3, <2>4 DEF RelayedInv
<1>7. NoneIsMissing'
  <2> SUFFICES ASSUME NEW m \in 1..count, m - 1 \notin cut,
                      \A k \in DOMAIN relayed : relayed[k][1].msg # m
               PROVE  \E i \in Starts' : Rest'[i].msg = m
    BY DEF NoneIsMissing
  <2>1. PICK i \in Starts : Rest[i].msg = m
    BY DEF NoneIsMissing
  <2>2. QED
    BY <1>3, <1>4, <2>1
<1>8. BufferInv'
  <2> SUFFICES ASSUME front # << >>
               PROVE  front[1].kind = "status" /\ Len(front) < size[front[1].msg]
    BY DEF BufferInv
  <2>1. ~(Len(front) >= MidiIn!ExpectedSize(front))
    BY DEF MidiIn!Complete
  <2>2. size[front[1].msg] \in 2..3 /\ MidiIn!ExpectedSize(front) = size[front[1].msg]
    BY <1>4, SizeFacts
  <2>3. Len(front) \in Int
    BY <1>4, RestFacts
  <2>4. QED
    BY <1>4, <2>1, <2>2, <2>3
<1>9. QED
  BY <1>2, <1>5, <1>6, <1>7, <1>8

\* A message is relayed: its bytes go, and no others but what the code takes for it.
LEMMA PopOneFramed ==
  ASSUME FrameInv, NEW d \in 0..Len(m_midiInBuffer), Skips(d),
         NEW front, front = MidiIn!Skip(m_midiInBuffer), MidiIn!Complete(front),
         relayed' = Append(relayed, SubSeq(front, 1, MidiIn!ExpectedSize(front))),
         m_midiInBuffer' = SubSeq(front, MidiIn!ExpectedSize(front) + 1, Len(front)),
         popping' = TRUE,
         UNCHANGED <<count, extra, togo, hit, cut, wire, size>>
  PROVE  FrameInv'
<1> USE DEF FrameInv
<1> DEFINE first == Rest[d + 1].msg
           n == MidiIn!ExpectedSize(front)
           e == d + n
           message == SubSeq(front, 1, n)
<1>1. /\ front \in Seq(MidiIn!Bytes) /\ Len(front) = Len(m_midiInBuffer) - d
      /\ \A i \in 1..Len(front) : front[i] = Rest[i + d]
      /\ \A i \in Starts : i > d
      /\ d + 1 \in Starts /\ first \in 1..count /\ n = size[first]
      /\ front[1].kind = "status" /\ front[1] = Rest[d + 1] /\ Len(front) >= n
  BY SkippedFacts DEF MidiIn!Complete
<1> HIDE DEF n, first
<1>2. /\ n \in 2..3 /\ d \in Nat /\ Len(m_midiInBuffer) \in Nat /\ Len(front) \in Nat
      /\ e \in 0..Len(m_midiInBuffer) /\ Len(Rest) \in Nat /\ Starts \subseteq 1..Len(Rest)
      /\ Len(m_midiInBuffer) <= Len(Rest)
  <2>1. n \in 2..3
    BY <1>1, SizeFacts
  <2>2. /\ d \in Nat /\ Len(m_midiInBuffer) \in Nat /\ Len(Rest) \in Nat
        /\ Starts \subseteq 1..Len(Rest) /\ Len(m_midiInBuffer) <= Len(Rest)
    BY RestFacts
  <2>3. Len(front) = Len(m_midiInBuffer) - d /\ Len(front) >= n
    BY <1>1
  <2>4. Len(front) \in Nat /\ d + n \in 0..Len(m_midiInBuffer)
    BY <2>1, <2>2, <2>3
  <2>5. QED
    BY <2>1, <2>2, <2>4
<1>3. m_midiInBuffer' = SubSeq(m_midiInBuffer, e + 1, Len(m_midiInBuffer))
  <2>1. front = SubSeq(m_midiInBuffer, d + 1, Len(m_midiInBuffer))
    BY DEF Skips
  <2>2. m_midiInBuffer \in Seq(MidiIn!Bytes)
    BY RestFacts
  <2>3. ASSUME NEW S, NEW b \in Seq(S), NEW k \in Nat, NEW l \in Nat, k + l <= Len(b),
               NEW f, f = SubSeq(b, k + 1, Len(b))
        PROVE  SubSeq(f, l + 1, Len(f)) = SubSeq(b, (k + l) + 1, Len(b))
    <3>0. k \in 0..Len(b) /\ k + l \in 0..Len(b) /\ Len(b) \in Nat
      BY <2>3
    <3>1. f \in Seq(S) /\ Len(f) = Len(b) - k /\ \A i \in 1..Len(b) - k : f[i] = b[i + k]
      BY <2>3, <3>0, Suffix
    <3>2. /\ SubSeq(f, l + 1, Len(f)) \in Seq(S) /\ Len(SubSeq(f, l + 1, Len(f))) = Len(f) - l
          /\ \A i \in 1..Len(f) - l : SubSeq(f, l + 1, Len(f))[i] = f[i + l]
      <4>1. l \in 0..Len(f)
        BY <2>3, <3>0, <3>1
      <4>2. QED
        BY <3>1, <4>1, Suffix
    <3>3. /\ SubSeq(b, (k + l) + 1, Len(b)) \in Seq(S)
          /\ Len(SubSeq(b, (k + l) + 1, Len(b))) = Len(b) - (k + l)
          /\ \A i \in 1..Len(b) - (k + l) : SubSeq(b, (k + l) + 1, Len(b))[i] = b[i + (k + l)]
      BY <3>0, Suffix
    <3>4. \A i \in 1..Len(b) - (k + l) : i + l \in 1..Len(b) - k /\ (i + l) + k = i + (k + l)
      BY <2>3
    <3>5. Len(f) - l = Len(b) - (k + l)
      BY <2>3, <3>1
    <3>6. \A i \in 1..Len(b) - (k + l) :
            SubSeq(f, l + 1, Len(f))[i] = SubSeq(b, (k + l) + 1, Len(b))[i]
      BY <3>1, <3>2, <3>3, <3>4, <3>5
    <3>7. QED
      BY <3>2, <3>3, <3>5, <3>6, SameItems
  <2>4. d + n <= Len(m_midiInBuffer) /\ n \in Nat /\ d \in Nat
    BY <1>2
  <2>5. SubSeq(front, n + 1, Len(front))
           = SubSeq(m_midiInBuffer, (d + n) + 1, Len(m_midiInBuffer))
    BY <2>1, <2>2, <2>3, <2>4
  <2>6. QED
    BY <2>5 DEF n
<1> HIDE DEF e
<1>4. StartsInv' /\ SpansInv' /\ BytesInv'
  BY <1>2, <1>3, RestStays
<1>5. /\ m_midiInBuffer' \in Seq(MidiIn!Bytes)
      /\ \A i : i \in Starts' <=> i \in 1..Len(Rest) - e /\ i + e \in Starts
      /\ \A i \in 1..Len(Rest) - e : Rest'[i] = Rest[i + e]
      /\ \A i \in Starts : i > e => i - e \in Starts' /\ Rest'[i - e] = Rest[i]
  BY <1>2, <1>3, FrontTaken
<1>6. /\ message \in Seq(MidiIn!Bytes) /\ Len(message) = n /\ DOMAIN message = 1..n
      /\ \A i \in 1..n : message[i] = front[i]
  <2>1. ASSUME NEW S, NEW f \in Seq(S), NEW k \in Nat, k <= Len(f)
        PROVE  /\ SubSeq(f, 1, k) \in Seq(S) /\ Len(SubSeq(f, 1, k)) = k
               /\ DOMAIN SubSeq(f, 1, k) = 1..k
               /\ \A i \in 1..k : SubSeq(f, 1, k)[i] = f[i]
    BY <2>1
  <2>2. front \in Seq(MidiIn!Bytes) /\ n \in Nat /\ n <= Len(front)
    BY <1>1, <1>2
  <2>3. QED
    BY <2>1, <2>2
<1> HIDE DEF message
<1>7. message[1] = Rest[d + 1] /\ message[1].kind = "status" /\ message[1].msg = first
  <2>1. 1 \in 1..n
    BY <1>2
  <2>2. message[1] = front[1]
    BY <1>6, <2>1
  <2>3. QED
    BY <1>1, <2>2 DEF first
<1>8. /\ DOMAIN relayed' = 1..Len(relayed) + 1 /\ Len(relayed) \in Nat
      /\ DOMAIN relayed = 1..Len(relayed)
      /\ \A k \in DOMAIN relayed : relayed'[k] = relayed[k]
      /\ relayed'[Len(relayed) + 1] = message
      /\ relayed' \in Seq(Seq(MidiIn!Bytes)) /\ Len(relayed) + 1 \in DOMAIN relayed'
      /\ \A k \in DOMAIN relayed' : k \in DOMAIN relayed \/ k = Len(relayed) + 1
  <2>1. relayed' = Append(relayed, message) /\ relayed \in Seq(Seq(MidiIn!Bytes))
    BY DEF message, n, SenderInv
  <2>2. ASSUME NEW S, NEW r \in Seq(S), NEW x \in S
        PROVE  /\ DOMAIN Append(r, x) = 1..Len(r) + 1 /\ Len(r) \in Nat /\ DOMAIN r = 1..Len(r)
               /\ \A k \in DOMAIN r : Append(r, x)[k] = r[k]
               /\ Append(r, x)[Len(r) + 1] = x /\ Append(r, x) \in Seq(S)
               /\ Len(r) + 1 \in DOMAIN Append(r, x)
               /\ \A k \in DOMAIN Append(r, x) : k \in DOMAIN r \/ k = Len(r) + 1
    OBVIOUS
  <2>3. message \in Seq(MidiIn!Bytes)
    BY <1>6
  <2>4. /\ DOMAIN Append(relayed, message) = 1..Len(relayed) + 1 /\ Len(relayed) \in Nat
        /\ DOMAIN relayed = 1..Len(relayed)
        /\ \A k \in DOMAIN relayed : Append(relayed, message)[k] = relayed[k]
        /\ Append(relayed, message)[Len(relayed) + 1] = message
        /\ Append(relayed, message) \in Seq(Seq(MidiIn!Bytes))
        /\ Len(relayed) + 1 \in DOMAIN Append(relayed, message)
        /\ \A k \in DOMAIN Append(relayed, message) : k \in DOMAIN relayed \/ k = Len(relayed) + 1
    <3> HIDE DEF FrameInv
    <3>1. relayed \in Seq(Seq(MidiIn!Bytes))
      BY <2>1
    <3>2. QED
      BY <2>2, <2>3, <3>1
  <2>5. QED
    BY <2>1, <2>4
<1>9. SenderInv'
  <2>1. \A k \in DOMAIN relayed' : relayed'[k] \in Seq(MidiIn!Bytes) /\ Len(relayed'[k]) \in 2..3
    <3>1. \A k \in DOMAIN relayed : relayed[k] \in Seq(MidiIn!Bytes) /\ Len(relayed[k]) \in 2..3
      BY DEF SenderInv, MidiIn!TypeOK
    <3>2. QED
      BY <1>2, <1>6, <1>8, <3>1
  <2>2. popping' \in BOOLEAN
    OBVIOUS
  <2>3. MidiIn!TypeOK'
    BY <1>5, <2>1, <2>2 DEF SenderInv, MidiIn!TypeOK
  <2>4. QED
    BY <1>8, <2>3 DEF SenderInv
<1>10. RelayedInv'
  <2>1. \A m : MidiIn!Message(m)' = MidiIn!Message(m)
    BY DEF MidiIn!Message
  <2>2. ASSUME first \notin hit \cup cut PROVE message = MidiIn!Message(first)
    <3>1. /\ (d + 1) + SoFar(first) <= Len(Rest) + 1
          /\ \A j \in 1..SoFar(first) - 1 : Rest[(d + 1) + j] = MidiIn!Byte("data", first)
          /\ first = count /\ togo > 0 => (d + 1) + SoFar(first) = Len(Rest) + 1
      BY <1>1, <2>2 DEF BytesInv, first
    <3>2. SoFar(first) = n
      <4>1. CASE first = count /\ togo > 0
        <5>1. SoFar(first) = n - togo /\ togo \in Nat \ {0}
          BY <1>1, <4>1, SizeFacts DEF SoFar
        <5>2. d + n <= Len(Rest) /\ (d + 1) + (n - togo) = Len(Rest) + 1
          BY <1>2, <3>1, <4>1, <5>1 DEF e
        <5>3. QED
          BY <1>2, <5>1, <5>2
      <4>2. CASE ~(first = count /\ togo > 0)
        <5>1. togo \in 0..2 /\ n = size[first] /\ n \in 2..3
          BY <1>1, <1>2, SizeFacts
        <5>2. QED
          BY <4>2, <5>1 DEF SoFar
      <4>3. QED
        BY <4>1, <4>2
    <3>3. \A i \in 1..n : message[i] = Rest[i + d]
      <4>1. \A i \in 1..n : i \in 1..Len(front)
        BY <1>1, <1>2
      <4>2. \A i \in 1..Len(front) : front[i] = Rest[i + d]
        BY <1>1
      <4>3. QED
        BY <1>6, <4>1, <4>2
    <3>4. message[1] = MidiIn!Byte("status", first)
      <4>1. message[1] \in MidiIn!Bytes
        BY <1>2, <1>6
      <4>2. QED
        BY <1>7, <4>1 DEF MidiIn!Bytes, MidiIn!Byte
    <3>5. ASSUME NEW i \in 2..n PROVE message[i] = MidiIn!Byte("data", first)
      <4>1. i - 1 \in 1..n - 1 /\ (d + 1) + (i - 1) = i + d /\ i \in 1..n
        BY <1>2
      <4>2. Rest[(d + 1) + (i - 1)] = MidiIn!Byte("data", first)
        BY <3>1, <3>2, <4>1
      <4>3. QED
        BY <3>3, <4>1, <4>2
    <3>6. MidiIn!Message(first)
            = [i \in 1..n |-> IF i = 1 THEN MidiIn!Byte("status", first)
                                      ELSE MidiIn!Byte("data", first)]
      BY <1>1 DEF MidiIn!Message
    <3>7. \A i \in 1..n : message[i] = MidiIn!Message(first)[i]
      BY <1>2, <3>4, <3>5, <3>6
    <3>8. message = [i \in 1..n |-> message[i]]
      BY <1>6
    <3>9. QED
      BY <3>6, <3>7, <3>8
  <2>3. \A k \in DOMAIN relayed' : k \in DOMAIN relayed \/ k = Len(relayed) + 1
    BY <1>8
  <2>4. \A k \in DOMAIN relayed :
           /\ relayed[k][1].kind = "status" /\ relayed[k][1].msg \in 1..count
           /\ relayed[k][1].msg \notin hit \cup cut => relayed[k] = MidiIn!Message(relayed[k][1].msg)
           /\ relayed[k][1].msg < first
           /\ \A i \in Starts' : relayed[k][1].msg < Rest'[i].msg
    BY <1>1, <1>5 DEF RelayedInv, first
  <2>5. \A i \in Starts' : first < Rest'[i].msg
    <3> SUFFICES ASSUME NEW i \in Starts' PROVE first < Rest'[i].msg
      OBVIOUS
    <3>1. i + e \in Starts /\ Rest'[i] = Rest[i + e] /\ i \in Nat \ {0}
      BY <1>2, <1>5
    <3>2. d + 1 < i + e
      BY <1>2, <3>1 DEF e
    <3>3. QED
      BY <1>1, <3>1, <3>2 DEF StartsInv, first
  <2>6. ASSUME NEW k \in DOMAIN relayed'
        PROVE  /\ relayed'[k][1].kind = "status" /\ relayed'[k][1].msg \in 1..count
               /\ relayed'[k][1].msg \notin hit \cup cut =>
                    relayed'[k] = MidiIn!Message(relayed'[k][1].msg)
               /\ \A i \in Starts' : relayed'[k][1].msg < Rest'[i].msg
    <3>1. CASE k \in DOMAIN relayed
      BY <1>8, <2>4, <3>1
    <3>2. CASE k = Len(relayed) + 1
      BY <1>1, <1>7, <1>8, <2>2, <2>5, <3>2
    <3>3. QED
      BY <2>3, <3>1, <3>2
  <2>7. MidiIn!RelayedInOrder'
    <3> SUFFICES ASSUME NEW j \in DOMAIN relayed', NEW k \in DOMAIN relayed', j < k
                 PROVE  relayed'[j][1].msg < relayed'[k][1].msg
      BY DEF MidiIn!RelayedInOrder
    <3>1. j \in DOMAIN relayed
      <4>1. j \in 1..Len(relayed) + 1 /\ k \in 1..Len(relayed) + 1 /\ Len(relayed) \in Nat
        BY <1>8
      <4>2. j \in 1..Len(relayed)
        BY <4>1
      <4>3. QED
        BY <1>8, <4>2
    <3>2. CASE k \in DOMAIN relayed
      BY <1>8, <3>1, <3>2 DEF RelayedInv, MidiIn!RelayedInOrder
    <3>3. CASE k = Len(relayed) + 1
      BY <1>7, <1>8, <2>4, <3>1, <3>3
    <3>4. QED
      BY <2>3, <3>2, <3>3
  <2>8. QED
    BY <2>1, <2>6, <2>7 DEF RelayedInv
<1>11. NoneIsMissing'
  <2> SUFFICES ASSUME NEW m \in 1..count, m - 1 \notin cut
               PROVE  \/ \E i \in Starts' : Rest'[i].msg = m
                      \/ \E k \in DOMAIN relayed' : relayed'[k][1].msg = m
    BY DEF NoneIsMissing
  <2>1. CASE \E k \in DOMAIN relayed : relayed[k][1].msg = m
    BY <1>8, <2>1
  <2>2. CASE \E i \in Starts : Rest[i].msg = m
    <3>1. PICK i \in Starts : Rest[i].msg = m
      BY <2>2
    <3>2. CASE i = d + 1
      <4>1. Len(relayed) + 1 \in DOMAIN relayed' /\ relayed'[Len(relayed) + 1][1].msg = m
        BY <1>7, <1>8, <3>1, <3>2 DEF first
      <4>2. QED
        BY <4>1
    <3>3. CASE i # d + 1
      <4>1. d + 1 < i
        BY <1>1, <1>2, <3>3
      <4>2. (d + 1) + size[first] <= i
        BY <1>1, <3>1, <4>1 DEF SpansInv, first
      <4>3. i > e
        <5>1. (d + 1) + n <= i /\ i \in Nat /\ d \in Nat /\ n \in 2..3
          BY <1>1, <1>2, <4>2
        <5>2. QED
          BY <5>1 DEF e
      <4>4. QED
        BY <1>5, <3>1, <4>3
    <3>4. QED
      BY <3>2, <3>3
  <2>3. QED
    BY <2>1, <2>2 DEF NoneIsMissing
<1>12. BufferInv'
  BY DEF BufferInv
<1>13. QED
  BY <1>4, <1>9, <1>10, <1>11, <1>12

LEMMA PopFramed ==
  ASSUME FrameInv, MidiIn!Pop
  PROVE  FrameInv'
<1> DEFINE front == MidiIn!Skip(m_midiInBuffer)
<1>1. PICK d \in 0..Len(m_midiInBuffer) : Skips(d)
  BY SkipFacts, RestFacts DEF FrameInv, Skips
<1>2. UNCHANGED <<count, extra, togo, hit, cut, wire, size>>
  BY DEF MidiIn!Pop
<1>3. CASE MidiIn!Complete(front)
  <2>1. /\ relayed' = Append(relayed, SubSeq(front, 1, MidiIn!ExpectedSize(front)))
        /\ m_midiInBuffer' = SubSeq(front, MidiIn!ExpectedSize(front) + 1, Len(front))
        /\ popping' = TRUE
    BY <1>3 DEF MidiIn!Pop
  <2>2. QED
    BY <1>1, <1>2, <1>3, <2>1, PopOneFramed
<1>4. CASE ~MidiIn!Complete(front)
  <2>1. m_midiInBuffer' = front /\ relayed' = relayed /\ popping' = FALSE
    BY <1>4 DEF MidiIn!Pop
  <2>2. QED
    BY <1>1, <1>2, <1>4, <2>1, PopNothingFramed
<1>5. QED
  BY <1>3, <1>4

LEMMA FrameStays ==
  ASSUME FrameInv, UNCHANGED <<count, extra, togo, hit, cut, wire, m_midiInBuffer, popping, relayed, size>>
  PROVE  FrameInv'
<1>1. Rest' = Rest /\ Starts' = Starts
  BY DEF Rest, Starts
<1>2. SenderInv' /\ StartsInv' /\ SpansInv' /\ BufferInv' /\ NoneIsMissing'
  BY <1>1 DEF FrameInv, SenderInv, MidiIn!TypeOK, StartsInv, SpansInv, BufferInv, NoneIsMissing
<1>3. BytesInv'
  BY <1>1 DEF FrameInv, BytesInv, SoFar
<1>4. RelayedInv'
  BY <1>1 DEF FrameInv, RelayedInv, MidiIn!RelayedInOrder, MidiIn!Message
<1>5. QED
  BY <1>2, <1>3, <1>4 DEF FrameInv

\* A message that has arrived whole, behind one that was whole, is no longer in the rest.
LEMMA WholeIsGone ==
  ASSUME FrameInv, NEW m \in 1..count, MidiIn!Received(m), m \notin hit \cup cut, m - 1 \notin cut
  PROVE  \A i \in Starts : Rest[i].msg # m
<1> USE DEF FrameInv
<1> SUFFICES ASSUME NEW i \in Starts, Rest[i].msg = m PROVE FALSE
  OBVIOUS
<1>1. /\ ~popping /\ (m < count \/ togo = 0) /\ \A k \in DOMAIN wire : wire[k].msg # m
  BY DEF MidiIn!Received
<1>2. SoFar(m) = size[m] /\ size[m] \in 2..3
  BY <1>1, SizeFacts DEF SoFar
<1>3. /\ i + size[m] <= Len(Rest) + 1
      /\ \A j \in 1..size[m] - 1 : Rest[i + j] = MidiIn!Byte("data", m)
  BY <1>2 DEF BytesInv
<1>4. /\ i \in 1..Len(Rest) /\ Len(m_midiInBuffer) \in Nat /\ Len(wire) \in Nat
      /\ Len(Rest) = Len(m_midiInBuffer) + Len(wire) /\ DOMAIN wire = 1..Len(wire)
      /\ \A k \in 1..Len(Rest) : k > Len(m_midiInBuffer) => Rest[k] = wire[k - Len(m_midiInBuffer)]
  <2>1. i \in 1..Len(Rest)
    BY RestFacts
  <2>2. wire \in Seq(MidiIn!Bytes)
    BY RestFacts
  <2>3. DOMAIN wire = 1..Len(wire)
    BY <2>2
  <2>4. QED
    BY <2>1, <2>3, RestFacts
<1> DEFINE last == i + size[m] - 1
<1>5. last \in 1..Len(Rest) /\ Rest[last].msg = m
  <2>0. i \in Nat \ {0} /\ size[m] \in 2..3 /\ Len(Rest) \in Nat /\ i + size[m] <= Len(Rest) + 1
    BY <1>2, <1>3, <1>4
  <2>1. size[m] - 1 \in 1..size[m] - 1 /\ i + (size[m] - 1) = last /\ last \in 1..Len(Rest)
    <3>1. ASSUME NEW a \in Nat \ {0}, NEW z \in 2..3, NEW l \in Nat, a + z <= l + 1
          PROVE  z - 1 \in 1..z - 1 /\ a + (z - 1) = a + z - 1 /\ a + z - 1 \in 1..l
      BY <3>1
    <3>2. QED
      BY <2>0, <3>1
  <2>2. Rest[i + (size[m] - 1)] = MidiIn!Byte("data", m)
    BY <1>3, <2>1
  <2>3. QED
    BY <2>1, <2>2 DEF MidiIn!Byte
<1>6. last <= Len(m_midiInBuffer)
  <2> SUFFICES ASSUME last > Len(m_midiInBuffer) PROVE FALSE
    BY <1>4, <1>5
  <2>1. last - Len(m_midiInBuffer) \in DOMAIN wire
    BY <1>4, <1>5
  <2>2. QED
    BY <1>1, <1>4, <1>5, <2>1
<1>7. m_midiInBuffer # << >> /\ m_midiInBuffer[1].kind = "status"
      /\ Len(m_midiInBuffer) < size[m_midiInBuffer[1].msg]
  <2>1. m_midiInBuffer # << >>
    <3>1. Len(m_midiInBuffer) # 0
      BY <1>4, <1>5, <1>6
    <3>2. QED
      BY <3>1
  <2>2. QED
    BY <1>1, <2>1 DEF BufferInv
<1>8. 1 \in Starts /\ Rest[1] = m_midiInBuffer[1]
  BY <1>7, BufferStarts
<1>9. CASE i = 1
  BY <1>2, <1>4, <1>6, <1>7, <1>8, <1>9
<1>10. CASE i # 1
  <2>1. 1 + size[Rest[1].msg] <= i
    BY <1>4, <1>8, <1>10 DEF SpansInv
  <2>2. size[Rest[1].msg] \in 2..3
    BY <1>8, SizeFacts DEF StartsInv
  <2>3. QED
    BY <1>2, <1>4, <1>6, <1>7, <1>8, <2>1, <2>2
<1>11. QED
  BY <1>9, <1>10

\* What is asked for of the messages that arrived whole.
LEMMA FrameRelays == FrameInv => MidiIn!IntactAreRelayed
<1> SUFFICES ASSUME FrameInv, NEW m \in 1..count,
                    MidiIn!Received(m) /\ m \notin hit \cup cut /\ m - 1 \notin cut
             PROVE  \E k \in DOMAIN relayed : \A j \in DOMAIN relayed :
                      relayed[j] = MidiIn!Message(m) <=> j = k
  BY Zenon DEF MidiIn!IntactAreRelayed
<1> USE DEF FrameInv
<1>1. PICK k \in DOMAIN relayed : relayed[k][1].msg = m
  BY WholeIsGone DEF NoneIsMissing
<1>2. relayed[k] = MidiIn!Message(m)
  BY <1>1 DEF RelayedInv
<1>3. \A j \in DOMAIN relayed : relayed[j] = MidiIn!Message(m) => j = k
  <2> SUFFICES ASSUME NEW j \in DOMAIN relayed, relayed[j] = MidiIn!Message(m) PROVE j = k
    OBVIOUS
  <2>1. relayed[j][1].msg = relayed[k][1].msg /\ relayed[k][1].msg \in Int
    BY <1>1, <1>2, SizeFacts
  <2>2. j \in Int /\ k \in Int
    BY DEF SenderInv
  <2>3. ~(j < k) /\ ~(k < j)
    BY <2>1 DEF RelayedInv, MidiIn!RelayedInOrder
  <2>4. QED
    BY <2>2, <2>3
<1>4. QED
  BY <1>2, <1>3

\* Messages of MIDI IN are relayed whole, once and in order, however their bytes are cut
\* into transfers and whatever stray bytes and broken messages come between.
THEOREM MidiInFramed == MCSpec => []MidiInIsFramed
<1>1. MCInit => FrameInv
  BY InitFrame DEF MCInit
<1>2. FrameInv /\ [MCNext]_<<vars, count, extra, togo, hit, cut, wire, m_midiInBuffer, popping,
                             relayed, size>> => FrameInv'
  <2> SUFFICES ASSUME FrameInv, [MCNext]_<<vars, count, extra, togo, hit, cut, wire,
                                           m_midiInBuffer, popping, relayed, size>>
               PROVE  FrameInv'
    OBVIOUS
  <2>1. CASE MidiIn!Next
    <3>1. ASSUME NEW n \in MessageSizes, MidiIn!SendStatus(n) PROVE FrameInv'
      BY <3>1, SendStatusFramed
    <3>2. QED
      BY <2>1, <3>1, SendDataFramed, SendExtraFramed, SendCutFramed, ReceiveFramed, PopFramed
         DEF MidiIn!Next, MidiIn!Sender, MidiIn!Usb
  <2>2. CASE UNCHANGED <<count, extra, togo, hit, cut, wire, m_midiInBuffer, popping, relayed, size>>
    BY <2>2, FrameStays
  <2>3. QED
    BY <2>1, <2>2 DEF MCNext
<1>3. FrameInv => MidiInIsFramed
  <2> SUFFICES ASSUME FrameInv PROVE MidiIn!BufferIsShort
    BY FrameRelays DEF MidiInIsFramed, FrameInv, SenderInv, RelayedInv
  <2> USE DEF FrameInv
  <2>1. CASE m_midiInBuffer = << >>
    BY <2>1 DEF MidiIn!BufferIsShort
  <2>2. CASE m_midiInBuffer # << >> /\ ~popping
    <3>1. m_midiInBuffer[1].kind = "status" /\ Len(m_midiInBuffer) < size[m_midiInBuffer[1].msg]
      BY <2>2 DEF BufferInv
    <3>2. m_midiInBuffer[1].msg \in 1..count
      BY <2>2, <3>1, BufferStarts DEF StartsInv
    <3>3. size[m_midiInBuffer[1].msg] \in 2..3 /\ Len(m_midiInBuffer) \in Nat
      BY <3>2, SizeFacts, RestFacts
    <3>4. Len(m_midiInBuffer) < 3
      BY <3>1, <3>3
    <3>5. QED
      BY <3>4 DEF MidiIn!BufferIsShort
  <2>3. QED
    BY <2>1, <2>2 DEF MidiIn!BufferIsShort
<1>4. QED
  BY <1>1, <1>2, <1>3, PTL DEF MCSpec

=============================================================================
