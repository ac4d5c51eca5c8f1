---------------------------- MODULE ControllerInput ---------------------------
(***************************************************************************)
(* The input side of the eight controllers: what read(), cbRead() and the  *)
(* MIDI callbacks make of the reports of a device, and the events a client *)
(* gets: buttonChanged(), keyChanged(), encoderChanged(), controlChanged().*)
(*                                                                         *)
(* A report of the buttons holds the state of all of them and of the       *)
(* encoders; the driver compares it with the state it recorded.  MK2 and   *)
(* Jam return after the first button that changed, the others report all.  *)
(* The hands of the player move between two reports.  The client keeps a   *)
(* picture of what it was told.                                            *)
(*                                                                         *)
(* Init chooses a kind of controller and the part of it that is played.    *)
(***************************************************************************)
EXTENDS ControllerTables

CONSTANTS
  MaxTurns,     \* bound: the clicks an encoder is turned altogether
  MaxSlots      \* bound: transfers one read() looks at

ASSUME MaxTurnsAssumption == MaxTurns \in Nat
ASSUME MaxSlotsAssumption == MaxSlots \in Nat \ {0}

VARIABLES
  kind,       \* the class of the device
  part,       \* what is played: "buttons", "wheel", "knob", "dial", "pads", "slider", "keys"
  hands,      \* the buttons, pads or keys that are held down
  states,     \* m_buttonStates, m_padsStatus
  picture,    \* the buttons, pads or keys the client was told are down
  position,   \* where the encoder or the slider is
  value,      \* m_encoderValue, m_touchstripsValues, m_potentiometersValues
  known,      \* `value' was recorded: the members are not initialised
  owed,       \* how far the encoder was turned since it was recorded
  turns,      \* how often it was turned altogether
  told,       \* the last encoderChanged(): how far the encoder had come, what was said,
              \* and whether the waves of a dial can tell
  octave,     \* KK: the note of the first key
  firstKey,   \* KK: m_firstOctave
  slot,       \* the transfers the current read() has looked at
  settled     \* the last report caused no event and nothing has moved since

vars == <<kind, part, hands, states, picture, position, value, known, owed, turns, told, octave,
          firstKey, slot, settled>>

Kinds == {"MK1", "MK2", "Mikro", "Jam", "KK", "F1", "Push", "Push2"}

Parts ==
  [MK1 |-> {"buttons", "dial", "pads"}, MK2 |-> {"wheel", "knob", "pads"},
   Mikro |-> {"wheel", "pads"}, Jam |-> {"wheel", "slider"}, KK |-> {"wheel", "knob", "keys"},
   F1 |-> {"wheel", "slider"}, Push |-> {"messages"}, Push2 |-> {"messages"}]

\* Some buttons of each, one of them with no name for the client where there is one.
Watched ==
  [MK1 |-> {"Shift", "Mute", "Play"}, MK2 |-> {"Shift", "Control", "Mute"},
   Mikro |-> {"Shift", "Erase", "Scene"}, Jam |-> {"Shift", "Play", "Pad1"},
   KK |-> {"Shift", "Play", "TouchEncoder1"}, F1 |-> {"Shift", "Pad1", "Stop1"},
   Push |-> {"Shift", "NavigateDown", "Play", "TouchEncoder1"},
   Push2 |-> {"Shift", "NavigateDown", "Setup", "TouchEncoder1"}]

Pads == {"PadA", "PadB"}
Keys == {"KeyA"}

\* Those of them deviceButton() has a name for.
Mapped == [k \in Kinds |-> {b \in Watched[k] : b \in DOMAIN DeviceButtonOf[k]}]

\* No other button of the device has the number of a watched one, and that of Push's
\* NavigateDown is the number Shift has for the client.
ASSUME NumbersAssumption ==
  /\ \A k \in Kinds : \A b \in Watched[k] :
       /\ b \in DOMAIN Button[k] /\ Button[k][b] \in Nat
       /\ \A c \in DOMAIN Button[k] : Button[k][c] = Button[k][b] => c = b
  /\ \A k \in {"Push", "Push2"} : /\ Button[k]["NavigateDown"] = DeviceButton["Shift"]
                                  /\ Pads \cap DOMAIN Button[k] = {}
  /\ "NavigateDown" \notin DOMAIN PushTouch

-----------------------------------------------------------------------------
(* The direction of an encoder: the value recorded, the value read.        *)

\* One byte that counts to `top' and wraps.
Increased(prev, curr, top) ==
  (prev < curr \/ (prev = top /\ curr = 0)) /\ ~(prev = 0 /\ curr = top)

\* Mutant: the way down through zero is taken for a way up.
KnobIncreasedOnly(prev, curr) ==
  prev < curr \/ ((prev \div 256) % 16 = 3 /\ curr \div 256 = 0)

\* 10 bits in two bytes; the high bytes tell a wrap.
KnobIncreased(prev, curr) ==
  LET prevHValue == (prev \div 256) % 16
      hValue == curr \div 256
  IN (prev < curr \/ (prevHValue = 3 /\ hValue = 0)) /\ ~(prevHValue = 0 /\ hValue = 3)

\* MK1: two waves a quarter of a turn apart, a byte each.
DialIncreased(prev, curr) ==
  LET x == curr[1] y == curr[2] prevX == prev[1] prevY == prev[2]
  IN /\ x > 127 /\ y > 127   => x < prevX /\ y >= prevY
     /\ x > 127 /\ y <= 127  => x >= prevX /\ y >= prevY
     /\ x <= 127 /\ y > 127  => x < prevX /\ y < prevY
     /\ x <= 127 /\ y <= 127 => x >= prevX /\ y < prevY

\* The steps of each encoder, and how far it may come between two records for its
\* direction to be told.
Top == IF kind = "F1" THEN 255 ELSE 15
KnobUnit == 64

Modulus == CASE part = "wheel" -> Top + 1 [] part = "knob" -> 1024 \div KnobUnit
             [] part = "dial" -> 16 [] OTHER -> 3
Reach == CASE part = "wheel" -> 1 [] part = "knob" -> 256 \div KnobUnit
           [] part = "dial" -> 2 [] OTHER -> 1

\* The waves of the dial at its 16 positions: x begins to rise from the middle, y lies a
\* quarter behind.
Wave(i) ==
  CASE i % 16 \in 0..3 -> 128 + 30 * (i % 16)
    [] i % 16 \in 4..11 -> 128 + 30 * (8 - (i % 16))
    [] OTHER -> 128 + 30 * ((i % 16) - 16)
Dial(i) == <<Wave(i), Wave(i + 12)>>

IncreasedNow(prev, curr) ==
  \/ part = "wheel" /\ Increased(prev, curr, Top)
  \/ part = "knob"  /\ KnobIncreased(KnobUnit * prev, KnobUnit * curr)
  \/ part = "dial"  /\ DialIncreased(Dial(prev), Dial(curr))

-----------------------------------------------------------------------------

\* Where an encoder may be at first, or its record: at the wrap and away from it.
Ends == {0, 7 % Modulus, Modulus - 1}

Init ==
  /\ kind \in Kinds
  /\ part \in Parts[kind]
  /\ hands = {} /\ states = {} /\ picture = {}
  /\ position \in (IF part \in {"wheel", "knob", "dial", "slider"} THEN Ends ELSE {0})
  \* MK1 takes its first report for a start; Jam's strips begin with 0.
  /\ value \in (IF part \in {"wheel", "knob"} \/ kind = "F1" THEN Ends ELSE {0})
  /\ known = FALSE
  /\ owed = 0 /\ turns = 0
  /\ told = [by |-> 0, up |-> FALSE, sure |-> TRUE]
  /\ octave = 0 /\ firstKey \in (IF kind = "KK" THEN {0, 12} ELSE {0})
  /\ slot = 0
  /\ settled = FALSE

-----------------------------------------------------------------------------
(* The player.                                                             *)

HasButtons == part \in {"buttons", "wheel", "knob"}

Hold(b) ==
  /\ hands' = IF b \in hands THEN hands \ {b} ELSE hands \cup {b}
  /\ settled' = FALSE
  /\ UNCHANGED <<kind, part, states, picture, position, value, known, owed, turns, told, octave,
                 firstKey, slot>>

Turn(t) ==
  /\ part \in {"wheel", "knob", "dial", "slider"}
  /\ turns < MaxTurns
  /\ turns' = turns + 1
  /\ position' = (position + Modulus + t) % Modulus
  /\ owed' = IF known THEN owed + t ELSE 0
  /\ settled' = FALSE
  /\ UNCHANGED <<kind, part, hands, states, picture, value, known, told, octave, firstKey, slot>>

\* KK: the octave buttons move the notes of the keys.
MoveOctave ==
  /\ part = "keys" /\ hands = {}
  /\ octave' = 12 - octave
  /\ settled' = FALSE
  /\ UNCHANGED <<kind, part, hands, states, picture, position, value, known, owed, turns, told,
                 firstKey, slot>>

Player ==
  \/ HasButtons /\ \E b \in Watched[kind] : Hold(b)
  \/ part = "pads" /\ \E p \in Pads : Hold(p)
  \/ \E t \in {-1, 1} : Turn(t)
  \/ part = "knob" /\ \E t \in {-2, 2} : Turn(t)
  \/ MoveOctave

-----------------------------------------------------------------------------
(* processButtons().                                                       *)

\* The buttons the loop looks at: those of the report, without Shift and what lies behind
\* the last button.  Shift is recorded and given to the events.
LastButton ==
  [MK1 |-> MK1Button["Play"], MK2 |-> MK2Button["Mute"], Jam |-> JamButton["MainEncoder"],
   Mikro |-> 8 * 4 - 1, KK |-> 8 * 5 - 1, F1 |-> 8 * 4 - 1]

Looked ==
  [k \in DOMAIN LastButton |->
     {b \in Watched[k] \ {"Shift"} : Button[k][b] <= LastButton[k]}]

Changed == {b \in Looked[kind] : (b \in hands) # (b \in states)}

\* The state of buttons `bs' taken over from the report, as that of Shift.
Record(bs) ==
  [b \in Watched[kind] |-> IF b \in bs \cup {"Shift"} THEN b \in hands ELSE b \in states]

Recorded(bs) == {b \in Watched[kind] : Record(bs)[b]}

\* The waves of the dial tell a turn up only between two of their peaks.
Sure == part # "dial" \/ owed < 0 \/ value \div 4 = position \div 4

\* encoderChanged() if the value differs from the one recorded, which it replaces.
ProcessEncoder ==
  /\ value' = position
  /\ known' = TRUE
  /\ owed' = 0
  /\ IF value # position
     THEN told' = [by |-> owed, up |-> IncreasedNow(value, position), sure |-> TRUE]
     ELSE UNCHANGED told

NoEncoder == UNCHANGED <<value, known, owed, told>>

\* Mutant: every change is recorded and the first one told.
ProcessFirstRecordingAll ==
  LET mapped == Changed \cap Mapped[kind]
      btn == CHOOSE b \in mapped : \A c \in mapped : Button[kind][b] <= Button[kind][c]
  IN /\ states' = Recorded(Changed)
     /\ IF mapped = {}
        THEN picture' = picture /\ ProcessEncoder
        ELSE picture' = (picture \ {btn}) \cup ({btn} \cap hands) /\ NoEncoder
     /\ settled' = (mapped = {} /\ value = position)

\* MK2, Jam: the loop returns after the first button that has a name; the encoder has to
\* wait for a report in which no button changed.
ProcessFirst ==
  LET mapped == Changed \cap Mapped[kind]
      btn == CHOOSE b \in mapped : \A c \in mapped : Button[kind][b] <= Button[kind][c]
      seen == {b \in Changed : Button[kind][b] <= Button[kind][btn]}
  IN /\ IF mapped = {}
        THEN states' = Recorded(Changed) /\ picture' = picture /\ ProcessEncoder
        ELSE /\ states' = Recorded(seen)
             /\ picture' = (picture \ {btn}) \cup ({btn} \cap hands)
             /\ NoEncoder
     /\ settled' = (mapped = {} /\ value = position)

\* MK1 (which has the encoders in another report), Mikro, KK, F1: every change is told.
ProcessAll ==
  LET mapped == Changed \cap Mapped[kind]
  IN /\ states' = Recorded(Changed)
     /\ picture' = (picture \ mapped) \cup (mapped \cap hands)
     /\ IF kind = "MK1" THEN NoEncoder ELSE ProcessEncoder
     /\ settled' = (mapped = {} /\ (kind = "MK1" \/ value = position))

MK2ProcessButtons == kind = "MK2" /\ ProcessFirst
JamProcessButtons == kind = "Jam" /\ ProcessFirst
MK1ProcessButtons == kind = "MK1" /\ ProcessAll
MikroProcessButtons == kind = "Mikro" /\ ProcessAll
KKProcessButtons == kind = "KK" /\ ProcessAll
F1ProcessButtons == kind = "F1" /\ ProcessAll

ReadButtons ==
  /\ HasButtons
  /\ \/ MK2ProcessButtons \/ JamProcessButtons \/ MK1ProcessButtons
     \/ MikroProcessButtons \/ KKProcessButtons \/ F1ProcessButtons
  /\ UNCHANGED <<kind, part, hands, position, turns, octave, firstKey, slot>>

\* MK1: the report of the encoders; the first one is only recorded.
MK1ProcessEncoders ==
  /\ part = "dial"
  /\ value' = position /\ known' = TRUE /\ owed' = 0
  /\ told' = IF known /\ value # position
             THEN [by |-> owed, up |-> IncreasedNow(value, position), sure |-> Sure]
             ELSE told
  /\ settled' = (value = position)
  /\ UNCHANGED <<kind, part, hands, states, picture, position, turns, octave, firstKey, slot>>

-----------------------------------------------------------------------------
(* Pads, sliders, keys.                                                    *)

\* processPads(): keyChanged() for each pad that is pressed, and once for each that no
\* longer is.
ProcessPads ==
  /\ states' = hands
  /\ picture' = (picture \cup hands) \ (states \ hands)
  /\ settled' = TRUE

MK1ProcessPads == kind = "MK1" /\ ProcessPads
MK2ProcessPads == kind = "MK2" /\ ProcessPads
MikroProcessPads == kind = "Mikro" /\ ProcessPads

\* read() of MK1 looks at one report.
MK1Read ==
  /\ part = "pads"
  /\ MK1ProcessPads
  /\ UNCHANGED <<kind, part, hands, position, value, known, owed, turns, told, octave, firstKey,
                 slot>>

\* That of MK2 and Mikro looks at several, and takes a report of the pads only if it is the
\* first, the 9th, the 17th ... of this call.
ReadSlot ==
  /\ part = "pads" /\ kind \in {"MK2", "Mikro"}
  /\ slot' = (slot + 1) % MaxSlots
  /\ IF slot % 8 = 0
     THEN MK2ProcessPads \/ MikroProcessPads
     ELSE UNCHANGED <<states, picture, settled>>
  /\ UNCHANGED <<kind, part, hands, position, value, known, owed, turns, told, octave, firstKey>>

\* A failure or a report of the buttons ends the call; a report that is empty does not.
ReadEnds ==
  /\ part = "pads" /\ kind \in {"MK2", "Mikro"}
  /\ slot' = 0
  /\ UNCHANGED <<kind, part, hands, states, picture, position, value, known, owed, turns, told,
                 octave, firstKey, settled>>

MK2Read == kind = "MK2" /\ (ReadSlot \/ ReadEnds)
MikroRead == kind = "Mikro" /\ (ReadSlot \/ ReadEnds)

\* The potentiometer of F1; a strip of Jam, where a finger that leaves (0) is passed over.
ReadSlider(slides) ==
  /\ part = "slider"
  /\ value' = IF slides THEN position ELSE value
  /\ settled' = ~slides
  /\ UNCHANGED <<kind, part, hands, states, picture, position, known, owed, turns, told, octave,
                 firstKey, slot>>

JamProcessStrips == kind = "Jam" /\ ReadSlider(position # 0 /\ value # position)
F1ReadPotentiometer == kind = "F1" /\ ReadSlider(value # position)

\* KK: processButtons() takes the note of the first key from each report; the note of a
\* key comes by MIDI and is told as a number of key.
KKReadOctave ==
  /\ part = "keys"
  /\ firstKey' = octave
  /\ settled' = (settled \/ (hands = {} /\ picture = {}))
  /\ UNCHANGED <<kind, part, hands, states, picture, position, value, known, owed, turns, told,
                 octave, slot>>

KKMidiIn(k) ==
  /\ part = "keys"
  /\ hands' = IF k \in hands THEN {} ELSE {k}
  /\ LET key == <<k, octave - firstKey>>
     IN picture' = IF k \in hands' THEN picture \cup {key} ELSE picture \ {key}
  /\ UNCHANGED <<kind, part, states, position, value, known, owed, turns, told, octave, firstKey,
                 slot, settled>>

-----------------------------------------------------------------------------
(* Push and Push 2: a message for each change.                             *)

\* onControlChange() compares the number of the controller with the number the button
\* Shift has for the client, which is the controller of NavigateDown.
IsShift(cc) == cc = DeviceButton["Shift"]

\* A button without an own number is named Unknown.
ButtonName(n) ==
  IF \E b \in DOMAIN Button[kind] : Button[kind][b] = n
  THEN CHOOSE b \in DOMAIN Button[kind] : Button[kind][b] = n ELSE "Unknown"

Tell(name, down) == picture' = IF down THEN picture \cup {name} ELSE picture \ {name}

ControlChange(b, down) ==
  LET cc == Button[kind][b]
  IN /\ b \in DOMAIN Button[kind] \ DOMAIN PushTouch
     /\ IF IsShift(cc)
        THEN /\ states' = IF down THEN states \cup {"Shift"} ELSE states \ {"Shift"}
             /\ UNCHANGED picture
        ELSE Tell(ButtonName(cc), down) /\ UNCHANGED states

PushControlChange(b, down) == kind = "Push" /\ ControlChange(b, down)
Push2ControlChange(b, down) == kind = "Push2" /\ ControlChange(b, down)

\* processNote(): notes 0 to 10 are touches of the encoders, 36 to 99 the pads.
ProcessNote(b, down) ==
  /\ \/ b \in DOMAIN PushTouch /\ Button[kind][b] - Button[kind]["TouchEncoder1"] <= 10
     \/ b \in Pads
  /\ Tell(b, down)
  /\ UNCHANGED states

PushProcessNote(b, down) == kind = "Push" /\ ProcessNote(b, down)
Push2ProcessNote(b, down) == kind = "Push2" /\ ProcessNote(b, down)

\* An encoder sends how far it was turned, in 7 bits: values below 64 are turns up.
EncoderChange(t) ==
  /\ told' = [by |-> t, up |-> (t % 128) < 64, sure |-> TRUE]
  /\ UNCHANGED <<kind, part, hands, states, picture, position, value, known, owed, turns, octave,
                 firstKey, slot, settled>>

Message(b) ==
  /\ part = "messages"
  /\ hands' = IF b \in hands THEN hands \ {b} ELSE hands \cup {b}
  /\ \/ PushControlChange(b, b \notin hands) \/ Push2ControlChange(b, b \notin hands)
     \/ PushProcessNote(b, b \notin hands) \/ Push2ProcessNote(b, b \notin hands)
  /\ settled' = TRUE
  /\ UNCHANGED <<kind, part, position, value, known, owed, turns, told, octave, firstKey, slot>>

Messages ==
  \/ \E b \in Watched[kind] \cup Pads : Message(b)
  \/ part = "messages" /\ \E t \in {-1, 1} : EncoderChange(t)

-----------------------------------------------------------------------------

Next ==
  \/ Player
  \/ ReadButtons \/ MK1ProcessEncoders
  \/ MK1Read \/ MK2Read \/ MikroRead \/ JamProcessStrips \/ F1ReadPotentiometer
  \/ KKReadOctave \/ \E k \in Keys : KKMidiIn(k)
  \/ Messages

Spec == Init /\ [][Next]_vars

-----------------------------------------------------------------------------
(* Properties.                                                             *)

\* What a client can be told of: Shift comes with the other events, but Push tells it and
\* takes NavigateDown for it.
Tellable ==
  IF part = "messages" THEN (Watched[kind] \cup Pads) \ {"NavigateDown"}
  ELSE (Mapped[kind] \cap Looked[kind]) \cup Pads

\* The client's picture of the buttons and pads is the one the driver recorded, so none is
\* told twice or recorded in silence; and once a report brings nothing new, nothing is
\* left behind: the picture is what the hands hold and no turn is untold.  Of the keys of
\* KK that holds if the octave was read after it was moved and before a key is played.
PictureIsCurrent ==
  /\ part \notin {"messages", "keys"} => picture = states \cap Tellable
  /\ settled =>
       /\ part # "keys" => picture = hands \cap Tellable
       /\ part = "keys" => picture = hands \X {0}
       /\ owed = 0
       /\ part = "slider" => value = position \/ position = 0

\* The direction told is the one in which the encoder has been turned since the last time,
\* however long the report had to wait, if it was not turned farther than the code can
\* tell: one click of a wheel, a quarter of a turn of a knob; MK1's encoders tell a turn up
\* past a peak of one of their waves as a turn down.
TurnsKeepDirection ==
  told.by # 0 /\ told.by \in -Reach..Reach /\ told.sure => told.up = (told.by > 0)

=============================================================================
