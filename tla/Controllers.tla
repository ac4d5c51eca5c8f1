----------------------------- MODULE Controllers ------------------------------
(***************************************************************************)
(* The output side of the drivers of Maschine MK2, Maschine Mikro MK2,     *)
(* Maschine Jam, Komplete Kontrol, Traktor F1, Push, Push 2 and the Push 2 *)
(* display (Maschine MK1 has a module of its own): init(), setLedImpl(),   *)
(* drawing, and the tick() that sends what is marked dirty.                *)
(*                                                                         *)
(* The Coordinator's thread ticks the connected devices in turn.  tick()   *)
(* of most drivers does one thing per call and keeps its place in a local  *)
(* static int, so all devices of one class share the place.  Every write   *)
(* to the device may fail.                                                 *)
(*                                                                         *)
(* A kind of controller is chosen in Init, and how many devices of it are  *)
(* connected.  The state is that of the first of them, on which a client   *)
(* draws; what the others send does not concern it, but their ticks move   *)
(* the shared state.  An LED array is seen through the cells of the LEDs   *)
(* in Touched, a screen as one picture.  `lost' records the surfaces of    *)
(* which the code itself has forgotten a change.                           *)
(***************************************************************************)
EXTENDS ControllerTables

CONSTANTS
  Kinds,      \* the kinds of controller Init chooses from
  Pictures,   \* what a screen, a matrix or an array can be made to show; 0 is empty
  MaxPresent  \* bound: the number of connected devices of the kind

ASSUME KindsAssumption ==
  Kinds \subseteq {"MK2", "Mikro", "Jam", "KK", "F1", "Push", "Push2", "Push2Display"}
ASSUME PicturesAssumption == 0 \in Pictures /\ Pictures \subseteq 0..255
ASSUME MaxPresentAssumption == MaxPresent \in Nat \ {0}

VARIABLES
  kind,      \* the class of the devices
  part,      \* what the client draws on: "leds" or "screen"
  present,   \* how many devices of the kind are connected
  step,      \* static int state in tick()
  turn,      \* the device Coordinator::run() ticks next
  cells,     \* the LED arrays
  shown,     \* the LEDs of the hardware
  dirty,     \* the surfaces marked dirty
  prev,      \* Push: m_ledsPrev
  source,    \* what is copied into an LED array before it is sent
  screen,    \* the pictures of the displays
  glass,     \* the pictures the hardware shows
  lost,      \* the surfaces of which a change was forgotten
  calm       \* the ticks without failure since the last change

vars == <<kind, part, present, step, turn, cells, shown, dirty, prev, source, screen, glass,
          lost, calm>>

Blank == 0     \* what init() paints, and what a text display holds at first
Stale == 999   \* what the hardware was left with by the program before
Torn  == 998   \* half a picture
White == 255

-----------------------------------------------------------------------------
(* The surfaces of each kind.                                              *)

\* LEDs that take every path of setLedImpl().
Touched ==
  [MK2 |-> {"Control", "Shift", "Pad13"}, Mikro |-> {"Play", "Group", "Pad13"},
   Jam |-> {"Play", "DisplayButton1"}, KK |-> {"Play", "Key1"},
   F1 |-> {"Browse", "Pad13", "Stop4"}, Push |-> {"Play", "Pad1"},
   Push2 |-> {"Master", "Select"}, Push2Display |-> {}]

\* What is kept elsewhere and copied into an array by tick(), and its cell.
Sources ==
  [k \in Kinds |->
     CASE k = "Jam" -> [Matrix |-> <<"Pads", 8>>, Strip |-> <<"Strips", 0>>,
                        Level |-> <<"Buttons", JamLed["LevelLeft1"]>>]
       [] k = "F1"  -> [Display |-> <<"Leds", 0>>]
       [] OTHER     -> << >>]

\* The cells of a touched LED.
Written == [k \in Kinds |-> [l \in Touched[k] |-> Cells(k, Led[k][l])]]

\* The cells the model looks at.  MK2 compares a button's LED with the cell of the group
\* array that has the LED's number.
CellsOf ==
  [k \in Kinds |->
     (UNION Range(Written[k])) \cup Range(Sources[k])
     \cup (IF k = "MK2" THEN {<<"Groups", MK2Led[l]>> : l \in {"Control", "Shift"}} ELSE {})]

\* setLedImpl() of a touched LED writes some cell, and not that of a source.
ASSUME TouchedAssumption ==
  \A k \in Kinds : \A l \in Touched[k] :
    Written[k][l] # {} /\ Written[k][l] \cap Range(Sources[k]) = {}

\* sendLeds(): the arrays, in the order of their reports.
MK2Arrays == <<"Buttons", "Groups", "Pads">>
JamArrays == <<"Buttons", "Pads", "Strips">>
KKArrays == <<"Leds", "Keys">>
OneArray == <<"Leds">>

Arrays(k) ==
  CASE k = "MK2" -> MK2Arrays [] k = "Jam" -> JamArrays [] k = "KK" -> KKArrays
    [] k = "Push2Display" -> << >>
    [] OTHER -> OneArray

Screens(k) ==
  CASE k = "MK2" -> {"Screen0", "Screen1"}
    [] k \in {"Mikro", "KK", "Push", "Push2Display"} -> {"Screen0"}
    [] OTHER -> {}

\* tick(): what one call does, by the value of the static state.
MK2Tick == <<"screen", "leds", "read">>
MikroTick == <<"screen", "leds", "read">>
KKTick == <<"screen", "leds", "read">>
JamTick == <<"leds", "read">>
F1Tick == <<"leds", "read">>

Steps(k) ==
  CASE k = "MK2" -> MK2Tick [] k = "Mikro" -> MikroTick [] k = "KK" -> KKTick
    [] k = "Jam" -> JamTick [] k = "F1" -> F1Tick
    [] OTHER -> <<"all">>

-----------------------------------------------------------------------------
(* Colours.  White is colour 70 of kJam_colors; fromLedColor() knows       *)
(* the first 69 only and takes any other for no colour.                    *)

toLedColor(v) == IF v = White THEN 70 ELSE 0
fromLedColor(i) == IF i < 69 THEN IF i = 0 THEN 0 ELSE White ELSE 0

\* The byte an LED's cell gets for a colour.
CellValue(array, v) ==
  CASE kind = "Jam" /\ array # "Buttons" -> toLedColor(v)
    [] kind = "F1" -> v % 128
    [] OTHER -> v

\* The byte a source puts into its cell.
SourceValue(s, v) ==
  CASE s = "Matrix"  -> toLedColor(fromLedColor(toLedColor(v)))
    [] s = "Strip"   -> toLedColor(v)
    [] s = "Level"   -> fromLedColor(toLedColor(v))
    [] s = "Display" -> IF v = 0 THEN 0 ELSE 127

-----------------------------------------------------------------------------
(* init().                                                                 *)

\* The arrays init() clears: KK does not clear the LEDs of the keys.
Cleared(data) == [c \in DOMAIN data |-> IF c[1] = "Keys" THEN data[c] ELSE 0]

\* The surfaces init() marks: KK and F1 clear m_leds without a mark, the text displays
\* of KK and Push are not touched.
MK2InitMarks == {"Buttons", "Groups", "Pads", "Screen0", "Screen1"}
MikroInitMarks == {"Leds", "Screen0"}
JamInitMarks == {"Buttons", "Pads", "Strips"}
KKInitMarks == {}
F1InitMarks == {}
PushInitMarks == {"Leds"}
Push2InitMarks == {"Leds"}
Push2DisplayInitMarks == {"Screen0"}

InitMarks(k) ==
  CASE k = "MK2" -> MK2InitMarks [] k = "Mikro" -> MikroInitMarks [] k = "Jam" -> JamInitMarks
    [] k = "KK" -> KKInitMarks [] k = "F1" -> F1InitMarks [] k = "Push" -> PushInitMarks
    [] k = "Push2" -> Push2InitMarks [] k = "Push2Display" -> Push2DisplayInitMarks

\* The marks of a new driver: those of its members' constructors.
KKNewMarks == {"Leds", "Keys", "Screen0"}
F1NewMarks == {"Leds", "Display"}
PushNewMarks == {"Screen0"}

NewMarks(k) ==
  CASE k = "KK" -> KKNewMarks [] k = "F1" -> F1NewMarks [] k = "Push" -> PushNewMarks
    [] OTHER -> {}

ClearsScreen(k) == k \in {"MK2", "Mikro", "Push2Display"}

\* What a connection leaves wrong on the hardware although nothing is marked: Push sends
\* changes only, KK never sends its text, and a picture or an array that was drawn before
\* is not marked again.
InitLosses(marks) ==
     {s \in Range(Arrays(kind)) : s \notin marks \/ kind = "Push"}
  \cup {s \in Screens(kind) : s \notin marks \/ kind = "KK"}
  \cup {s \in DOMAIN Sources[kind] : s \notin marks}

Init ==
  /\ kind \in Kinds
  /\ part \in {"leds", "screen"}
  /\ present \in 1..MaxPresent
  /\ step = 1
  /\ turn = 1
  /\ cells = [c \in CellsOf[kind] |-> 0]
  /\ shown = [c \in CellsOf[kind] |-> Stale]
  /\ prev = IF kind = "Push" THEN cells ELSE << >>
  /\ source = [s \in DOMAIN Sources[kind] |-> 0]
  /\ screen = [s \in Screens(kind) |-> Blank]
  /\ glass = [s \in Screens(kind) |-> Stale]
  /\ dirty = InitMarks(kind) \cup NewMarks(kind)
  /\ lost = InitLosses(dirty)
  /\ calm = 0

\* The device is unplugged and plugged in again: the Device object stays, init() runs.
Replug ==
  /\ cells' = Cleared(cells)
  /\ shown' = [c \in DOMAIN shown |-> Stale]
  /\ glass' = [s \in DOMAIN glass |-> Stale]
  /\ screen' = IF ClearsScreen(kind) THEN [s \in DOMAIN screen |-> Blank] ELSE screen
  \* The mark of Jam's matrix is taken away.
  /\ dirty' = (dirty \ {"Matrix"}) \cup InitMarks(kind)
  /\ lost' = InitLosses(dirty')
  /\ calm' = 0
  /\ UNCHANGED <<kind, part, present, step, turn, prev, source>>

-----------------------------------------------------------------------------
(* setLedImpl(), reached from setButtonLed() and setKeyLed().              *)

\* MK2, an LED without colours: the old value is read from m_ledsGroups whichever array
\* the LED is in, and for the second row the flag is assigned.
IsMK2Mono(n) == kind = "MK2" /\ ~MK2IsRGB(n)

MK2MonoMarks(n, v) ==
  LET changed == cells[<<"Groups", n>>] # v
  IN CASE n >= MK2Led["Restart"] /\ ~changed -> dirty \ {"Groups"}
       [] n >= MK2Led["Restart"] /\ changed  -> dirty \cup {"Groups"}
       [] n < MK2Led["Restart"] /\ changed   -> dirty \cup {"Buttons"}
       [] OTHER -> dirty

\* Every other: the flag of the array is set when a cell changes.  F1 masks the value it
\* stores and compares with the one it was given.
Marks(written, array, v) ==
  LET new == IF kind = "F1" THEN v ELSE CellValue(array, v)
  IN IF \E c \in written : cells[c] # new THEN dirty \cup {array} ELSE dirty

SetLed(l, v) ==
  LET n == Led[kind][l]
      written == Written[kind][l]
      array == (CHOOSE c \in written : TRUE)[1]
  IN /\ part = "leds"
     /\ cells' = [c \in DOMAIN cells |->
                    IF c \in written THEN CellValue(array, v) ELSE cells[c]]
     /\ dirty' = IF IsMK2Mono(n) THEN MK2MonoMarks(n, v) ELSE Marks(written, array, v)
     /\ lost' = IF IsMK2Mono(n) /\ array \notin dirty' THEN lost \cup {array} ELSE lost
     /\ calm' = 0
     /\ UNCHANGED <<kind, part, present, step, turn, shown, prev, source, screen, glass>>

-----------------------------------------------------------------------------
(* Drawing on screens, LED arrays and the matrix.                          *)

\* CanvasBase and TextDisplayBase mark what changes.
Draw(s, p) ==
  /\ part = "screen"
  /\ screen[s] # p
  /\ screen' = [screen EXCEPT ![s] = p]
  /\ dirty' = dirty \cup {s}
  /\ calm' = 0
  /\ UNCHANGED <<kind, part, present, step, turn, cells, shown, prev, source, glass, lost>>

\* LedArrayBase::setDirty() marks the array; the matrix is marked if a pixel changes, and
\* always if it is white, which it does not know again.
DrawSource(s, v) ==
  /\ part = "screen"
  /\ source' = [source EXCEPT ![s] = v]
  /\ dirty' = IF s = "Matrix" /\ source[s] = v /\ v # White THEN dirty ELSE dirty \cup {s}
  /\ calm' = 0
  /\ UNCHANGED <<kind, part, present, step, turn, cells, shown, prev, screen, glass, lost>>

-----------------------------------------------------------------------------
(* tick().                                                                 *)

\* The turn goes to the next device of the kind and the static state to its next value.
Pass ==
  /\ turn' = 1 + (turn % present)
  /\ step' = 1 + (step % Len(Steps(kind)))

Advance(ok) ==
  /\ turn = 1
  /\ Pass
  /\ calm' = CASE ~ok -> 0
              [] ok /\ calm < Len(Steps(kind)) -> calm + 1
              [] OTHER -> calm

\* The tick of another device of the kind.
OtherTick ==
  /\ turn # 1
  /\ Pass
  /\ UNCHANGED <<kind, part, present, cells, shown, dirty, prev, source, screen, glass, lost,
                 calm>>

\* Of the reports for the arrays `todo', those for the first n of the device's arrays.
Sent(todo, n) == todo \cap {Arrays(kind)[i] : i \in 1..n}

\* Mutant: a mark goes although its report failed.
SendArraysForgetful(todo, n, data, marks, losses) ==
  LET sent == Sent(todo, n)
  IN /\ shown' = [c \in DOMAIN shown |-> IF c[1] \in sent THEN data[c] ELSE shown[c]]
     /\ dirty' = marks \ todo
     /\ lost' = losses \ sent

\* Reports get through up to the n-th array and the next one fails.  The flags of the arrays
\* sent are cleared.
SendArrays(todo, n, data, marks, losses) ==
  LET sent == Sent(todo, n)
  IN /\ shown' = [c \in DOMAIN shown |-> IF c[1] \in sent THEN data[c] ELSE shown[c]]
     /\ dirty' = marks \ sent
     /\ lost' = losses \ sent

SendReports(todo) ==
  /\ \E n \in 0..Len(Arrays(kind)) :
       /\ SendArrays(todo, n, cells, dirty, lost)
       /\ Advance(todo = Sent(todo, n))
  /\ UNCHANGED <<kind, part, present, cells, prev, source, screen, glass>>

MK2SendLeds == kind = "MK2" /\ MK2Tick[step] = "leds" /\ SendReports(dirty \cap Range(MK2Arrays))
KKSendLeds == kind = "KK" /\ KKTick[step] = "leds" /\ SendReports(dirty \cap Range(KKArrays))

\* Marked or not.
MikroSendLeds == kind = "Mikro" /\ MikroTick[step] = "leds" /\ SendReports(Range(OneArray))

\* tick() asks for the mark, not sendLeds().
Push2Tick == kind = "Push2" /\ SendReports(dirty \cap Range(OneArray))

\* Mutant: the sources are copied after the reports are sent, and the marks taken away.
JamSendLedsLate ==
  LET ready == dirty \cap DOMAIN Sources[kind]
  IN /\ kind = "Jam"
     /\ Steps(kind)[step] = "leds"
     /\ cells' = [c \in DOMAIN cells |->
                    IF \E s \in ready : Sources[kind][s] = c
                    THEN LET s == CHOOSE t \in ready : Sources[kind][t] = c
                         IN SourceValue(s, source[s])
                    ELSE cells[c]]
     /\ SendArrays(Range(Arrays(kind)), 3, cells, dirty \ ready, lost \ ready)
     /\ Advance(TRUE)
     /\ UNCHANGED <<kind, part, present, prev, source, screen, glass>>

\* Jam: first the sources that are marked are copied into the arrays, which marks those.
JamSendLeds ==
  LET ready == dirty \cap DOMAIN Sources[kind]
      data == [c \in DOMAIN cells |->
                 IF \E s \in ready : Sources[kind][s] = c
                 THEN LET s == CHOOSE t \in ready : Sources[kind][t] = c
                      IN SourceValue(s, source[s])
                 ELSE cells[c]]
      marks == (dirty \ ready) \cup {Sources[kind][s][1] : s \in ready}
      todo == marks \cap Range(Arrays(kind))
  IN /\ kind = "Jam"
     /\ Steps(kind)[step] = "leds"
     /\ cells' = data
     /\ \E n \in 0..Len(Arrays(kind)) :
          /\ SendArrays(todo, n, data, marks, lost \ ready)
          /\ Advance(todo = Sent(todo, n))
     /\ UNCHANGED <<kind, part, present, prev, source, screen, glass>>

\* F1: the segments of the display are copied and everything is sent, every time; the
\* display keeps its mark.
F1SendLedsAndDisplay ==
  LET data == [cells EXCEPT ![Sources[kind]["Display"]] =
                 SourceValue("Display", source["Display"])]
  IN /\ kind = "F1"
     /\ Steps(kind)[step] = "leds"
     /\ cells' = data
     /\ \E n \in 0..1 :
          /\ SendArrays({"Leds"}, n, data, dirty \cup {"Leds"}, lost)
          /\ Advance(n = 1)
     /\ UNCHANGED <<kind, part, present, prev, source, screen, glass>>

\* A picture is sent in several chunks: all of them, some of them or none get through.
Outcome(p, old, result) ==
  CASE result = "whole" -> p [] result = "some" -> Torn [] result = "none" -> old

Results == {"whole", "some", "none"}

\* MK2: both displays, each if marked; the mark goes whether the frame got through or not.
MK2SendFrames ==
  LET todo == Screens(kind) \cap dirty
  IN /\ kind = "MK2"
     /\ Steps(kind)[step] = "screen"
     /\ \E result \in [todo -> Results] :
          LET whole == {s \in todo : result[s] = "whole"}
          IN /\ glass' = [s \in DOMAIN glass |->
                            IF s \in todo THEN Outcome(screen[s], glass[s], result[s])
                            ELSE glass[s]]
             /\ dirty' = dirty \ todo
             /\ lost' = (lost \ whole) \cup (todo \ whole)
             /\ Advance(whole = todo)
     /\ UNCHANGED <<kind, part, present, cells, shown, prev, source, screen>>

\* Mikro and the Push 2 display: the mark stays until the whole frame got through.
SendFrame ==
  /\ \E result \in Results :
       /\ "Screen0" \in dirty \/ result = "none"
       /\ glass' = [glass EXCEPT !["Screen0"] = Outcome(screen["Screen0"], @, result)]
       /\ dirty' = IF result = "whole" THEN dirty \ {"Screen0"} ELSE dirty
       /\ Advance("Screen0" \in dirty => result = "whole")
  /\ UNCHANGED <<kind, part, present, cells, shown, prev, source, screen, lost>>

MikroSendFrame == kind = "Mikro" /\ MikroTick[step] = "screen" /\ SendFrame
Push2DisplayTick == kind = "Push2Display" /\ SendFrame

\* KK: sendDisplayData() sends three rows of zeros; what the displays hold is not copied
\* and the flags stay.
KKSendDisplayData ==
  /\ kind = "KK"
  /\ Steps(kind)[step] = "screen"
  /\ \E result \in Results :
       /\ glass' = [glass EXCEPT !["Screen0"] = Outcome(Blank, @, result)]
       /\ Advance(result = "whole")
  /\ UNCHANGED <<kind, part, present, cells, shown, dirty, prev, source, screen, lost>>

\* Push: the text if a display is marked, the rows one by one with no regard to failures,
\* the flags cleared in any case; then the cells that differ from m_ledsPrev, which takes
\* the new value before the write.  The LEDs go out in the order of their numbers, up to
\* the first failure: `stop' is the number of the LED whose report fails.
PushTick ==
  LET differ == {c \in DOMAIN cells : prev[c] # cells[c]}
      drawn == "Screen0" \in dirty
  IN /\ kind = "Push"
     /\ \E text \in Results, stop \in {c[2] : c \in differ} \cup {PushLed["Unknown"]} :
          LET tried == {c \in differ : c[2] <= stop}
              written == {c \in differ : c[2] < stop}
          IN /\ drawn \/ text = "none"
             /\ prev' = [c \in DOMAIN prev |-> IF c \in tried THEN cells[c] ELSE prev[c]]
             /\ shown' = [c \in DOMAIN shown |-> IF c \in written THEN cells[c] ELSE shown[c]]
             /\ glass' = [glass EXCEPT !["Screen0"] = Outcome(screen["Screen0"], @, text)]
             /\ dirty' = dirty \ {"Screen0"}
             /\ lost' = (CASE ~drawn -> lost
                          [] drawn /\ text = "whole" -> lost \ {"Screen0"}
                          [] OTHER -> lost \cup {"Screen0"})
                        \cup (IF tried = written THEN {} ELSE {"Leds"})
             /\ Advance(tried = written /\ (drawn => text = "whole"))
     /\ UNCHANGED <<kind, part, present, cells, source, screen>>

\* read(): see ControllerInput.
Read ==
  /\ Steps(kind)[step] = "read"
  /\ Advance(TRUE)
  /\ UNCHANGED <<kind, part, present, cells, shown, dirty, prev, source, screen, glass, lost>>

Tick ==
  \/ MK2SendLeds \/ KKSendLeds \/ MikroSendLeds \/ JamSendLeds \/ F1SendLedsAndDisplay
  \/ MK2SendFrames \/ MikroSendFrame \/ KKSendDisplayData
  \/ PushTick \/ Push2Tick \/ Push2DisplayTick
  \/ Read

ClientDraws ==
  \/ \E l \in Touched[kind], v \in {0, White} : SetLed(l, v)
  \/ \E s \in Screens(kind), p \in Pictures : Draw(s, p)
  \/ \E s \in DOMAIN Sources[kind], v \in {0, White} : DrawSource(s, v)

Next == Tick \/ OtherTick \/ ClientDraws \/ Replug

Spec == Init /\ [][Next]_vars

-----------------------------------------------------------------------------
(* Properties.                                                             *)

ArrayIsShown(a) == \A c \in DOMAIN cells : c[1] = a => shown[c] = cells[c]

\* Push compares with m_ledsPrev; its flag stays set for ever.
IsMarked(s) == IF kind = "Push" /\ s = "Leds" THEN prev # cells ELSE s \in dirty

\* A surface that is not marked dirty looks on the hardware as it does in memory, except
\* where `lost' names a way in which the code forgets a change: MK2's frames and Push's
\* reports that failed, MK2's buttons, and what init() does not mark.
CleanIsShown ==
  /\ \A a \in Range(Arrays(kind)) : IsMarked(a) \/ a \in lost \/ ArrayIsShown(a)
  /\ \A s \in Screens(kind) : IsMarked(s) \/ s \in lost \/ glass[s] = screen[s]

\* The device gets all the steps of its tick() in turn although it shares the static
\* state with the others, unless their number and the number of steps have a common
\* divisor: after one round of ticks without failures and changes, the hardware shows
\* everything.
Coprime(m, n) == \A k \in 2..m : m % k # 0 \/ n % k # 0

CatchesUp ==
  (calm = Len(Steps(kind)) /\ Coprime(present, Len(Steps(kind)))) =>
    /\ \A a \in Range(Arrays(kind)) : a \in lost \/ ArrayIsShown(a)
    /\ \A s \in Screens(kind) : s \in lost \/ glass[s] = screen[s]
    /\ \A s \in DOMAIN Sources[kind] :
         s \in lost \/ cells[Sources[kind][s]] = SourceValue(s, source[s])

\* The tables of a kind fit its arrays and the client's names: no LED a client can name
\* lies outside its array (but for those of Push 2, whose array is too short) or overlaps
\* another, no two buttons of a device have one name for the client, and each button's bit
\* is in the report and in the words m_buttonStates occupies.
Fits(k) ==
  LET leds == Reachable(k)
      names == DOMAIN DeviceButtonOf[k]
      cellsOf == [l \in leds |-> Cells(k, Led[k][l])]
  IN /\ k \notin {"MK1", "Jam"} => \A l \in ToSet(LedOfKey[k]) : IsRGB(k, Led[k][l])
     /\ \A l \in leds : k = "Push2" \/ \A c \in cellsOf[l] : c[2] < Sizes[k][c[1]]
     /\ Cardinality(UNION Range(cellsOf))
          = FoldSet(LAMBDA l, n : n + Cardinality(cellsOf[l]), 0, leds)
     /\ Cardinality({ButtonNumber(b) : b \in names}) = Cardinality(names)
     /\ k \in DOMAIN Bits =>
          \A b \in names : /\ Button[k][b] < 8 * Bits[k].report
                           /\ Button[k][b] < 64 * ((Bits[k].states + 63) \div 64)

AllFit == [k \in Kinds |-> Fits(IF k = "Push2Display" THEN "Push2" ELSE k)]

\* And it gives a client as many displays as it says that it has (Push one more).
TablesAreConsistent ==
  /\ AllFit[kind]
  /\ Displays[kind] = 0..(IF kind = "Push" THEN numOfDisplays[kind] ELSE numOfDisplays[kind] - 1)

=============================================================================
