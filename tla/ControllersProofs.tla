-------------------------- MODULE ControllersProofs ---------------------------
(***************************************************************************)
(* Proofs about the output side of the controllers, for any of the kinds,  *)
(* any pictures and any number of devices that share the state of tick().  *)
(***************************************************************************)
EXTENDS Controllers, TLAPS

-----------------------------------------------------------------------------
(* The surfaces.                                                           *)

\* Arrays, screens and sources have names of their own.
ArrayNames == {"Buttons", "Groups", "Pads", "Strips", "Leds", "Keys"}
ScreenNames == {"Screen0", "Screen1"}
SourceNames == {"Matrix", "Strip", "Level", "Display"}

LEMMA ArraysOfKinds ==
  ASSUME NEW k \in Kinds
  PROVE  /\ k = "MK2" => Range(Arrays(k)) = {"Buttons", "Groups", "Pads"} /\ Len(Arrays(k)) = 3
         /\ k = "Jam" => Range(Arrays(k)) = {"Buttons", "Pads", "Strips"} /\ Len(Arrays(k)) = 3
         /\ k = "KK" => Range(Arrays(k)) = {"Leds", "Keys"} /\ Len(Arrays(k)) = 2
         /\ k = "Push2Display" => Range(Arrays(k)) = {}
         /\ k \in {"Mikro", "F1", "Push", "Push2"} =>
              Range(Arrays(k)) = {"Leds"} /\ Len(Arrays(k)) = 1
         /\ Range(Arrays(k)) \subseteq ArrayNames
<1>1. k \in {"MK2", "Mikro", "Jam", "KK", "F1", "Push", "Push2", "Push2Display"}
  BY KindsAssumption
<1> USE DEF Range, Arrays, MK2Arrays, JamArrays, KKArrays, OneArray, ArrayNames
<1>2. CASE k = "MK2"
  BY <1>2
<1>3. CASE k = "Jam"
  BY <1>3
<1>4. CASE k = "KK"
  BY <1>4
<1>5. CASE k = "Push2Display"
  BY <1>5
<1>6. CASE k \in {"Mikro", "F1", "Push", "Push2"}
  BY <1>6
<1>7. QED
  BY <1>1, <1>2, <1>3, <1>4, <1>5, <1>6

LEMMA ScreensOfKinds ==
  ASSUME NEW k \in Kinds
  PROVE  /\ k = "MK2" => Screens(k) = {"Screen0", "Screen1"}
         /\ k \in {"Mikro", "KK", "Push", "Push2Display"} => Screens(k) = {"Screen0"}
         /\ k \in {"Jam", "F1", "Push2"} => Screens(k) = {}
         /\ Screens(k) \subseteq ScreenNames
BY KindsAssumption DEF Screens, ScreenNames

LEMMA SourcesOfKinds ==
  ASSUME NEW k \in Kinds
  PROVE  /\ k = "Jam" => /\ DOMAIN Sources[k] = {"Matrix", "Strip", "Level"}
                         /\ Sources[k]["Matrix"] = <<"Pads", 8>>
                         /\ Sources[k]["Strip"] = <<"Strips", 0>>
                         /\ Sources[k]["Level"] = <<"Buttons", JamLed["LevelLeft1"]>>
         /\ k = "F1" => /\ DOMAIN Sources[k] = {"Display"}
                        /\ Sources[k]["Display"] = <<"Leds", 0>>
         /\ k \notin {"Jam", "F1"} => DOMAIN Sources[k] = {}
         /\ DOMAIN Sources[k] \subseteq SourceNames
<1> USE DEF Sources, SourceNames
<1>1. CASE k = "Jam"
  BY <1>1
<1>2. CASE k = "F1"
  BY <1>2
<1>3. CASE k \notin {"Jam", "F1"}
  <2>1. Sources[k] = << >>
    BY <1>3
  <2>2. QED
    BY <2>1, <1>3
<1>4. QED
  BY <1>1, <1>2, <1>3

\* The cells of a kind have those of its sources among them, and no two sources have one.
LEMMA SourceCells ==
  ASSUME NEW k \in Kinds
  PROVE  /\ \A s \in DOMAIN Sources[k] : Sources[k][s] \in CellsOf[k]
         /\ \A s \in DOMAIN Sources[k] : Sources[k][s][1] \in Range(Arrays(k))
         /\ \A s, t \in DOMAIN Sources[k] : Sources[k][s] = Sources[k][t] => s = t
<1>1. Range(Sources[k]) \subseteq CellsOf[k]
  BY DEF CellsOf
<1>2. \A s \in DOMAIN Sources[k] : Sources[k][s] \in Range(Sources[k])
  BY DEF Range
<1>3. CASE k = "Jam"
  BY <1>1, <1>2, <1>3, SourcesOfKinds, ArraysOfKinds
<1>4. CASE k = "F1"
  BY <1>1, <1>2, <1>4, SourcesOfKinds, ArraysOfKinds
<1>5. CASE k \notin {"Jam", "F1"}
  BY <1>5, SourcesOfKinds
<1>6. QED
  BY <1>3, <1>4, <1>5

\* tick(): the steps of each kind.
LEMMA StepsOfKinds ==
  ASSUME NEW k \in Kinds
  PROVE  /\ k \in {"MK2", "Mikro", "KK"} => Steps(k) = <<"screen", "leds", "read">>
         /\ k \in {"Jam", "F1"} => Steps(k) = <<"leds", "read">>
         /\ k \in {"Push", "Push2", "Push2Display"} => Steps(k) = <<"all">>
         /\ Len(Steps(k)) \in 1..3
<1>1. k \in {"MK2", "Mikro", "Jam", "KK", "F1", "Push", "Push2", "Push2Display"}
  BY KindsAssumption
<1>2. /\ k \in {"MK2", "Mikro", "KK"} => Steps(k) = <<"screen", "leds", "read">>
      /\ k \in {"Jam", "F1"} => Steps(k) = <<"leds", "read">>
      /\ k \in {"Push", "Push2", "Push2Display"} => Steps(k) = <<"all">>
  BY DEF Steps, MK2Tick, MikroTick, KKTick, JamTick, F1Tick
<1>3. /\ Len(<<"screen", "leds", "read">>) = 3 /\ Len(<<"leds", "read">>) = 2 /\ Len(<<"all">>) = 1
  OBVIOUS
<1>4. QED
  BY <1>1, <1>2, <1>3

-----------------------------------------------------------------------------
(* The cells of an LED.                                                    *)

\* setLedImpl() writes cells of one array.
LEMMA WrittenArrays ==
  ASSUME NEW k \in Kinds, NEW l \in Touched[k]
  PROVE  \E a \in ArrayNames : \A c \in Written[k][l] : c[1] = a
<1> DEFINE n == Led[k][l]
<1>1. Written[k][l] = Cells(k, n)
  BY DEF Written
<1>2. \A a, i, w : \A x \in Span(a, i, w) : x[1] = a
  BY DEF Span
<1>3. k # "Push2Display"
  BY DEF Touched
<1>4. k \in {"MK2", "Mikro", "Jam", "KK", "F1", "Push", "Push2"}
  BY <1>3, KindsAssumption
<1> HIDE DEF n
<1>5. \E a \in ArrayNames : \E i, w : Cells(k, n) = Span(a, i, w)
  <2> USE DEF ArrayNames
  <2>1. CASE k = "MK2"
    BY <2>1 DEF Cells, MK2Cells
  <2>2. CASE k = "Mikro"
    BY <2>2 DEF Cells, MikroCells
  <2>3. CASE k = "Jam"
    BY <2>3 DEF Cells, JamCells
  <2>4. CASE k = "KK"
    BY <2>4 DEF Cells, KKCells
  <2>5. CASE k = "F1"
    BY <2>5 DEF Cells, F1Cells
  <2>6. CASE k \in {"Push", "Push2"}
    BY <2>6 DEF Cells, PushCells, Push2Cells
  <2>7. QED
    BY <1>4, <2>1, <2>2, <2>3, <2>4, <2>5, <2>6
<1>6. QED
  BY <1>1, <1>2, <1>5

LEMMA OneArrayIsWritten ==
  ASSUME NEW k \in Kinds, NEW l \in Touched[k], NEW c \in Written[k][l], NEW d \in Written[k][l]
  PROVE  c[1] = d[1]
BY WrittenArrays

\* MK2: an LED without colours has its cells in the array its number tells.
LEMMA MonoArray ==
  ASSUME NEW l \in Touched["MK2"], ~MK2IsRGB(Led["MK2"][l]), "MK2" \in Kinds,
         NEW c \in Written["MK2"][l]
  PROVE  c[1] = IF Led["MK2"][l] >= MK2Led["Restart"] THEN "Groups" ELSE "Buttons"
<1> DEFINE n == Led["MK2"][l]
           a == IF n >= MK2Led["Restart"] THEN "Groups" ELSE "Buttons"
<1>1. Written["MK2"][l] = MK2Cells(n)
  BY DEF Written, Cells
<1> HIDE DEF n
<1>2. MK2Cells(n) = Span(a, n, 1)
  BY DEF MK2Cells, n
<1>3. QED
  BY <1>1, <1>2 DEF Span, n

-----------------------------------------------------------------------------
(* A surface that is not marked is on the hardware.                        *)

\* The shape of the state.  F1 masks what it stores, Push and KK never send all they were
\* made to forget, and F1's display keeps its mark.
Shape ==
  /\ kind \in Kinds
  /\ DOMAIN cells = CellsOf[kind] /\ DOMAIN shown = CellsOf[kind]
  /\ DOMAIN screen = Screens(kind) /\ DOMAIN glass = Screens(kind)
  /\ DOMAIN source = DOMAIN Sources[kind]
  /\ kind = "F1" => (\A c \in DOMAIN cells : cells[c] \in 0..127) /\ "Display" \in dirty
  /\ kind = "Push" => "Leds" \in lost
  /\ kind = "KK" => "Screen0" \in lost

ArraysClean ==
  \A a \in Range(Arrays(kind)) : IsMarked(a) \/ a \in lost \/ ArrayIsShown(a)

ScreensClean == \A s \in Screens(kind) : s \in dirty \/ s \in lost \/ glass[s] = screen[s]

\* What is kept elsewhere was copied, or is marked.
IsCopied(s) == cells[Sources[kind][s]] = SourceValue(s, source[s])
SourcesClean == \A s \in DOMAIN Sources[kind] : s \in dirty \/ s \in lost \/ IsCopied(s)

CleanInv == Shape /\ ArraysClean /\ ScreensClean /\ SourcesClean

\* Only the LEDs of Push are compared with what they were.
LEMMA ScreenMarks ==
  ASSUME Shape
  PROVE  ScreensClean <=> \A s \in Screens(kind) : IsMarked(s) \/ s \in lost \/ glass[s] = screen[s]
BY ScreensOfKinds DEF ScreensClean, IsMarked, Shape, ScreenNames

LEMMA InitClean == Init => CleanInv
<1> SUFFICES ASSUME Init PROVE CleanInv
  OBVIOUS
<1>1. kind \in Kinds
  BY DEF Init
<1>2. Shape
  BY <1>1, ArraysOfKinds, ScreensOfKinds
     DEF Shape, Init, InitLosses, NewMarks, F1NewMarks, InitMarks
<1>3. ArraysClean
  BY <1>1, ArraysOfKinds DEF Init, ArraysClean, IsMarked, InitLosses
<1>4. ScreensClean /\ SourcesClean
  BY <1>1 DEF Init, ScreensClean, SourcesClean, InitLosses
<1>5. QED
  BY <1>2, <1>3, <1>4 DEF CleanInv

LEMMA ReplugIsClean ==
  ASSUME CleanInv, Replug
  PROVE  CleanInv'
<1>1. kind \in Kinds /\ kind' = kind
  BY DEF CleanInv, Shape, Replug
<1>2. lost' = {s \in Range(Arrays(kind)) : s \notin dirty' \/ kind = "Push"}
              \cup {s \in Screens(kind) : s \notin dirty' \/ kind = "KK"}
              \cup {s \in DOMAIN Sources[kind] : s \notin dirty'}
  BY DEF Replug, InitLosses
<1>3. ArraysClean'
  BY <1>1, <1>2, ArraysOfKinds DEF ArraysClean, IsMarked
<1>4. ScreensClean' /\ SourcesClean'
  BY <1>1, <1>2 DEF ScreensClean, SourcesClean
<1>5. Shape'
  <2>1. DOMAIN cells' = DOMAIN cells /\ DOMAIN shown' = DOMAIN shown
    BY DEF Replug, Cleared
  <2>2. DOMAIN screen' = DOMAIN screen /\ DOMAIN glass' = DOMAIN glass /\ source' = source
    BY DEF Replug
  <2>3. \A c \in DOMAIN cells : cells'[c] \in {cells[c], 0}
    BY DEF Replug, Cleared
  <2>4. kind = "F1" => "Display" \in dirty'
    BY DEF Replug, CleanInv, Shape
  <2>5. kind = "Push" => "Leds" \in lost'
    BY <1>1, <1>2, ArraysOfKinds
  <2>6. kind = "KK" => "Screen0" \in lost'
    BY <1>1, <1>2, ScreensOfKinds
  <2>7. QED
    BY <1>1, <2>1, <2>2, <2>3, <2>4, <2>5, <2>6 DEF CleanInv, Shape
<1>6. QED
  BY <1>3, <1>4, <1>5 DEF CleanInv

LEMMA DrawIsClean ==
  ASSUME CleanInv, NEW s \in Screens(kind), NEW p \in Pictures, Draw(s, p)
  PROVE  CleanInv'
<1>1. Shape'
  BY DEF CleanInv, Shape, Draw
<1>2. ArraysClean'
  BY DEF CleanInv, ArraysClean, IsMarked, ArrayIsShown, Draw
<1>3. ScreensClean'
  BY DEF CleanInv, ScreensClean, Draw, Shape
<1>4. SourcesClean'
  BY DEF CleanInv, SourcesClean, IsCopied, Draw
<1>5. QED
  BY <1>1, <1>2, <1>3, <1>4 DEF CleanInv

LEMMA DrawSourceIsClean ==
  ASSUME CleanInv, NEW s \in DOMAIN Sources[kind], NEW v, DrawSource(s, v)
  PROVE  CleanInv'
<1>1. Shape'
  BY DEF CleanInv, Shape, DrawSource
<1>2. ArraysClean'
  BY DEF CleanInv, ArraysClean, IsMarked, ArrayIsShown, DrawSource
<1>3. ScreensClean'
  BY DEF CleanInv, ScreensClean, DrawSource
<1>4. SourcesClean'
  <2> SUFFICES ASSUME NEW t \in DOMAIN Sources[kind]
               PROVE  (t \in dirty \/ t \in lost \/ IsCopied(t))'
    BY DEF SourcesClean, DrawSource
  <2>1. CASE t = s
    BY <2>1 DEF CleanInv, SourcesClean, Shape, IsCopied, DrawSource
  <2>2. CASE t # s
    BY <2>2 DEF CleanInv, SourcesClean, Shape, IsCopied, DrawSource
  <2>3. QED
    BY <2>1, <2>2
<1>5. QED
  BY <1>1, <1>2, <1>3, <1>4 DEF CleanInv

\* An LED whose array is neither marked nor forgotten had its value before.
LEMMA SetLedIsClean ==
  ASSUME CleanInv, NEW l \in Touched[kind], NEW v \in {0, White}, SetLed(l, v)
  PROVE  CleanInv'
<1> DEFINE n == Led[kind][l]
           written == Written[kind][l]
           array == (CHOOSE c \in written : TRUE)[1]
<1>1. /\ kind \in Kinds /\ kind' = kind
      /\ shown' = shown /\ screen' = screen /\ glass' = glass /\ source' = source /\ prev' = prev
  BY DEF CleanInv, Shape, SetLed
<1>2. cells' = [c \in DOMAIN cells |-> IF c \in written THEN CellValue(array, v) ELSE cells[c]]
  BY DEF SetLed
<1>3. dirty' = IF IsMK2Mono(n) THEN MK2MonoMarks(n, v) ELSE Marks(written, array, v)
  BY DEF SetLed
<1>4. lost' = IF IsMK2Mono(n) /\ array \notin dirty' THEN lost \cup {array} ELSE lost
  BY DEF SetLed
<1>5. written # {} /\ written \cap Range(Sources[kind]) = {}
  BY <1>1, TouchedAssumption
<1>6. \A c \in written : c[1] = array
  BY <1>1, OneArrayIsWritten
<1>7. kind = "F1" => \A c \in DOMAIN cells : cells'[c] \in 0..127
  BY <1>1, <1>2 DEF CleanInv, Shape, CellValue, White
<1>8. IsMK2Mono(n) => /\ dirty \ {array} \subseteq dirty'
                      /\ array \in dirty' \/ array \in lost'
  <2> SUFFICES ASSUME IsMK2Mono(n)
               PROVE  dirty \ {array} \subseteq dirty'
    BY <1>4
  <2>1. array = IF n >= MK2Led["Restart"] THEN "Groups" ELSE "Buttons"
    BY <1>1, <1>5, MonoArray DEF IsMK2Mono
  <2>2. QED
    BY <2>1, <1>3 DEF MK2MonoMarks
<1>9. ~IsMK2Mono(n) => /\ dirty \subseteq dirty' /\ lost' = lost
                       /\ array \in dirty' \/ cells' = [c \in DOMAIN cells |-> cells[c]]
  <2> SUFFICES ASSUME ~IsMK2Mono(n)
               PROVE  /\ dirty \subseteq dirty'
                      /\ array \in dirty' \/ cells' = [c \in DOMAIN cells |-> cells[c]]
    BY <1>4
  <2>1. dirty' = Marks(written, array, v)
    BY <1>3
  <2>2. dirty \subseteq dirty'
    BY <2>1 DEF Marks
  <2>3. ASSUME array \notin dirty'
        PROVE  \A c \in DOMAIN cells : c \in written => cells[c] = CellValue(array, v)
    <3> DEFINE new == IF kind = "F1" THEN v ELSE CellValue(array, v)
    <3> HIDE DEF new, written, array
    <3>0. dirty' = IF \E c \in written : cells[c] # new THEN dirty \cup {array} ELSE dirty
      BY <2>1 DEF Marks, new
    <3>1. \A c \in written : cells[c] = new
      BY <3>0, <2>3
    <3> USE DEF new
    <3>2. CASE kind # "F1"
      BY <3>1, <3>2
    <3>3. CASE kind = "F1"
      <4>1. \A c \in DOMAIN cells : c \in written => cells[c] = 0 /\ v = 0
        BY <3>1, <3>3 DEF White, CleanInv, Shape
      <4>2. QED
        BY <4>1, <3>3 DEF CellValue
    <3>4. QED
      BY <3>2, <3>3
  <2>4. QED
    BY <2>2, <2>3, <1>2
<1> HIDE DEF n, written, array
<1>10. lost \subseteq lost' /\ dirty \ {array} \subseteq dirty'
  BY <1>4, <1>8, <1>9
<1>11. Shape'
  <2>1. DOMAIN cells' = DOMAIN cells
    BY <1>2
  <2>2. kind = "F1" => ~IsMK2Mono(n)
    BY DEF IsMK2Mono
  <2>3. QED
    BY <1>1, <1>7, <1>9, <1>10, <2>1, <2>2 DEF CleanInv, Shape
<1>12. ArraysClean'
  <2> SUFFICES ASSUME NEW a \in Range(Arrays(kind))
               PROVE  (IsMarked(a) \/ a \in lost \/ ArrayIsShown(a))'
    BY <1>1 DEF ArraysClean
  <2>1. CASE kind = "Push" /\ a = "Leds"
    BY <2>1, <1>10 DEF CleanInv, Shape
  <2>2. CASE ~(kind = "Push" /\ a = "Leds")
    <3>1. IsMarked(a) = (a \in dirty) /\ IsMarked(a)' = (a \in dirty')
      BY <2>2, <1>1 DEF IsMarked
    <3>2. CASE a # array
      <4>1. a \in dirty \/ a \in lost \/ ArrayIsShown(a)
        BY <3>1 DEF CleanInv, ArraysClean
      <4>2. ArrayIsShown(a) => ArrayIsShown(a)'
        BY <1>1, <1>2, <1>6, <3>2 DEF ArrayIsShown
      <4>3. QED
        BY <4>1, <4>2, <3>1, <3>2, <1>10
    <3>3. CASE a = array
      <4>1. CASE IsMK2Mono(n)
        BY <4>1, <3>1, <3>3, <1>8
      <4>2. CASE ~IsMK2Mono(n)
        <5>1. CASE array \in dirty'
          BY <5>1, <3>1, <3>3
        <5>2. CASE array \notin dirty'
          <6>1. a \notin dirty /\ cells' = [c \in DOMAIN cells |-> cells[c]]
            BY <5>2, <4>2, <3>3, <1>9
          <6>2. a \in lost \/ ArrayIsShown(a)
            BY <6>1, <3>1 DEF CleanInv, ArraysClean
          <6>3. ArrayIsShown(a) => ArrayIsShown(a)'
            BY <6>1, <1>1 DEF ArrayIsShown
          <6>4. QED
            BY <6>2, <6>3, <1>10
        <5>3. QED
          BY <5>1, <5>2
      <4>3. QED
        BY <4>1, <4>2
    <3>4. QED
      BY <3>2, <3>3
  <2>3. QED
    BY <2>1, <2>2
<1>13. array \notin Screens(kind) /\ array \notin DOMAIN Sources[kind]
  <2>1. array \in ArrayNames
    BY <1>1, <1>5, <1>6, WrittenArrays DEF written
  <2>2. QED
    BY <1>1, <2>1, ScreensOfKinds, SourcesOfKinds DEF ArrayNames, ScreenNames, SourceNames
<1>14. ScreensClean'
  BY <1>1, <1>10, <1>13 DEF CleanInv, ScreensClean
<1>15. SourcesClean'
  <2>1. \A s \in DOMAIN Sources[kind] : cells'[Sources[kind][s]] = cells[Sources[kind][s]]
    <3> SUFFICES ASSUME NEW s \in DOMAIN Sources[kind]
                 PROVE  cells'[Sources[kind][s]] = cells[Sources[kind][s]]
      OBVIOUS
    <3>1. Sources[kind][s] \in Range(Sources[kind])
      BY DEF Range
    <3>2. Sources[kind][s] \in DOMAIN cells
      BY <1>1, SourceCells DEF CleanInv, Shape
    <3>3. QED
      BY <3>1, <3>2, <1>2, <1>5
  <2>2. QED
    BY <2>1, <1>1, <1>10, <1>13 DEF CleanInv, SourcesClean, IsCopied
<1>16. QED
  BY <1>11, <1>12, <1>14, <1>15 DEF CleanInv

-----------------------------------------------------------------------------
(* tick(): it leaves no change behind, and a step that succeeds shows what *)
(* it is there for.                                                        *)

ServedArrays == \A a \in Range(Arrays(kind)) : a \in lost \/ ArrayIsShown(a)
ServedScreens == \A s \in Screens(kind) : s \in lost \/ glass[s] = screen[s]
ServedSources == \A s \in DOMAIN Sources[kind] : s \in lost \/ IsCopied(s)

\* What the step `op' of tick() is there for was done.
Served(op) ==
  /\ op \in {"leds", "all"} => ServedArrays /\ ServedSources
  /\ op \in {"screen", "all"} => ServedScreens

\* A tick of the device takes its turn; if it succeeds it serves its step, and undoes none.
Serves ==
  \E ok \in BOOLEAN :
    /\ Advance(ok)
    /\ ok => \A op : Served(op) \/ op = Steps(kind)[step] => Served(op)'

\* The same by parts.
LEMMA ServesByParts ==
  ASSUME CleanInv, kind' = kind, NEW ok \in BOOLEAN, Advance(ok),
         ok => /\ ServedArrays => ServedArrays'
               /\ ServedScreens => ServedScreens'
               /\ ServedSources => ServedSources'
               /\ Steps(kind)[step] \in {"leds", "all"} => ServedArrays' /\ ServedSources'
               /\ Steps(kind)[step] \in {"screen", "all"} => ServedScreens'
  PROVE  Serves
<1>1. ASSUME ok, NEW op, Served(op) \/ op = Steps(kind)[step]
      PROVE  Served(op)'
  BY <1>1 DEF Served
<1>2. QED
  BY <1>1 DEF Serves

\* Reports: what is marked is sent, or keeps its mark.
LEMMA ReportsAreClean ==
  ASSUME Shape, kind # "Push", kind' = kind, NEW todo, NEW n, NEW data, NEW marks, NEW losses,
         SendArrays(todo, n, data, marks, losses), cells' = data, DOMAIN data = DOMAIN cells,
         \A a \in Range(Arrays(kind)) :
           a \in marks \/ a \in losses \/ \A c \in DOMAIN cells : c[1] = a => shown[c] = data[c]
  PROVE  /\ ArraysClean'
         /\ todo = Sent(todo, n) /\ marks \cap Range(Arrays(kind)) \subseteq todo => ServedArrays'
<1> DEFINE sent == Sent(todo, n)
<1>1. /\ shown' = [c \in DOMAIN shown |-> IF c[1] \in sent THEN data[c] ELSE shown[c]]
      /\ dirty' = marks \ sent
      /\ lost' = losses \ sent
  BY DEF SendArrays
<1> HIDE DEF sent
<1>2. DOMAIN cells = DOMAIN shown /\ DOMAIN cells' = DOMAIN shown
  BY DEF Shape
<1>3. \A a \in sent : ArrayIsShown(a)'
  BY <1>1, <1>2 DEF ArrayIsShown
<1>4. \A a : (\A c \in DOMAIN cells : c[1] = a => shown[c] = data[c]) => ArrayIsShown(a)'
  BY <1>1, <1>2 DEF ArrayIsShown
<1>5. \A a \in Range(Arrays(kind)) : a \in dirty' \/ a \in lost' \/ ArrayIsShown(a)'
  BY <1>1, <1>3, <1>4
<1>6. ArraysClean'
  BY <1>5 DEF ArraysClean, IsMarked
<1>7. ASSUME todo = sent, marks \cap Range(Arrays(kind)) \subseteq todo
      PROVE  ServedArrays'
  BY <1>5, <1>3, <1>7, <1>1 DEF ServedArrays
<1>8. QED
  BY <1>6, <1>7 DEF sent

\* What reports do not touch.
LEMMA ScreensStay ==
  ASSUME CleanInv, kind' = kind, screen' = screen, glass' = glass,
         \A s \in Screens(kind) : s \in dirty => s \in dirty',
         \A s \in Screens(kind) : s \in lost => s \in lost'
  PROVE  ScreensClean' /\ (ServedScreens => ServedScreens')
BY DEF CleanInv, ScreensClean, ServedScreens

LEMMA ArraysStay ==
  ASSUME CleanInv, kind' = kind, cells' = cells, shown' = shown, source' = source, prev' = prev,
         \A a \in Range(Arrays(kind)) \cup DOMAIN Sources[kind] :
           /\ a \in dirty => a \in dirty'
           /\ a \in lost => a \in lost'
  PROVE  /\ ArraysClean' /\ SourcesClean'
         /\ ServedArrays => ServedArrays'
         /\ ServedSources => ServedSources'
<1>1. \A a : ArrayIsShown(a)' = ArrayIsShown(a)
  BY DEF ArrayIsShown
<1>2. \A s \in DOMAIN Sources[kind] : IsCopied(s)' = IsCopied(s)
  BY DEF IsCopied
<1>3. \A a \in Range(Arrays(kind)) : IsMarked(a) => IsMarked(a)'
  BY DEF IsMarked
<1>4. ArraysClean' /\ (ServedArrays => ServedArrays')
  BY <1>1, <1>3 DEF CleanInv, ArraysClean, ServedArrays
<1>5. SourcesClean' /\ (ServedSources => ServedSources')
  BY <1>2 DEF CleanInv, SourcesClean, ServedSources
<1>6. QED
  BY <1>4, <1>5

\* Arrays, screens and sources of a kind do not meet.
LEMMA NamesAreApart ==
  ASSUME NEW k \in Kinds
  PROVE  /\ Range(Arrays(k)) \cap Screens(k) = {}
         /\ Range(Arrays(k)) \cap DOMAIN Sources[k] = {}
         /\ Screens(k) \cap DOMAIN Sources[k] = {}
<1>1. /\ Range(Arrays(k)) \subseteq ArrayNames
      /\ Screens(k) \subseteq ScreenNames
      /\ DOMAIN Sources[k] \subseteq SourceNames
  BY ArraysOfKinds, ScreensOfKinds, SourcesOfKinds
<1>2. QED
  BY <1>1 DEF ArrayNames, ScreenNames, SourceNames

\* sendLeds() of the kinds that copy nothing.
LEMMA SendReportsServes ==
  ASSUME CleanInv, NEW todo, SendReports(todo), kind \notin {"Push", "Jam", "F1"},
         dirty \cap Range(Arrays(kind)) \subseteq todo, todo \subseteq Range(Arrays(kind)),
         Steps(kind)[step] \in {"leds", "all"},
         Steps(kind)[step] = "all" => Screens(kind) = {}
  PROVE  CleanInv' /\ Serves
<1>1. PICK n \in 0..Len(Arrays(kind)) :
        SendArrays(todo, n, cells, dirty, lost) /\ Advance(todo = Sent(todo, n))
  BY DEF SendReports
<1>2. /\ kind \in Kinds /\ kind' = kind /\ cells' = cells /\ screen' = screen /\ glass' = glass
      /\ source' = source
  BY DEF SendReports, CleanInv, Shape
<1>3. \A a \in Range(Arrays(kind)) :
        a \in dirty \/ a \in lost \/ \A c \in DOMAIN cells : c[1] = a => shown[c] = cells[c]
  BY DEF CleanInv, ArraysClean, IsMarked, ArrayIsShown
<1>4. Shape
  BY DEF CleanInv
<1>5. ArraysClean' /\ (todo = Sent(todo, n) => ServedArrays')
  BY <1>1, <1>2, <1>3, <1>4, ReportsAreClean
<1>6. /\ Sent(todo, n) \subseteq Range(Arrays(kind))
      /\ dirty' = dirty \ Sent(todo, n) /\ lost' = lost \ Sent(todo, n)
      /\ DOMAIN shown' = DOMAIN shown
  BY <1>1 DEF SendArrays, Sent
<1>7. ScreensClean' /\ (ServedScreens => ServedScreens')
  BY <1>2, <1>6, NamesAreApart, ScreensStay
<1>8. DOMAIN Sources[kind] = {}
  BY <1>2, SourcesOfKinds
<1>9. SourcesClean' /\ ServedSources'
  BY <1>2, <1>8 DEF SourcesClean, ServedSources
<1>10. Shape'
  BY <1>2, <1>6, NamesAreApart, ScreensOfKinds DEF CleanInv, Shape, ScreenNames
<1>11. Steps(kind)[step] = "all" => ServedScreens'
  BY <1>2 DEF ServedScreens
<1> DEFINE ok == (todo = Sent(todo, n))
<1>12. ok \in BOOLEAN /\ Advance(ok) /\ (ok => ServedArrays')
  BY <1>1, <1>5
<1> HIDE DEF ok
<1>13. Serves
  BY <1>2, <1>7, <1>9, <1>11, <1>12, ServesByParts
<1>14. QED
  BY <1>5, <1>7, <1>9, <1>10, <1>13 DEF CleanInv

LEMMA LedStepsServe ==
  ASSUME CleanInv, step \in 1..Len(Steps(kind)),
         MK2SendLeds \/ KKSendLeds \/ MikroSendLeds \/ Push2Tick
  PROVE  CleanInv' /\ Serves
<1>1. kind \in Kinds
  BY DEF CleanInv, Shape
<1>2. CASE MK2SendLeds
  <2>1. kind = "MK2" /\ SendReports(dirty \cap Range(Arrays(kind))) /\ Steps(kind)[step] = "leds"
    BY <1>2 DEF MK2SendLeds, Arrays, Steps
  <2>2. QED
    BY <2>1, SendReportsServes
<1>3. CASE KKSendLeds
  <2>1. kind = "KK" /\ SendReports(dirty \cap Range(Arrays(kind))) /\ Steps(kind)[step] = "leds"
    BY <1>3 DEF KKSendLeds, Arrays, Steps
  <2>2. QED
    BY <2>1, SendReportsServes
<1>4. CASE MikroSendLeds
  <2>1. kind = "Mikro" /\ SendReports(Range(Arrays(kind))) /\ Steps(kind)[step] = "leds"
    BY <1>4 DEF MikroSendLeds, Arrays, Steps
  <2>2. QED
    BY <2>1, SendReportsServes
<1>5. CASE Push2Tick
  <2>1. kind = "Push2" /\ SendReports(dirty \cap Range(Arrays(kind)))
    BY <1>5 DEF Push2Tick, Arrays
  <2>2. Screens(kind) = {}
    BY <1>1, <2>1, ScreensOfKinds
  <2>3. Steps(kind)[step] \in {"leds", "all"}
    BY <1>1, <2>1, StepsOfKinds
  <2>4. QED
    BY <2>1, <2>2, <2>3, SendReportsServes
<1>6. QED
  BY <1>2, <1>3, <1>4, <1>5

\* Jam: a source's cell is filled before its array is sent, and the array is marked then.
LEMMA JamSendLedsServes ==
  ASSUME CleanInv, JamSendLeds
  PROVE  CleanInv' /\ Serves
<1> DEFINE ready == dirty \cap DOMAIN Sources[kind]
           data == [c \in DOMAIN cells |->
                      IF \E s \in ready : Sources[kind][s] = c
                      THEN LET s == CHOOSE t \in ready : Sources[kind][t] = c
                           IN SourceValue(s, source[s])
                      ELSE cells[c]]
           marks == (dirty \ ready) \cup {Sources[kind][s][1] : s \in ready}
           todo == marks \cap Range(Arrays(kind))
<1>1. /\ kind \in Kinds /\ kind = "Jam" /\ kind' = kind /\ cells' = data /\ screen' = screen
      /\ glass' = glass /\ source' = source /\ Steps(kind)[step] = "leds"
  BY DEF JamSendLeds, CleanInv, Shape
<1>2. PICK n \in 0..Len(Arrays(kind)) :
        SendArrays(todo, n, data, marks, lost \ ready) /\ Advance(todo = Sent(todo, n))
  BY DEF JamSendLeds
<1>3. \A s \in ready : (CHOOSE t \in ready : Sources[kind][t] = Sources[kind][s]) = s
  BY <1>1, SourceCells
<1>4. /\ DOMAIN data = DOMAIN cells
      /\ \A s \in ready : data[Sources[kind][s]] = SourceValue(s, source[s])
      /\ \A c \in DOMAIN cells : (\A s \in ready : Sources[kind][s] # c) => data[c] = cells[c]
  <2>1. \A s \in ready : Sources[kind][s] \in DOMAIN cells
    BY <1>1, SourceCells DEF CleanInv, Shape
  <2> HIDE DEF ready
  <2>2. QED
    BY <2>1, <1>3
<1>5. /\ \A s \in ready : Sources[kind][s][1] \in marks
      /\ \A x \in dirty : x \in ready \/ x \in marks
      /\ ready \cap Range(Arrays(kind)) = {}
      /\ todo \subseteq marks
  BY <1>1, NamesAreApart
<1>6. /\ Sent(todo, n) \subseteq Range(Arrays(kind))
      /\ dirty' = marks \ Sent(todo, n)
      /\ lost' = (lost \ ready) \ Sent(todo, n)
      /\ DOMAIN shown' = DOMAIN shown
  BY <1>2 DEF SendArrays, Sent
<1>7. ready \subseteq DOMAIN Sources[kind]
  OBVIOUS
<1>8. marks \cap Range(Arrays(kind)) \subseteq todo
  OBVIOUS
<1> HIDE DEF data, marks, todo
<1>9. \A a \in Range(Arrays(kind)) :
        \/ a \in marks \/ a \in lost \ ready
        \/ \A c \in DOMAIN cells : c[1] = a => shown[c] = data[c]
  <2> SUFFICES ASSUME NEW a \in Range(Arrays(kind)), a \notin marks, a \notin lost \ ready
               PROVE  \A c \in DOMAIN cells : c[1] = a => shown[c] = data[c]
    OBVIOUS
  <2>1. a \notin dirty /\ a \notin lost
    BY <1>5
  <2>2. ArrayIsShown(a)
    BY <2>1, <1>1 DEF CleanInv, ArraysClean, IsMarked
  <2>3. \A c \in DOMAIN cells : c[1] = a => \A s \in ready : Sources[kind][s] # c
    BY <1>5
  <2>4. QED
    BY <2>2, <2>3, <1>4 DEF ArrayIsShown
<1>10. Shape
  BY DEF CleanInv
<1>11. ArraysClean' /\ (todo = Sent(todo, n) => ServedArrays')
  BY <1>1, <1>2, <1>4, <1>8, <1>9, <1>10, ReportsAreClean
<1>12. Screens(kind) = {}
  BY <1>1, ScreensOfKinds
<1>13. ScreensClean' /\ ServedScreens'
  BY <1>1, <1>12 DEF ScreensClean, ServedScreens
<1>14. \A s \in DOMAIN Sources[kind] : s \in lost' \/ IsCopied(s)'
  <2> SUFFICES ASSUME NEW s \in DOMAIN Sources[kind]
               PROVE  s \in lost' \/ IsCopied(s)'
    OBVIOUS
  <2>1. CASE s \in ready
    BY <2>1, <1>1, <1>4 DEF IsCopied
  <2>2. CASE s \notin ready
    <3>1. s \in lost \/ cells[Sources[kind][s]] = SourceValue(s, source[s])
      BY <2>2 DEF CleanInv, SourcesClean, IsCopied
    <3>2. CASE s \in lost
      BY <3>2, <2>2, <1>1, <1>6, NamesAreApart
    <3>3. CASE cells[Sources[kind][s]] = SourceValue(s, source[s])
      <4>1. \A t \in ready : Sources[kind][t] # Sources[kind][s]
        BY <2>2, <1>1, <1>7, SourceCells
      <4>2. Sources[kind][s] \in DOMAIN cells
        BY <1>1, SourceCells DEF CleanInv, Shape
      <4>3. QED
        BY <4>1, <4>2, <3>3, <1>1, <1>4 DEF IsCopied
    <3>4. QED
      BY <3>1, <3>2, <3>3
  <2>3. QED
    BY <2>1, <2>2
<1>15. SourcesClean' /\ ServedSources'
  BY <1>1, <1>14 DEF SourcesClean, ServedSources
<1>16. Shape'
  BY <1>1, <1>4, <1>6 DEF CleanInv, Shape
<1> DEFINE ok == (todo = Sent(todo, n))
<1>17. ok \in BOOLEAN /\ Advance(ok) /\ (ok => ServedArrays')
  BY <1>2, <1>11
<1> HIDE DEF ok
<1>18. Serves
  BY <1>1, <1>13, <1>15, <1>17, ServesByParts
<1>19. QED
  BY <1>11, <1>13, <1>15, <1>16, <1>18 DEF CleanInv

\* F1: everything is marked and sent.
LEMMA F1Serves ==
  ASSUME CleanInv, F1SendLedsAndDisplay
  PROVE  CleanInv' /\ Serves
<1> DEFINE data == [cells EXCEPT ![Sources[kind]["Display"]] =
                      SourceValue("Display", source["Display"])]
<1>1. /\ kind \in Kinds /\ kind = "F1" /\ kind' = kind /\ cells' = data /\ screen' = screen
      /\ glass' = glass /\ source' = source /\ Steps(kind)[step] = "leds"
  BY DEF F1SendLedsAndDisplay, CleanInv, Shape
<1>2. PICK n \in 0..1 : SendArrays({"Leds"}, n, data, dirty \cup {"Leds"}, lost) /\ Advance(n = 1)
  BY DEF F1SendLedsAndDisplay
<1>3. /\ Range(Arrays(kind)) = {"Leds"} /\ Len(Arrays(kind)) = 1
      /\ DOMAIN Sources[kind] = {"Display"} /\ Screens(kind) = {}
  BY <1>1, ArraysOfKinds, SourcesOfKinds, ScreensOfKinds
<1>4. Sources[kind]["Display"] \in DOMAIN cells
  BY <1>1, <1>3, SourceCells DEF CleanInv, Shape
<1>5. /\ DOMAIN data = DOMAIN cells
      /\ data[Sources[kind]["Display"]] = SourceValue("Display", source["Display"])
      /\ \A c \in DOMAIN cells : data[c] \in 0..127
  BY <1>1, <1>4 DEF CleanInv, Shape, SourceValue
<1>6. /\ Sent({"Leds"}, n) \subseteq {"Leds"}
      /\ dirty' = (dirty \cup {"Leds"}) \ Sent({"Leds"}, n)
      /\ DOMAIN shown' = DOMAIN shown
  BY <1>2 DEF SendArrays, Sent
<1>7. n = 1 => Sent({"Leds"}, n) = {"Leds"}
  BY <1>1 DEF Sent, Arrays, OneArray
<1> HIDE DEF data
<1>8. Shape
  BY DEF CleanInv
<1>9. \A a \in Range(Arrays(kind)) : a \in dirty \cup {"Leds"}
  BY <1>3
<1>10. ArraysClean' /\ (n = 1 => ServedArrays')
  <2> DEFINE marks == dirty \cup {"Leds"}
             all == {"Leds"}
  <2>1. kind # "Push" /\ marks \cap Range(Arrays(kind)) \subseteq all
    BY <1>1, <1>3
  <2>2. SendArrays(all, n, data, marks, lost) /\ (n = 1 => all = Sent(all, n))
    BY <1>2, <1>7
  <2>3. \A a \in Range(Arrays(kind)) : a \in marks
    BY <1>9
  <2> HIDE DEF marks, all
  <2>4. /\ ArraysClean'
        /\ all = Sent(all, n) /\ marks \cap Range(Arrays(kind)) \subseteq all => ServedArrays'
    BY <2>1, <2>2, <2>3, <1>1, <1>5, <1>8, ReportsAreClean
  <2>5. QED
    BY <2>1, <2>2, <2>4
<1>11. ScreensClean' /\ ServedScreens'
  BY <1>1, <1>3 DEF ScreensClean, ServedScreens
<1>12. \A s \in DOMAIN Sources[kind] : IsCopied(s)'
  BY <1>1, <1>3, <1>5 DEF IsCopied
<1>13. SourcesClean' /\ ServedSources'
  BY <1>1, <1>12 DEF SourcesClean, ServedSources
<1>14. Shape'
  BY <1>1, <1>5, <1>6 DEF CleanInv, Shape
<1> DEFINE ok == (n = 1)
<1>15. ok \in BOOLEAN /\ Advance(ok) /\ (ok => ServedArrays')
  BY <1>2, <1>10
<1> HIDE DEF ok
<1>16. Serves
  BY <1>1, <1>11, <1>13, <1>15, ServesByParts
<1>17. QED
  BY <1>10, <1>11, <1>13, <1>14, <1>16 DEF CleanInv

\* MK2: a frame that did not get through is forgotten.
LEMMA FramesServe ==
  ASSUME CleanInv, MK2SendFrames
  PROVE  CleanInv' /\ Serves
<1> DEFINE todo == Screens(kind) \cap dirty
<1>1. /\ kind \in Kinds /\ kind = "MK2" /\ kind' = kind /\ cells' = cells /\ shown' = shown
      /\ screen' = screen /\ source' = source /\ prev' = prev /\ Steps(kind)[step] = "screen"
  BY DEF MK2SendFrames, CleanInv, Shape
<1>2. PICK result \in [todo -> Results] :
        LET whole == {s \in todo : result[s] = "whole"}
        IN /\ glass' = [s \in DOMAIN glass |->
                          IF s \in todo THEN Outcome(screen[s], glass[s], result[s])
                          ELSE glass[s]]
           /\ dirty' = dirty \ todo
           /\ lost' = (lost \ whole) \cup (todo \ whole)
           /\ Advance(whole = todo)
  BY DEF MK2SendFrames
<1> DEFINE whole == {s \in todo : result[s] = "whole"}
           ok == (whole = todo)
<1>3. /\ todo \subseteq Screens(kind) /\ whole \subseteq todo
      /\ \A s \in Screens(kind) : s \in dirty => s \in todo
  OBVIOUS
<1>4. \A s \in whole : glass'[s] = screen[s]
  BY <1>2 DEF Outcome, CleanInv, Shape
<1>5. \A s \in Screens(kind) : s \notin todo => glass'[s] = glass[s]
  BY <1>2 DEF CleanInv, Shape
<1>6. /\ dirty' = dirty \ todo /\ lost' = (lost \ whole) \cup (todo \ whole) /\ Advance(ok)
      /\ DOMAIN glass' = DOMAIN glass
  BY <1>2
<1>7. ok \in BOOLEAN
  OBVIOUS
<1>8. ok => whole = todo
  OBVIOUS
<1> HIDE DEF todo, whole, ok
<1>9. \A s \in Screens(kind) : s \in lost' \/ glass'[s] = screen[s]
  BY <1>3, <1>4, <1>5, <1>6 DEF CleanInv, ScreensClean
<1>10. ScreensClean' /\ ServedScreens'
  BY <1>1, <1>9 DEF ScreensClean, ServedScreens
<1>11. /\ ArraysClean' /\ SourcesClean'
       /\ ServedArrays => ServedArrays'
       /\ ServedSources => ServedSources'
  BY <1>1, <1>3, <1>6, NamesAreApart, ArraysStay
<1>12. Shape'
  BY <1>1, <1>6 DEF CleanInv, Shape
<1>13. Serves
  BY <1>1, <1>6, <1>7, <1>10, <1>11, ServesByParts
<1>14. QED
  BY <1>10, <1>11, <1>12, <1>13 DEF CleanInv

\* Mikro and the Push 2 display.
LEMMA FrameServes ==
  ASSUME CleanInv, step \in 1..Len(Steps(kind)), MikroSendFrame \/ Push2DisplayTick
  PROVE  CleanInv' /\ Serves
<1>1. kind \in {"Mikro", "Push2Display"} /\ SendFrame
  BY DEF MikroSendFrame, Push2DisplayTick
<1>2. /\ kind \in Kinds /\ kind' = kind /\ cells' = cells /\ shown' = shown /\ prev' = prev
      /\ screen' = screen /\ source' = source /\ lost' = lost
  BY <1>1 DEF SendFrame, CleanInv, Shape
<1>3. PICK result \in Results :
        /\ "Screen0" \in dirty \/ result = "none"
        /\ glass' = [glass EXCEPT !["Screen0"] = Outcome(screen["Screen0"], @, result)]
        /\ dirty' = IF result = "whole" THEN dirty \ {"Screen0"} ELSE dirty
        /\ Advance("Screen0" \in dirty => result = "whole")
  BY <1>1 DEF SendFrame
<1>4. Screens(kind) = {"Screen0"}
  BY <1>1, <1>2, ScreensOfKinds
<1>5. /\ result = "whole" => glass'["Screen0"] = screen["Screen0"]
      /\ result = "none" => glass'["Screen0"] = glass["Screen0"]
      /\ DOMAIN glass' = DOMAIN glass
  BY <1>3, <1>4 DEF Outcome, CleanInv, Shape
<1>6. "Screen0" \in dirty \/ "Screen0" \in lost \/ glass["Screen0"] = screen["Screen0"]
  BY <1>4 DEF CleanInv, ScreensClean
<1>7. ScreensClean'
  <2>1. "Screen0" \in dirty' \/ "Screen0" \in lost' \/ glass'["Screen0"] = screen'["Screen0"]
    BY <1>2, <1>3, <1>5, <1>6
  <2>2. QED
    BY <2>1, <1>2, <1>4 DEF ScreensClean
<1> DEFINE ok == ("Screen0" \in dirty => result = "whole")
<1>8. ok => ServedScreens'
  <2>1. ok => "Screen0" \in lost' \/ glass'["Screen0"] = screen'["Screen0"]
    BY <1>2, <1>3, <1>5, <1>6
  <2>2. QED
    BY <2>1, <1>2, <1>4 DEF ServedScreens
<1>9. ok \in BOOLEAN /\ Advance(ok)
  BY <1>3
<1> HIDE DEF ok
<1>10. /\ ArraysClean' /\ SourcesClean'
       /\ ServedArrays => ServedArrays'
       /\ ServedSources => ServedSources'
  <2>1. \A x \in Range(Arrays(kind)) \cup DOMAIN Sources[kind] : x # "Screen0"
    BY <1>2, <1>4, NamesAreApart
  <2>2. QED
    BY <2>1, <1>2, <1>3, ArraysStay
<1>11. Steps(kind)[step] \in {"leds", "all"} => ServedArrays' /\ ServedSources'
  <2>1. CASE kind = "Mikro"
    <3>1. Steps(kind)[step] = "screen"
      BY <2>1 DEF MikroSendFrame, Push2DisplayTick, Steps
    <3>2. QED
      BY <3>1
  <2>2. CASE kind = "Push2Display"
    <3>1. Range(Arrays(kind)) = {} /\ DOMAIN Sources[kind] = {}
      BY <2>2, <1>2, ArraysOfKinds, SourcesOfKinds
    <3>2. QED
      BY <3>1, <1>2 DEF ServedArrays, ServedSources
  <2>3. QED
    BY <2>1, <2>2, <1>1
<1>12. Shape'
  BY <1>1, <1>2, <1>5 DEF CleanInv, Shape
<1>13. Serves
  BY <1>2, <1>8, <1>9, <1>10, <1>11, ServesByParts
<1>14. QED
  BY <1>7, <1>10, <1>12, <1>13 DEF CleanInv

\* KK: what goes to its displays is not what they hold, and `lost' says so for ever.
LEMMA DisplayDataServes ==
  ASSUME CleanInv, KKSendDisplayData
  PROVE  CleanInv' /\ Serves
<1>1. /\ kind \in Kinds /\ kind = "KK" /\ kind' = kind /\ cells' = cells /\ shown' = shown
      /\ prev' = prev /\ screen' = screen /\ source' = source /\ lost' = lost /\ dirty' = dirty
      /\ Steps(kind)[step] = "screen"
  BY DEF KKSendDisplayData, CleanInv, Shape
<1>2. PICK result \in Results :
        /\ glass' = [glass EXCEPT !["Screen0"] = Outcome(Blank, @, result)]
        /\ Advance(result = "whole")
  BY DEF KKSendDisplayData
<1>3. Screens(kind) = {"Screen0"} /\ "Screen0" \in lost
  BY <1>1, ScreensOfKinds DEF CleanInv, Shape
<1>4. ScreensClean' /\ ServedScreens'
  BY <1>1, <1>3 DEF ScreensClean, ServedScreens
<1>5. /\ ArraysClean' /\ SourcesClean'
      /\ ServedArrays => ServedArrays'
      /\ ServedSources => ServedSources'
  BY <1>1, ArraysStay
<1>6. Shape'
  BY <1>1, <1>2 DEF CleanInv, Shape
<1> DEFINE ok == (result = "whole")
<1>7. ok \in BOOLEAN /\ Advance(ok)
  BY <1>2
<1> HIDE DEF ok
<1>8. Serves
  BY <1>1, <1>4, <1>5, <1>7, ServesByParts
<1>9. QED
  BY <1>4, <1>5, <1>6, <1>8 DEF CleanInv

\* Push: the text, and the LEDs that differ from what was sent before.
LEMMA PushServes ==
  ASSUME CleanInv, PushTick
  PROVE  CleanInv' /\ Serves
<1> DEFINE differ == {c \in DOMAIN cells : prev[c] # cells[c]}
           drawn == "Screen0" \in dirty
<1>1. /\ kind \in Kinds /\ kind = "Push" /\ kind' = kind /\ cells' = cells /\ screen' = screen
      /\ source' = source
  BY DEF PushTick, CleanInv, Shape
<1>2. PICK text \in Results, stop \in {c[2] : c \in differ} \cup {PushLed["Unknown"]} :
        LET tried == {c \in differ : c[2] <= stop}
            written == {c \in differ : c[2] < stop}
        IN /\ drawn \/ text = "none"
           /\ prev' = [c \in DOMAIN prev |-> IF c \in tried THEN cells[c] ELSE prev[c]]
           /\ shown' = [c \in DOMAIN shown |-> IF c \in written THEN cells[c] ELSE shown[c]]
           /\ glass' = [glass EXCEPT !["Screen0"] = Outcome(screen["Screen0"], @, text)]
           /\ dirty' = dirty \ {"Screen0"}
           /\ lost' = (CASE ~drawn -> lost
                        [] drawn /\ text = "whole" -> lost \ {"Screen0"}
                        [] OTHER -> lost \cup {"Screen0"})
                      \cup (IF tried = written THEN {} ELSE {"Leds"})
           /\ Advance(tried = written /\ (drawn => text = "whole"))
  BY <1>1 DEF PushTick
<1> DEFINE ok == ({c \in differ : c[2] <= stop} = {c \in differ : c[2] < stop}
                  /\ (drawn => text = "whole"))
<1>3. ok \in BOOLEAN /\ Advance(ok)
  BY <1>2
<1>4. /\ DOMAIN shown' = DOMAIN shown /\ DOMAIN glass' = DOMAIN glass
      /\ glass' = [glass EXCEPT !["Screen0"] = Outcome(screen["Screen0"], @, text)]
      /\ drawn \/ text = "none"
  BY <1>2
<1> DEFINE rest == CASE ~drawn -> lost
                     [] drawn /\ text = "whole" -> lost \ {"Screen0"}
                     [] OTHER -> lost \cup {"Screen0"}
<1>5. rest \subseteq lost'
  BY <1>2
<1>6. /\ "Leds" \in lost => "Leds" \in rest
      /\ ~drawn => rest = lost
      /\ drawn /\ text # "whole" => "Screen0" \in rest
  OBVIOUS
<1> HIDE DEF ok, rest, differ
<1>7. Screens(kind) = {"Screen0"} /\ Range(Arrays(kind)) = {"Leds"} /\ DOMAIN Sources[kind] = {}
  BY <1>1, ScreensOfKinds, ArraysOfKinds, SourcesOfKinds
<1>8. "Leds" \in lost'
  BY <1>1, <1>5, <1>6 DEF CleanInv, Shape
<1>9. "Screen0" \in lost' \/ glass'["Screen0"] = screen["Screen0"]
  <2>1. CASE drawn /\ text # "whole"
    BY <2>1, <1>5, <1>6
  <2>2. CASE drawn /\ text = "whole"
    BY <2>2, <1>4, <1>7 DEF Outcome, CleanInv, Shape
  <2>3. CASE ~drawn
    <3>1. "Screen0" \in lost \/ glass["Screen0"] = screen["Screen0"]
      BY <2>3, <1>7 DEF CleanInv, ScreensClean
    <3>2. glass'["Screen0"] = glass["Screen0"]
      BY <2>3, <1>4, <1>7 DEF Outcome, CleanInv, Shape
    <3>3. QED
      BY <2>3, <3>1, <3>2, <1>1, <1>5, <1>6
  <2>4. QED
    BY <2>1, <2>2, <2>3
<1>10. ArraysClean' /\ ServedArrays' /\ SourcesClean' /\ ServedSources'
  BY <1>1, <1>7, <1>8 DEF ArraysClean, ServedArrays, SourcesClean, ServedSources
<1>11. ScreensClean' /\ ServedScreens'
  BY <1>1, <1>7, <1>9 DEF ScreensClean, ServedScreens
<1>12. Shape'
  BY <1>1, <1>4, <1>8 DEF CleanInv, Shape
<1>13. Serves
  BY <1>1, <1>3, <1>10, <1>11, ServesByParts
<1>14. QED
  BY <1>10, <1>11, <1>12, <1>13 DEF CleanInv

\* read() and the ticks of the other devices touch no surface.
LEMMA NothingShows ==
  ASSUME CleanInv,
         UNCHANGED <<kind, cells, shown, dirty, prev, source, screen, glass, lost>>
  PROVE  CleanInv' /\ \A op : Served(op) <=> Served(op)'
<1>1. CleanInv'
  BY DEF CleanInv, Shape, ArraysClean, ScreensClean, SourcesClean, IsMarked, IsCopied, ArrayIsShown
<1>2. \A op : Served(op) <=> Served(op)'
  BY DEF Served, ServedArrays, ServedScreens, ServedSources, IsCopied, ArrayIsShown
<1>3. QED
  BY <1>1, <1>2

LEMMA ReadServes ==
  ASSUME CleanInv, Read
  PROVE  CleanInv' /\ Serves
<1>1. UNCHANGED <<kind, cells, shown, dirty, prev, source, screen, glass, lost>> /\ Advance(TRUE)
      /\ Steps(kind)[step] = "read"
  BY DEF Read
<1>2. CleanInv' /\ \A op : Served(op) <=> Served(op)'
  BY <1>1, NothingShows
<1>3. Served(Steps(kind)[step])
  BY <1>1 DEF Served
<1>4. QED
  BY <1>1, <1>2, <1>3 DEF Serves

LEMMA TickServes ==
  ASSUME CleanInv, step \in 1..Len(Steps(kind)), Tick
  PROVE  CleanInv' /\ Serves
<1>1. CASE MK2SendLeds \/ KKSendLeds \/ MikroSendLeds \/ Push2Tick
  BY <1>1, LedStepsServe
<1>2. CASE JamSendLeds
  BY <1>2, JamSendLedsServes
<1>3. CASE F1SendLedsAndDisplay
  BY <1>3, F1Serves
<1>4. CASE MK2SendFrames
  BY <1>4, FramesServe
<1>5. CASE MikroSendFrame \/ Push2DisplayTick
  BY <1>5, FrameServes
<1>6. CASE KKSendDisplayData
  BY <1>6, DisplayDataServes
<1>7. CASE PushTick
  BY <1>7, PushServes
<1>8. CASE Read
  BY <1>8, ReadServes
<1>9. QED
  BY <1>1, <1>2, <1>3, <1>4, <1>5, <1>6, <1>7, <1>8 DEF Tick

-----------------------------------------------------------------------------
(* THEOREM: what is clean is shown.                                        *)

\* The turn and the static state stay in their range.
Turns ==
  /\ kind \in Kinds
  /\ present \in 1..MaxPresent
  /\ turn \in 1..present
  /\ step \in 1..Len(Steps(kind))
  /\ calm \in 0..Len(Steps(kind))

LEMMA NextTurn ==
  ASSUME NEW p \in Nat \ {0}, NEW t \in 1..p
  PROVE  1 + (t % p) = IF t < p THEN t + 1 ELSE 1
<1>1. CASE t < p
  BY <1>1
<1>2. CASE t = p
  BY <1>2
<1>3. QED
  BY <1>1, <1>2

LEMMA NextStep ==
  ASSUME NEW L \in 1..3, NEW s \in 1..L
  PROVE  1 + (s % L) = IF s < L THEN s + 1 ELSE 1
<1>1. L \in Nat \ {0}
  OBVIOUS
<1>2. QED
  BY <1>1, NextTurn

\* Each of the ticks advances.
LEMMA TickAdvances ==
  ASSUME Tick
  PROVE  kind' = kind /\ present' = present /\ \E ok : Advance(ok)
<1>1. CASE MK2SendLeds \/ KKSendLeds \/ MikroSendLeds \/ Push2Tick
  BY <1>1 DEF MK2SendLeds, KKSendLeds, MikroSendLeds, Push2Tick, SendReports
<1>2. CASE JamSendLeds
  BY <1>2 DEF JamSendLeds
<1>3. CASE F1SendLedsAndDisplay
  BY <1>3 DEF F1SendLedsAndDisplay
<1>4. CASE MK2SendFrames
  BY <1>4 DEF MK2SendFrames
<1>5. CASE MikroSendFrame \/ Push2DisplayTick
  BY <1>5 DEF MikroSendFrame, Push2DisplayTick, SendFrame
<1>6. CASE KKSendDisplayData
  BY <1>6 DEF KKSendDisplayData
<1>7. CASE PushTick
  BY <1>7 DEF PushTick
<1>8. CASE Read
  BY <1>8 DEF Read
<1>9. QED
  BY <1>1, <1>2, <1>3, <1>4, <1>5, <1>6, <1>7, <1>8 DEF Tick

\* A step of Next is a tick of the device, one of another device, or a change.
LEMMA TurnsStep ==
  ASSUME Turns, [Next]_vars
  PROVE  Turns'
<1>1. Len(Steps(kind)) \in 1..3 /\ present \in Nat \ {0}
  BY StepsOfKinds, MaxPresentAssumption DEF Turns
<1>2. ASSUME Pass, kind' = kind, present' = present, calm' \in 0..Len(Steps(kind))
      PROVE  Turns'
  <2>1. turn' = IF turn < present THEN turn + 1 ELSE 1
    BY <1>1, <1>2, NextTurn DEF Turns, Pass
  <2>2. step' = IF step < Len(Steps(kind)) THEN step + 1 ELSE 1
    BY <1>1, <1>2, NextStep DEF Turns, Pass
  <2>3. QED
    BY <1>1, <1>2, <2>1, <2>2 DEF Turns
<1>3. ASSUME NEW ok, Advance(ok), kind' = kind, present' = present
      PROVE  Turns'
  <2>1. calm' \in 0..Len(Steps(kind))
    BY <1>1, <1>3 DEF Advance, Turns
  <2>2. QED
    BY <1>2, <1>3, <2>1 DEF Advance
<1>4. CASE Tick
  <2>1. kind' = kind /\ present' = present /\ \E ok : Advance(ok)
    BY <1>4, TickAdvances
  <2>2. QED
    BY <1>3, <2>1
<1>5. CASE OtherTick
  BY <1>2, <1>5 DEF OtherTick, Turns
<1>6. CASE ClientDraws \/ Replug
  <2>1. UNCHANGED <<kind, present, step, turn>> /\ calm' = 0
    BY <1>6 DEF ClientDraws, Replug, SetLed, Draw, DrawSource
  <2>2. QED
    BY <1>1, <2>1 DEF Turns
<1>7. CASE UNCHANGED vars
  BY <1>7 DEF vars, Turns
<1>8. QED
  BY <1>4, <1>5, <1>6, <1>7 DEF Next

LEMMA CleanStep ==
  ASSUME CleanInv, Turns, [Next]_vars
  PROVE  CleanInv'
<1>1. CASE Tick
  BY <1>1, TickServes DEF Turns
<1>2. CASE OtherTick
  BY <1>2, NothingShows DEF OtherTick
<1>3. CASE ClientDraws
  BY <1>3, SetLedIsClean, DrawIsClean, DrawSourceIsClean DEF ClientDraws
<1>4. CASE Replug
  BY <1>4, ReplugIsClean
<1>5. CASE UNCHANGED vars
  BY <1>5, NothingShows DEF vars
<1>6. QED
  BY <1>1, <1>2, <1>3, <1>4, <1>5 DEF Next

LEMMA InitTurns == Init => Turns
<1> SUFFICES ASSUME Init PROVE Turns
  OBVIOUS
<1>1. kind \in Kinds /\ present \in 1..MaxPresent /\ turn = 1 /\ step = 1 /\ calm = 0
  BY DEF Init
<1>2. Len(Steps(kind)) \in 1..3
  BY <1>1, StepsOfKinds
<1>3. QED
  BY <1>1, <1>2, MaxPresentAssumption DEF Turns

LEMMA AlwaysClean == Spec => [](CleanInv /\ Turns)
<1>1. Init => CleanInv /\ Turns
  BY InitClean, InitTurns
<1>2. CleanInv /\ Turns /\ [Next]_vars => (CleanInv /\ Turns)'
  BY CleanStep, TurnsStep
<1>3. QED
  BY <1>1, <1>2, PTL DEF Spec

\* A surface of a controller that is not marked dirty looks on the hardware as it does in
\* memory, whatever reports failed and whenever the device was replugged, but for the
\* changes the code itself forgets.
THEOREM CleanShown == Spec => []CleanIsShown
<1>1. CleanInv => CleanIsShown
  BY ScreenMarks DEF CleanInv, CleanIsShown, ArraysClean
<1>2. QED
  BY <1>1, AlwaysClean, PTL

-----------------------------------------------------------------------------
(* THEOREM: a device catches up.                                           *)

\* The step of the device's next tick, counted from 0.
Own == (step - 1 + (IF turn = 1 THEN 0 ELSE present - turn + 1)) % Len(Steps(kind))

\* That step was done, or the ticks that make the round complete come to it.
IsDue(i) == \E j \in 0..Len(Steps(kind)) - calm - 1 :
              i - 1 = (Own + j * present) % Len(Steps(kind))

RoundInv ==
  Coprime(present, Len(Steps(kind))) =>
    \A i \in 1..Len(Steps(kind)) : Served(Steps(kind)[i]) \/ IsDue(i)

\* A tick of another device leaves the step of the device's next one as it is.
LEMMA OwnStays ==
  ASSUME NEW L \in 1..3, NEW p \in Nat \ {0}, NEW t \in 2..p, NEW s \in 1..L
  PROVE  LET t1 == 1 + (t % p)
             s1 == 1 + (s % L)
         IN (s1 - 1 + (IF t1 = 1 THEN 0 ELSE p - t1 + 1)) % L = (s - 1 + (p - t + 1)) % L
<1> DEFINE t1 == 1 + (t % p)
           s1 == 1 + (s % L)
<1>1. t1 = IF t < p THEN t + 1 ELSE 1
  <2>1. t \in 1..p
    OBVIOUS
  <2>2. QED
    BY <2>1, NextTurn
<1>2. s1 = IF s < L THEN s + 1 ELSE 1
  BY NextStep
<1> HIDE DEF t1, s1
<1>3. CASE L = 1
  BY <1>1, <1>2, <1>3
<1>4. CASE L = 2
  BY <1>1, <1>2, <1>4
<1>5. CASE L = 3
  BY <1>1, <1>2, <1>5
<1>6. QED
  BY <1>3, <1>4, <1>5 DEF t1, s1

\* A tick of the device moves it by the number of the devices.
LEMMA OwnMoves ==
  ASSUME NEW L \in 1..3, NEW p \in Nat \ {0}, NEW s \in 1..L
  PROVE  LET t1 == 1 + (1 % p)
             s1 == 1 + (s % L)
         IN (s1 - 1 + (IF t1 = 1 THEN 0 ELSE p - t1 + 1)) % L = (s - 1 + p) % L
<1> DEFINE t1 == 1 + (1 % p)
           s1 == 1 + (s % L)
<1>1. t1 = IF 1 < p THEN 2 ELSE 1
  <2>1. 1 \in 1..p
    OBVIOUS
  <2>2. t1 = IF 1 < p THEN 1 + 1 ELSE 1
    BY <2>1, NextTurn
  <2>3. QED
    BY <2>2
<1>2. s1 = IF s < L THEN s + 1 ELSE 1
  BY NextStep
<1> HIDE DEF t1, s1
<1>3. CASE L = 1
  BY <1>1, <1>2, <1>3
<1>4. CASE L = 2
  BY <1>1, <1>2, <1>4
<1>5. CASE L = 3
  BY <1>1, <1>2, <1>5
<1>6. QED
  BY <1>3, <1>4, <1>5 DEF t1, s1

\* What is j ticks ahead before a tick is j - 1 ticks ahead after it.
LEMMA DueMoves ==
  ASSUME NEW L \in 1..3, NEW p \in Nat, NEW e \in 0..2, NEW j \in 1..2
  PROVE  (((e + p) % L) + (j - 1) * p) % L = (e + j * p) % L
<1>1. CASE j = 1
  <2>1. (((e + p) % L) + 0 * p) % L = (e + p) % L
    <3>1. CASE L = 1
      BY <3>1
    <3>2. CASE L = 2
      BY <3>2
    <3>3. CASE L = 3
      BY <3>3
    <3>4. QED
      BY <3>1, <3>2, <3>3
  <2>2. QED
    BY <2>1, <1>1
<1>2. CASE j = 2
  <2>1. (((e + p) % L) + 1 * p) % L = (e + 2 * p) % L
    <3>1. CASE L = 1
      BY <3>1
    <3>2. CASE L = 2
      BY <3>2
    <3>3. CASE L = 3
      BY <3>3
    <3>4. QED
      BY <3>1, <3>2, <3>3
  <2>2. QED
    BY <2>1, <1>2
<1>3. QED
  BY <1>1, <1>2

\* Unless the number of devices is a multiple of that of the steps, a round of ticks comes
\* to every step.
LEMMA RoundIsComplete ==
  ASSUME NEW L \in 1..3, NEW p \in Nat \ {0}, Coprime(p, L), NEW e \in 0..L - 1, NEW i \in 1..L
  PROVE  \E j \in 0..L - 1 : i - 1 = (e + j * p) % L
<1>1. L = 1 \/ p % L # 0
  <2> SUFFICES ASSUME L # 1, p % L = 0
               PROVE  FALSE
    OBVIOUS
  <2>1. L \in 2..p
    <3>1. CASE L = 2
      BY <3>1
    <3>2. CASE L = 3
      BY <3>2
    <3>3. QED
      BY <3>1, <3>2
  <2>2. L % L = 0
    OBVIOUS
  <2>3. QED
    BY <2>1, <2>2 DEF Coprime
<1>2. CASE L = 1
  <2>1. i - 1 = (e + 0 * p) % L
    BY <1>2
  <2>2. QED
    BY <2>1
<1>3. CASE L = 2
  <2>1. i - 1 = (e + 0 * p) % 2 \/ i - 1 = (e + 1 * p) % 2
    BY <1>1, <1>3
  <2>2. QED
    BY <2>1, <1>3
<1>4. CASE L = 3
  <2>1. \/ i - 1 = (e + 0 * p) % 3
        \/ i - 1 = (e + 1 * p) % 3
        \/ i - 1 = (e + 2 * p) % 3
    BY <1>1, <1>4
  <2>2. QED
    BY <2>1, <1>4
<1>5. QED
  BY <1>2, <1>3, <1>4

\* Before the first tick of a round every step is due.
LEMMA AllAreDue ==
  ASSUME Turns, calm = 0
  PROVE  RoundInv
<1>1. Len(Steps(kind)) \in 1..3 /\ present \in Nat \ {0}
  BY StepsOfKinds, MaxPresentAssumption DEF Turns
<1>2. Own \in 0..Len(Steps(kind)) - 1
  <2> DEFINE m == step - 1 + (IF turn = 1 THEN 0 ELSE present - turn + 1)
  <2>1. m \in Int
    BY <1>1 DEF Turns
  <2> HIDE DEF m
  <2>2. \A L \in 1..3 : m % L \in 0..L - 1
    BY <2>1
  <2>3. QED
    BY <2>2, <1>1 DEF Own, m
<1>3. ASSUME NEW i \in 1..Len(Steps(kind)), Coprime(present, Len(Steps(kind)))
      PROVE  IsDue(i)
  <2> DEFINE L == Len(Steps(kind))
             own == Own
  <2>1. own \in 0..L - 1 /\ L \in 1..3 /\ i \in 1..L /\ Coprime(present, L)
    BY <1>1, <1>2, <1>3
  <2>2. (\E j \in 0..L - 1 : i - 1 = (own + j * present) % L) => IsDue(i)
    <3>1. L - calm - 1 = L - 1
      BY <1>1
    <3>2. QED
      BY <3>1 DEF IsDue
  <2> HIDE DEF L, own
  <2>3. \E j \in 0..L - 1 : i - 1 = (own + j * present) % L
    BY <2>1, <1>1, RoundIsComplete
  <2>4. QED
    BY <2>2, <2>3
<1>4. QED
  BY <1>3 DEF RoundInv

\* A step means the same after a tick.
LEMMA NowServed ==
  ASSUME kind' = kind, NEW i, \A op : op = Steps(kind)[i] => Served(op)'
  PROVE  Served(Steps(kind)[i])'
<1>1. \A op : op = (Steps(kind)[i])' => Served(op)'
  OBVIOUS
<1>2. QED
  BY <1>1 DEF Served

\* A tick of the device that succeeds serves the step that is due first.
LEMMA RoundTick ==
  ASSUME Turns, Turns', RoundInv, kind' = kind, present' = present, Serves
  PROVE  RoundInv'
<1> DEFINE L == Len(Steps(kind))
<1>1. L \in 1..3 /\ present \in Nat \ {0} /\ step \in 1..L /\ calm \in 0..L
  BY StepsOfKinds, MaxPresentAssumption DEF Turns
<1>2. PICK ok \in BOOLEAN :
        /\ Advance(ok)
        /\ ok => \A op : Served(op) \/ op = Steps(kind)[step] => Served(op)'
  BY DEF Serves
<1>3. CASE ~ok
  <2>1. calm' = 0
    BY <1>2, <1>3 DEF Advance
  <2>2. (Turns /\ calm = 0 => RoundInv)'
    BY AllAreDue, PTL
  <2>3. QED
    BY <2>1, <2>2
<1>4. CASE ok
  <2>1. turn = 1 /\ Pass /\ calm' = IF calm < L THEN calm + 1 ELSE calm
    BY <1>1, <1>2, <1>4 DEF Advance, Turns
  <2>2. Own = step - 1
    <3>1. Own = (step - 1) % L
      BY <2>1, <1>1 DEF Own
    <3> HIDE DEF L
    <3>2. QED
      BY <3>1, <1>1
  <2>3. Own' = (Own + present) % L
    <3>1. Own' = (step' - 1 + (IF turn' = 1 THEN 0 ELSE present - turn' + 1)) % L
      BY DEF Own
    <3>2. turn' = 1 + (1 % present) /\ step' = 1 + (step % L)
      BY <2>1 DEF Pass
    <3> HIDE DEF L
    <3>3. QED
      BY <3>1, <3>2, <2>2, <1>1, OwnMoves
  <2> SUFFICES ASSUME Coprime(present, L), NEW i \in 1..L
               PROVE  Served(Steps(kind)[i])' \/ IsDue(i)'
    BY DEF RoundInv
  <2>4. Served(Steps(kind)[i]) \/ IsDue(i)
    BY DEF RoundInv
  <2>5. ASSUME Served(Steps(kind)[i]) \/ i = step
        PROVE  Served(Steps(kind)[i])'
    <3>1. \A op : Served(op) \/ op = Steps(kind)[step] => Served(op)'
      BY <1>2, <1>4
    <3>2. \A op : op = Steps(kind)[i] => Served(op)'
      BY <3>1, <2>5
    <3>3. QED
      BY <3>2, NowServed
  <2>6. CASE IsDue(i) /\ i # step
    <3>1. PICK j \in 0..L - calm - 1 : i - 1 = (Own + j * present) % L
      BY <2>6 DEF IsDue
    <3> DEFINE own == Own
    <3>2. own \in 0..L - 1 /\ own = step - 1
      BY <2>2, <1>1
    <3>3. calm' = IF calm < L THEN calm + 1 ELSE calm
      BY <2>1
    <3>4. Own' = (own + present) % L
      BY <2>3
    <3>5. i - 1 = (own + j * present) % L
      BY <3>1
    <3>6. (\E k \in 0..L - calm' - 1 : i - 1 = (Own' + k * present) % L) => IsDue(i)'
      BY DEF IsDue
    <3> HIDE DEF L, own
    <3>7. j # 0
      <4> SUFFICES ASSUME j = 0 PROVE FALSE
        OBVIOUS
      <4>1. own + j * present = own /\ own % L = own
        BY <3>2, <1>1
      <4>2. QED
        BY <4>1, <3>2, <3>5, <2>6, <1>1
    <3>8. j \in 1..2 /\ j - 1 \in 0..L - calm' - 1
      BY <3>1, <3>3, <3>7, <1>1
    <3>9. (((own + present) % L) + (j - 1) * present) % L = (own + j * present) % L
      <4>1. own \in 0..2 /\ present \in Nat
        BY <3>2, <1>1
      <4>2. QED
        BY <4>1, <3>8, <1>1, DueMoves
    <3>10. i - 1 = (Own' + (j - 1) * present) % L
      BY <3>4, <3>5, <3>9
    <3>11. QED
      BY <3>6, <3>8, <3>10
  <2>7. QED
    BY <2>4, <2>5, <2>6
<1>5. QED
  BY <1>3, <1>4

LEMMA RoundStep ==
  ASSUME CleanInv, Turns, Turns', RoundInv, [Next]_vars
  PROVE  RoundInv'
<1>1. CASE Tick
  BY <1>1, TickServes, TickAdvances, RoundTick DEF Turns
<1>2. CASE OtherTick
  <2> DEFINE L == Len(Steps(kind))
  <2>1. /\ turn # 1 /\ Pass /\ kind' = kind /\ present' = present /\ calm' = calm
        /\ \A op : Served(op) <=> Served(op)'
    BY <1>2, NothingShows DEF OtherTick
  <2>2. L \in 1..3 /\ present \in Nat \ {0} /\ step \in 1..L /\ turn \in 2..present
    BY <2>1, StepsOfKinds, MaxPresentAssumption DEF Turns
  <2>3. Own' = Own
    <3>1. Own' = (step' - 1 + (IF turn' = 1 THEN 0 ELSE present - turn' + 1)) % L
      BY <2>1 DEF Own
    <3>2. turn' = 1 + (turn % present) /\ step' = 1 + (step % L)
      BY <2>1 DEF Pass
    <3>3. Own = (step - 1 + (present - turn + 1)) % L
      BY <2>1 DEF Own
    <3> HIDE DEF L
    <3>4. QED
      BY <3>1, <3>2, <3>3, <2>2, OwnStays
  <2>4. \A i : IsDue(i)' <=> IsDue(i)
    BY <2>1, <2>3 DEF IsDue
  <2> SUFFICES ASSUME Coprime(present, L), NEW i \in 1..L
               PROVE  Served(Steps(kind)[i])' \/ IsDue(i)'
    BY <2>1 DEF RoundInv
  <2>5. Served(Steps(kind)[i]) => Served(Steps(kind)[i])'
    BY <2>1, NowServed
  <2>6. QED
    BY <2>4, <2>5 DEF RoundInv
<1>3. CASE ClientDraws \/ Replug
  <2>1. calm' = 0
    BY <1>3 DEF ClientDraws, Replug, SetLed, Draw, DrawSource
  <2>2. (Turns /\ calm = 0 => RoundInv)'
    BY AllAreDue, PTL
  <2>3. QED
    BY <2>1, <2>2
<1>4. CASE UNCHANGED vars
  <2>1. UNCHANGED vars
    BY <1>4
  <2>2. QED
    BY <2>1 DEF vars, RoundInv, IsDue, Own, Served, ServedArrays, ServedScreens, ServedSources,
                IsCopied, ArrayIsShown
<1>5. QED
  BY <1>1, <1>2, <1>3, <1>4 DEF Next

LEMMA AlwaysRound == Spec => [](CleanInv /\ Turns /\ RoundInv)
<1>1. Init => CleanInv /\ Turns /\ RoundInv
  <2>1. Init => calm = 0
    BY DEF Init
  <2>2. QED
    BY <2>1, InitClean, InitTurns, AllAreDue
<1>2. CleanInv /\ Turns /\ RoundInv /\ [Next]_vars => (CleanInv /\ Turns /\ RoundInv)'
  BY CleanStep, TurnsStep, RoundStep
<1>3. QED
  BY <1>1, <1>2, PTL DEF Spec

\* Among its steps a kind has those for all its surfaces.
LEMMA KindsServe ==
  ASSUME kind \in Kinds, \A i \in 1..Len(Steps(kind)) : Served(Steps(kind)[i])
  PROVE  ServedArrays /\ ServedScreens /\ ServedSources
<1>1. kind \in {"MK2", "Mikro", "Jam", "KK", "F1", "Push", "Push2", "Push2Display"}
  BY KindsAssumption
<1>2. CASE kind \in {"MK2", "Mikro", "KK"}
  <2>1. Steps(kind) = <<"screen", "leds", "read">>
    BY <1>2, StepsOfKinds
  <2>2. Served("screen") /\ Served("leds")
    <3>1. Len(Steps(kind)) = 3 /\ Steps(kind)[1] = "screen" /\ Steps(kind)[2] = "leds"
      BY <2>1
    <3>2. QED
      BY <3>1
  <2>3. QED
    BY <2>2 DEF Served
<1>3. CASE kind \in {"Jam", "F1"}
  <2>1. Len(Steps(kind)) = 2 /\ Steps(kind)[1] = "leds"
    BY <1>3, StepsOfKinds
  <2>2. Served("leds")
    BY <2>1
  <2>3. Screens(kind) = {}
    BY <1>3, ScreensOfKinds
  <2>4. QED
    BY <2>2, <2>3 DEF Served, ServedScreens
<1>4. CASE kind \in {"Push", "Push2", "Push2Display"}
  <2>1. Len(Steps(kind)) = 1 /\ Steps(kind)[1] = "all"
    BY <1>4, StepsOfKinds
  <2>2. Served("all")
    BY <2>1
  <2>3. QED
    BY <2>2 DEF Served
<1>5. QED
  BY <1>1, <1>2, <1>3, <1>4

\* After a round of ticks without failures and changes the hardware shows everything,
\* however many devices share the static state, unless their number and the number of
\* steps have a common divisor.
THEOREM DevicesCatchUp == Spec => []CatchesUp
<1>1. CleanInv /\ Turns /\ RoundInv => CatchesUp
  <2> SUFFICES ASSUME CleanInv, Turns, RoundInv, calm = Len(Steps(kind)),
                      Coprime(present, Len(Steps(kind)))
               PROVE  ServedArrays /\ ServedScreens /\ ServedSources
    BY DEF CatchesUp, ServedArrays, ServedScreens, ServedSources, IsCopied
  <2>1. Len(Steps(kind)) \in 1..3
    BY StepsOfKinds DEF Turns
  <2>2. \A i \in 1..Len(Steps(kind)) : Served(Steps(kind)[i])
    BY <2>1 DEF RoundInv, IsDue
  <2>3. QED
    BY <2>2, KindsServe DEF Turns
<1>2. QED
  BY <1>1, AlwaysRound, PTL

=============================================================================
