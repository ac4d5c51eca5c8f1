------------------------------ MODULE MCLibrary -------------------------------
(***************************************************************************)
(* The parts of the library that work by themselves, one in a behaviour:   *)
(* a canvas, a text display, the recorder of traces, the MIDI driver's     *)
(* enumeration, the transfers of a USB handle, the handles of HIDAPI and   *)
(* MIDI; or one sample of the pure algorithms, whose behaviour is that     *)
(* sample and nothing more.                                                *)
(***************************************************************************)
EXTENDS Integers, Sequences, FiniteSets, TLC

CONSTANTS
  Recorders, Ports, PortNames, NoName,
  W, H, NCHUNKS, MaxDraws, Drawings,
  Texts, Sixteenths,
  kEventsPerThread, MaxEvents, MaxTime,
  MaxReports,
  MaxSlots, PadSlots, MaxSent

ASSUME CanvasAssumption == W \in Nat /\ H \in Nat /\ NCHUNKS \in 1..H
ASSUME DrawingsAssumption ==
  \A fig \in Drawings :
    /\ fig.shape \in {"line", "triangle", "triangleFilled", "circle", "circleFilled", "rectangle",
                     "rectangleFilled", "rectangleRounded", "rectangleRoundedFilled", "bitmap",
                     "text", "canvas"}
    /\ fig.shape = "text" => fig.text \in Seq(Nat)
ASSUME PortsAssumption == IsFiniteSet(Ports) /\ Ports \subseteq Nat \ {0}
ASSUME RingAssumption == kEventsPerThread \in Nat \ {0} /\ MaxEvents \in Nat /\ MaxTime \in Nat
ASSUME SlotsAssumption == MaxSlots \in Nat \ {0} /\ PadSlots \in Nat \ {0}

VARIABLES
  subject, sample,
  picture, dirtyChunks, shown, stray, drawn, draws,
  display, bytes, dirtyRows, was, put, puts,
  now, buffers, what, when, writeIndex, step, stamped, dump, summary, gathered, rows, written, busy,
  names, answers, cursor, task, inbox, replies, heard, mtxDevices, collDevices, seen, result,
  m_pCurrentDevice, plugged, m_inputBuffer, transfer, armed, allocated, reading, sent, given, spoilt,
  discarded,
  driver, tries, there, listed, handle, m_cbRead, kinds, queue, lost, input, slot, processed, wrote

canvasVars == <<picture, dirtyChunks, shown, stray, drawn, draws>>
textVars == <<display, bytes, dirtyRows, was, put, puts>>
traceVars ==
  <<now, buffers, what, when, writeIndex, step, stamped, dump, summary, gathered, rows, written,
    busy>>
midiVars == <<names, answers, cursor, task, inbox, replies, heard, mtxDevices, collDevices, seen, result>>
usbVars == <<m_pCurrentDevice, plugged, m_inputBuffer, transfer, armed, allocated, reading, sent,
             given, spoilt, discarded>>
handleVars == <<driver, tries, there, listed, handle, m_cbRead, kinds, queue, lost, input, slot,
                processed, wrote>>

-----------------------------------------------------------------------------
(* Bounds.                                                                 *)

\* Figures that leave a canvas of 8 by 6.
Bar == [height |-> 3, spacing |-> 2, points |-> [c \in {1} |-> {<<0, 0>>, <<0, 1>>, <<1, 2>>}]]
Chequered == [d \in (0..2) \X (0..2) |-> IF d = <<1, 1>> THEN "none"
                                         ELSE IF (d[1] + d[2]) % 2 = 0 THEN "white" ELSE "black"]

SomeDrawings ==
  {[shape |-> "line", p |-> <<0, 0>>, q |-> <<7, 5>>],
   [shape |-> "line", p |-> <<5, 4>>, q |-> <<9, 5>>],
   [shape |-> "triangle", p |-> <<1, 1>>, q |-> <<6, 2>>, r |-> <<2, 5>>],
   [shape |-> "triangleFilled", p |-> <<1, 1>>, q |-> <<6, 2>>, r |-> <<2, 5>>],
   [shape |-> "circle", p |-> <<3, 3>>, radius |-> 2, type |-> "Full"],
   [shape |-> "circleFilled", p |-> <<7, 5>>, radius |-> 3, type |-> "SemiTop"],
   [shape |-> "rectangle", p |-> <<1, 4>>, w |-> 4, h |-> 2],
   [shape |-> "rectangleFilled", p |-> <<6, 3>>, w |-> 5, h |-> 5],
   [shape |-> "rectangleRounded", p |-> <<0, 0>>, w |-> 6, h |-> 6, radius |-> 2],
   [shape |-> "rectangleRoundedFilled", p |-> <<2, 1>>, w |-> 5, h |-> 4, radius |-> 4],
   [shape |-> "bitmap", p |-> <<1, 5>>, w |-> 8, h |-> 2, bits |-> {<<0, 0>>, <<0, 7>>, <<1, 3>>}],
   [shape |-> "text", p |-> <<5, 4>>, font |-> Bar, text |-> <<1, 2, 1>>, spacing |-> 0],
   [shape |-> "canvas", p |-> <<4, 3>>, q |-> <<0, 1>>, w |-> 3, h |-> 2, source |-> Chequered,
    cw |-> 3, ch |-> 3]}

\* Empty, short and longer than any row; whole numbers and fractions of either sign.
SomeTexts == {<< >>, <<65, 98, 67>>, [i \in 1..20 |-> 65 + i]}
SomeNumbers == {5, -24, 16 * 12 + 4, 16 * 1234 + 10}
MaxPuts == 2

\* The list of DriverMIDI::enumerate() is built in place.
NRVO == TRUE

-----------------------------------------------------------------------------

C == INSTANCE Canvas
T == INSTANCE TextDisplays
R == INSTANCE TraceRecorder
M == INSTANCE MidiDriver
U == INSTANCE UsbTransfers
B == INSTANCE DeviceHandles
F == INSTANCE FigureShapes
D == INSTANCE Displays
O == INSTANCE Orders

\* Characters of ASCII, and numbers of less than ten digits.
ASSUME TextsAssumption ==
  /\ \A text \in Texts : text \in Seq(0..127)
  /\ \A v \in Sixteenths : v \in Int /\ -T!Tens[10] < v /\ v < T!Tens[10]

\* The tables of the fonts have a glyph for each character, and no byte is out of range.
ASSUME FontsAssumption ==
  \A c \in 0..127 : T!Seven(c) \in 0..255 /\ T!Sixteen(c) \in [1..2 -> 0..255]

-----------------------------------------------------------------------------
(* Samples.                                                                *)

Grid(n) == (0..n) \X (0..n)

\* Figures.
FigureSamples ==
  [algorithm : {"line"}, p : Grid(4), q : Grid(4)]
  \cup [algorithm : {"triangle"}, p : Grid(3), q : Grid(3), r : Grid(3)]
  \cup [algorithm : {"circle"}, radius : 0..6, type : F!CircleTypes]
  \cup [algorithm : {"rectangle"}, w : 0..5, h : 0..5]
  \cup [algorithm : {"rounded"}, w : 1..8, h : 1..8, radius : 0..3]
  \cup [algorithm : {"bitmap"}, w : {8, 16}, h : 1..3,
        bits : {{<<0, 0>>}, {<<0, 7>>, <<1, 3>>}, {<<2, 2>>, <<3, 1>>, <<5, 5>>}}]

\* Points at the corners of the displays, in windows wider than a byte.
Windows(kind) ==
  LET g == D!Geometry[kind]
  IN {<<x, y>> : x \in (0..4) \cup ((g.W - 4)..(g.W - 1)), y \in {0, 1, g.H - 1}}

Greys == {-1, 0, 4, 5, 40, 96, 127, 128, 226, 250, 255}

PointSamples ==
  UNION {[algorithm : {"points"}, kind : {k}, p : Windows(k), q : Windows(k)] : k \in D!DisplayKinds}

MarkSamples ==
  UNION {[algorithm : {"marks"}, kind : {k}, old : D!Held(k), v : Greys] : k \in D!DisplayKinds}

SurfaceSamples ==
  PointSamples \cup MarkSamples \cup [algorithm : {"leds"}, length : {8, 11}, e : -2..9]

\* Descriptors that share a name, a type, a vendor or a product, and a second unit of one.
Units ==
  {[name |-> n, type |-> t, vendorId |-> v, productId |-> p, serial |-> 0, portIdIn |-> 0,
    portIdOut |-> 0] : n \in {1, 2}, t \in {0, 2}, v \in {0, 7}, p \in {1, 2}}
  \cup {[name |-> 1, type |-> 0, vendorId |-> 7, productId |-> 1, serial |-> 1, portIdIn |-> 0,
         portIdOut |-> 0]}

SomeVersions == [vMajor : {0, 2}, vMinor : {0, 10}, vMicro : {0, 1}]

SomeColors ==
  {O!rgb(255, 0, 0), O!rgb(0, 255, 0), O!rgb(0, 0, 255), O!grey(255), O!grey(0), O!grey(40),
   [O!grey(40) EXCEPT !.blendMode = O!Invert], O!rgb(40, 0, 8), O!rgb(90, 0, 48)}

UsbUnits == [id : {1, 2}, serial : {0, 1}, opens : BOOLEAN]
ShortBuses == UNION {[1..n -> UsbUnits] : n \in 1..2}
Buses == ShortBuses \cup [1..3 -> {u \in UsbUnits : u.id = 1}]

LookupSamples ==
  [algorithm : {"versions"}, a : SomeVersions, b : SomeVersions, c : SomeVersions]
  \cup [algorithm : {"descriptors"}, a : Units, b : Units, c : Units]
  \cup [algorithm : {"colors"}, a : SomeColors, b : SomeColors, c : SomeColors]
  \cup [algorithm : {"greys"}, a : Greys \ {-1}, b : Greys \ {-1}, c : {0, 40, 255}]
  \cup [algorithm : {"bus"}, a : Buses, b : {0}, c : {0}]

Palette == <<O!grey(0), O!rgb(255, 0, 0), O!grey(96), O!grey(40), O!grey(255), O!grey(40)>>

-----------------------------------------------------------------------------

\* Messages of every length up to three packets.
SysexSamples == [algorithm : {"sysex"}, message : {[i \in 1..n |-> i] : n \in 0..8}]

NoSample == [algorithm |-> "none"]

Init ==
  /\ subject \in {"canvas", "text", "trace", "midi", "usb", "handle", "sample"}
  /\ sample \in IF subject = "sample" THEN FigureSamples \cup SurfaceSamples \cup LookupSamples
                     \cup SysexSamples
                ELSE {NoSample}
  /\ C!Init /\ R!Init /\ U!Init
  /\ B!Init /\ (subject # "handle" => driver = "MIDI" /\ tries = 1)
  /\ T!Init /\ (subject # "text" => display = "KK")
  /\ M!Init /\ (subject # "midi" => answers = {} /\ \A n \in Ports : names[n] = NoName)

Next ==
  \/ /\ subject = "canvas" /\ C!Next
     /\ UNCHANGED <<subject, sample, textVars, traceVars, midiVars, usbVars, handleVars>>
  \/ /\ subject = "text" /\ T!Next
     /\ UNCHANGED <<subject, sample, canvasVars, traceVars, midiVars, usbVars, handleVars>>
  \/ /\ subject = "trace" /\ R!Next
     /\ UNCHANGED <<subject, sample, canvasVars, textVars, midiVars, usbVars, handleVars>>
  \/ /\ subject = "midi" /\ M!Next
     /\ UNCHANGED <<subject, sample, canvasVars, textVars, traceVars, usbVars, handleVars>>
  \/ /\ subject = "usb" /\ U!Next
     /\ UNCHANGED <<subject, sample, canvasVars, textVars, traceVars, midiVars, handleVars>>
  \/ /\ subject = "handle" /\ B!Next
     /\ UNCHANGED <<subject, sample, canvasVars, textVars, traceVars, midiVars, usbVars>>

Spec ==
  Init /\ [][Next]_<<subject, sample, canvasVars, textVars, traceVars, midiVars, usbVars, handleVars>>

-----------------------------------------------------------------------------
(* Properties.                                                             *)

\* Whatever is drawn: every primitive of Canvas.cpp draws the shape it is named for, each
\* point of a display has bits of its own, a change is marked, and a row of LEDs shows its
\* value.
DrawingsAreRight ==
  CASE sample.algorithm = "line" -> F!LineIsStraight(sample.p, sample.q)
    [] sample.algorithm = "triangle" -> F!TriangleIsFilled(sample.p, sample.q, sample.r)
    [] sample.algorithm = "circle" -> F!CircleIsRound(sample.radius, sample.type)
    [] sample.algorithm = "rectangle" -> F!RectangleIsFramed(3, 2, sample.w, sample.h)
    [] sample.algorithm = "rounded" ->
         F!RoundedIsFramed(3, 2, sample.w, sample.h, sample.radius)
    [] sample.algorithm = "bitmap" -> F!BitmapIsCopied(3, 2, sample.w, sample.h, sample.bits)
    [] sample.algorithm = "points" -> D!PointsAreApart(sample.kind, sample.p, sample.q)
    [] sample.algorithm = "marks" -> D!ChangesAreMarked(sample.kind, sample.old, sample.v)
    [] sample.algorithm = "leds" -> D!LedsShowValue(sample.length, sample.e)
    [] OTHER -> TRUE

\* Whatever is looked up, by version, descriptor, colour or on the bus, is what was put
\* there for it.
LookupsAreRight ==
  CASE sample.algorithm = "versions" -> O!VersionsAreOrdered(sample.a, sample.b, sample.c)
    [] sample.algorithm = "descriptors" ->
         /\ O!DescriptorsAreOrdered(sample.a, sample.b, sample.c)
         /\ O!FactoryFindsClass(sample.a, sample.b, sample.c)
    [] sample.algorithm = "colors" -> O!ColorsArePartlyOrdered(sample.a, sample.b, sample.c)
    [] sample.algorithm = "greys" -> O!GreysAreFound(Palette, sample.a, sample.b, sample.c)
    [] sample.algorithm = "bus" -> U!ConnectFindsListed(sample.a)
    [] OTHER -> TRUE

\* Canvas: a display with no mark shows the picture.
PictureIsShown == C!PictureIsShown

\* Text displays: what is put in a row stands there and nowhere else.
TextsAreShown == T!TextsAreShown

\* TraceRecorder: a dump has every event of the threads that rest while it is taken.
RestingThreadsAreWhole == R!RestingThreadsAreWhole

\* DriverMIDI: what answered is listed once.
DevicesAreListed == M!DevicesAreListed

\* DeviceHandleLibUSB, DeviceHandleHIDAPI, DeviceHandleMIDI: reports are given in order and
\* once, of USB all but those that were overwritten in the shared buffer or came with a
\* failed transfer; and a message that is cut into packets is in them.
ReportsAreWhole ==
  /\ U!ReportsAreWhole /\ B!ReportsAreTaken
  /\ sample.algorithm = "sysex" => B!SysexIsWhole(sample.message)

RecorderSymmetry == Permutations(Recorders)

=============================================================================
