--------------------------- MODULE ControllerTables ---------------------------
(***************************************************************************)
(* The numbering tables of the eight controllers: the LEDs of enum Led and *)
(* the bit of each button in enum Button, the tables led() and             *)
(* deviceButton() that translate between them and the public enum          *)
(* Device::Button, and the cells of the LED arrays setLedImpl() writes.    *)
(*                                                                         *)
(* A table is a function from names to numbers.  In every controller both  *)
(* led() and deviceButton() send a name to the same name, so each of them  *)
(* is given by the set of names it has a case for; anything else is        *)
(* Unknown.  The names of the components of a colour LED (Pad1R, Pad1G,    *)
(* Pad1B) are left out: only the distance to the next LED matters.         *)
(***************************************************************************)
EXTENDS Integers, Sequences, FiniteSets, SequencesExt, TLC

-----------------------------------------------------------------------------
(* How the tables are written.                                             *)

\* `names' numbered from `first' on, `stride' apart.
Numbered(first, stride, names) ==
  [n \in ToSet(names) |-> first + stride * ((CHOOSE i \in DOMAIN names : names[i] = n) - 1)]

\* <<"Pad1", "Pad2", ...>>.
Indexed(prefix, n) == [i \in 1..n |-> prefix \o ToString(i)]

\* A table that has a case for each of `names', and sends it to itself.
Named(names) == [n \in names |-> n]

Groups == <<"GroupA", "GroupB", "GroupC", "GroupD", "GroupE", "GroupF", "GroupG", "GroupH">>

\* Cells i .. i + width - 1 of an LED array.
Span(array, i, width) == {<<array, j>> : j \in i..(i + width - 1)}

-----------------------------------------------------------------------------
(* Device::Button: the buttons a client knows.                             *)

DeviceButton ==
  Numbered(0, 1,
    <<"Control", "Step", "Browse", "Sampling", "BrowseLeft", "BrowseRight", "AutoWrite", "All">>
    \o Indexed("DisplayButton", 8)
    \o <<"Scene", "Pattern", "PadMode", "View", "Duplicate", "Select", "Solo", "Mute", "Volume",
         "Swing", "Tempo", "MasterLeft", "MasterRight", "Enter", "NoteRepeat", "Group">>
    \o Groups
    \o <<"Restart", "TransportLeft", "TransportRight", "Grid", "Play", "Rec", "Erase", "Shift",
         "F3", "Nav", "Main", "MainEncoder", "Scale", "Arp", "Rwd", "Ffw", "Stop", "PageLeft",
         "PageRight", "PresetUp", "Instance", "PresetDown", "Back", "NavigateUp", "NavigateLeft",
         "NavigateDown", "NavigateRight", "OctaveUp", "OctaveDown">>
    \o Indexed("TouchEncoder", 9)
    \o <<"TouchEncoderMain", "TouchEncoderMain2", "Size", "Type", "Reverse", "Capture", "Quant",
         "Sync">>
    \o Indexed("Stop", 4) \o Indexed("Pad", 64)
    \o <<"Arrange", "Clear", "Mst", "Grp", "Cue", "Macro", "Level", "Aux", "Auto", "Perform",
         "Variation", "Lock", "Tune">>
    \o [i \in 1..8 |-> "Btn" \o ToString(i) \o "Row1"]
    \o [i \in 1..8 |-> "Btn" \o ToString(i) \o "Row2"]
    \o <<"Grid1_4", "Grid1_4T", "Grid1_8", "Grid1_8T", "Grid1_16", "Grid1_16T", "Grid1_32",
         "Grid1_32T", "TapTempo", "Metronome", "TouchStripTap", "Master", "Setup", "Layout",
         "Convert", "Note", "Session", "AddEffect", "AddTrack", "Repeat", "Accent", "User", "In",
         "Out", "New", "Automation", "FixedLength", "Device", "Track", "Clip", "PanSend",
         "Double", "Delete", "Undo", "Unknown">>)

\* The second names some of them have: F2 = AutoWrite and so on.
Alias ==
  [F1 |-> "All", F2 |-> "AutoWrite", Snap |-> "All", Keyboard |-> "PadMode", Navigate |-> "View",
   Tap |-> "Enter", Loop |-> "Restart", Scales |-> "Scale", Quantize |-> "Quant"]

ButtonNumber(b) == DeviceButton[IF b \in DOMAIN Alias THEN Alias[b] ELSE b]

-----------------------------------------------------------------------------
(* Maschine MK1.                                                           *)

MK1Led ==
  Numbered(0, 1,
    <<"Pad4", "Pad3", "Pad2", "Pad1", "Pad8", "Pad7", "Pad6", "Pad5", "Pad12", "Pad11", "Pad10",
      "Pad9", "Pad16", "Pad15", "Pad14", "Pad13", "Mute", "Solo", "Select", "Duplicate",
      "Navigate", "Keyboard", "Pattern", "Scene", "Shift", "Erase", "Grid", "TransportRight",
      "Rec", "Play", "Unused1", "TransportLeft", "Loop", "GroupH", "GroupG", "GroupD", "GroupC",
      "GroupF", "GroupE", "GroupB", "GroupA", "AutoWrite", "Snap", "BrowseRight", "BrowseLeft",
      "Sampling", "Browse", "Step", "Control">>
    \o Reverse(Indexed("DisplayButton", 8))
    \o <<"NoteRepeat", "DisplayBacklight", "Unused2", "Unused3", "Unused4", "Unknown">>)

MK1Button ==
  Numbered(0, 1, <<"Mute", "Solo", "Select", "Duplicate", "Navigate", "Keyboard", "Pattern",
                   "Scene">>)
  @@ Numbered(9, 1,
       <<"Rec", "Erase", "Shift", "Grid", "TransportRight", "TransportLeft", "Loop", "GroupE",
         "GroupF", "GroupG", "GroupH", "GroupD", "GroupC", "GroupB", "GroupA", "Control",
         "Browse", "BrowseLeft", "Snap", "AutoWrite", "BrowseRight", "Sampling", "Step">>
       \o Reverse(Indexed("DisplayButton", 8)) \o <<"NoteRepeat", "Play">>)

MK1DeviceButton == Named(DOMAIN MK1Button)

MK1LedOf == Named(DOMAIN MK1Button)

\* The pads are numbered from the top row, their LEDs from the bottom one.
MK1LedOfKey ==
  <<"Pad13", "Pad14", "Pad15", "Pad16", "Pad9", "Pad10", "Pad11", "Pad12",
    "Pad5", "Pad6", "Pad7", "Pad8", "Pad1", "Pad2", "Pad3", "Pad4">>

MK1Sizes == [Leds |-> 62]
MK1Bits == [states |-> 42, report |-> 7]

MK1Cells(n) == Span("Leds", n, 1)

-----------------------------------------------------------------------------
(* Maschine MK2: three LED arrays; pads have 3 cells, groups have 6.       *)

MK2LedOfKey ==
  <<"Pad13", "Pad14", "Pad15", "Pad16", "Pad9", "Pad10", "Pad11", "Pad12",
    "Pad5", "Pad6", "Pad7", "Pad8", "Pad1", "Pad2", "Pad3", "Pad4">>

MK2Led ==
  Numbered(0, 1,
    <<"Control", "Step", "Browse", "Sampling", "BrowseLeft", "BrowseRight", "All", "AutoWrite">>
    \o Indexed("DisplayButton", 8)
    \o <<"Scene", "Pattern", "PadMode", "Navigate", "Duplicate", "Select", "Solo", "Mute",
         "Volume", "Swing", "Tempo", "MasterLeft", "MasterRight", "Enter", "NoteRepeat">>)
  @@ Numbered(48, 1, <<"Restart", "TransportLeft", "TransportRight", "Grid", "Play", "Rec",
                       "Erase", "Shift">>)
  @@ Numbered(56, 3, MK2LedOfKey)
  @@ Numbered(104, 6, Groups \o <<"Unknown">>)

MK2Button ==
  Numbered(0, 1,
    Indexed("DisplayButton", 8)
    \o <<"Control", "Step", "Browse", "Sampling", "BrowseLeft", "BrowseRight", "All",
         "AutoWrite", "Volume", "Swing", "Tempo", "MasterLeft", "MasterRight", "Enter",
         "NoteRepeat", "Main">>
    \o Groups
    \o <<"Restart", "TransportLeft", "TransportRight", "Grid", "Play", "Rec", "Erase", "Shift",
         "Scene", "Pattern", "PadMode", "Navigate", "Duplicate", "Select", "Solo", "Mute">>
    \o Indexed("NotUsed", 8))

MK2DeviceButton == Named(DOMAIN MK2Button \ ToSet(Indexed("NotUsed", 8)))

MK2LedOf == Named(DOMAIN MK2DeviceButton \ {"Main"})

MK2Sizes == [Buttons |-> 32, Groups |-> 57, Pads |-> 49]
MK2Bits == [states |-> 48, report |-> 8]

MK2IsRGB(n) == n >= MK2Led["Pad13"] /\ n < MK2Led["Unknown"]

MK2Cells(n) ==
  CASE MK2IsRGB(n) /\ n < MK2Led["GroupA"]  -> Span("Pads", n - MK2Led["Pad13"], 3)
    [] MK2IsRGB(n) /\ n >= MK2Led["GroupA"] -> Span("Groups", n - MK2Led["GroupA"], 6)
    [] ~MK2IsRGB(n) /\ n >= MK2Led["Restart"] -> Span("Groups", n, 1)
    [] OTHER -> Span("Buttons", n, 1)

-----------------------------------------------------------------------------
(* Maschine Mikro MK2: one LED array.                                      *)

MikroLedOfKey ==
  <<"Pad13", "Pad14", "Pad15", "Pad16", "Pad9", "Pad10", "Pad11", "Pad12",
    "Pad5", "Pad6", "Pad7", "Pad8", "Pad1", "Pad2", "Pad3", "Pad4">>

MikroLed ==
  Numbered(0, 1, <<"F1", "F2", "F3", "Control", "Nav", "BrowseLeft", "BrowseRight", "Main",
                   "Group">>)
  @@ Numbered(11, 1,
       <<"Browse", "Sampling", "NoteRepeat", "Restart", "TransportLeft", "TransportRight",
         "Grid", "Play", "Rec", "Erase", "Shift", "Scene", "Pattern", "PadMode", "View",
         "Duplicate", "Select", "Solo", "Mute">>)
  @@ Numbered(30, 3, MikroLedOfKey \o <<"Unknown">>)

MikroButton ==
  Numbered(0, 1, <<"Shift", "Erase", "Rec", "Play", "Grid", "TransportRight", "TransportLeft",
                   "Restart">>)
  @@ Numbered(11, 1,
       <<"MainEncoder", "NoteRepeat", "Sampling", "Browse", "Group", "Main", "BrowseRight",
         "BrowseLeft", "Nav", "Control", "F3", "F2", "F1", "Mute", "Solo", "Select",
         "Duplicate", "View", "PadMode", "Pattern", "Scene", "None">>)

MikroDeviceButton == Named(DOMAIN MikroButton \ {"None"})

MikroLedOf == Named(DOMAIN MikroDeviceButton \ {"MainEncoder"})

MikroSizes == [Leds |-> 78]
MikroBits == [states |-> 45, report |-> 4]

MikroIsRGB(n) == n = MikroLed["Group"] \/ n >= MikroLed["Pad13"]

MikroCells(n) == Span("Leds", n, IF MikroIsRGB(n) THEN 3 ELSE 1)

-----------------------------------------------------------------------------
(* Maschine Jam: three LED arrays of one cell per LED.                     *)

JamLed ==
  Numbered(0, 1, <<"Arrange", "Step", "PadMode", "Clear", "Duplicate", "NavigateUp",
                   "NavigateLeft", "NavigateRight", "NavigateDown", "Arp", "Mst", "Grp", "In">>)
  @@ Numbered(14, 1, <<"Cue">>)
  @@ Numbered(16, 1,
       <<"Browse", "Macro", "Level", "Aux", "Control", "Auto", "Perform", "Variation", "Lock",
         "Tune", "Swing", "Shift", "Play", "Rec", "TransportLeft", "TransportRight", "Tempo",
         "Grid", "Solo", "Mute", "Select">>
       \o Indexed("LevelLeft", 8) \o Indexed("LevelRight", 8)
       \o Indexed("DisplayButton", 8) \o Indexed("Pad", 64) \o Groups
       \o [i \in 1..88 |-> "Strip" \o ToString(1 + ((i - 1) \div 11)) \o "L"
                            \o ToString(1 + ((i - 1) % 11))]
       \o <<"Unknown">>)

JamButton ==
  Numbered(0, 1,
    <<"Arrange">> \o Indexed("DisplayButton", 8)
    \o <<"Step", "PadMode", "Clear", "Duplicate", "NavigateUp", "NavigateLeft", "NavigateRight",
         "NavigateDown", "Arp">>
    \o Indexed("Pad", 64) \o Groups
    \o <<"Mst", "Grp", "In", "Cue", "Browse", "Macro", "Level", "Aux", "Control", "Auto",
         "Perform", "Variation", "Lock", "Tune", "Swing", "Shift", "Play", "Rec",
         "TransportLeft", "TransportRight", "Tempo", "Grid", "Solo", "Mute", "Select",
         "TouchEncoderMain", "MainEncoder", "NotUsed2", "NotUsed3", "NotUsed4">>)

JamDeviceButton == Named(DOMAIN JamButton \ {"NotUsed2", "NotUsed3", "NotUsed4"})

JamLedOf == Named(DOMAIN JamDeviceButton \ {"MainEncoder", "TouchEncoderMain"})

\* led(unsigned) counts from Pad1, and knows 64 keys.
JamLedOfKey == Indexed("Pad", 64)

JamSizes == [Buttons |-> 53, Pads |-> 80, Strips |-> 88]
JamBits == [states |-> 117, report |-> 15]

JamCells(n) ==
  CASE n < JamLed["DisplayButton1"] -> Span("Buttons", n, 1)
    [] n >= JamLed["DisplayButton1"] /\ n < JamLed["Strip1L1"] ->
         Span("Pads", n - JamLed["DisplayButton1"], 1)
    [] OTHER -> Span("Strips", n - JamLed["Strip1L1"], 1)

-----------------------------------------------------------------------------
(* Komplete Kontrol S25: the LEDs of the buttons, 3 cells per key.         *)

NumKeys == 25

KKLed ==
  Numbered(0, 1,
    <<"Shift", "Scale", "Arp", "Loop", "Rwd", "Ffw", "Play", "Rec", "Stop", "PageLeft",
      "PageRight", "Browse", "PresetUp", "Instance", "PresetDown", "Back", "NavigateUp",
      "Enter", "NavigateLeft", "NavigateDown", "NavigateRight", "OctaveDownWhite",
      "OctaveDownRed", "OctaveUpWhite", "OctaveUpRed">>)
  @@ Numbered(25, 3, Indexed("Key", 128) \o <<"Unknown">>)

KKButton ==
  Numbered(0, 1,
    <<"MainEncoder", "PresetUp", "Enter", "PresetDown", "Browse", "Instance", "OctaveDown",
      "OctaveUp", "Stop", "Rec", "Play", "NavigateRight", "NavigateDown", "NavigateLeft",
      "Back", "NavigateUp", "Shift", "Scale", "Arp", "Loop", "PageRight", "PageLeft", "Rwd",
      "Ffw">>
    \o Indexed("TouchEncoder", 8) \o <<"TouchEncoderMain", "None">>)

KKDeviceButton ==
  Named(DOMAIN KKButton \ (ToSet(Indexed("TouchEncoder", 8)) \cup {"TouchEncoderMain", "None"}))

KKLedOf == Named(DOMAIN KKDeviceButton \ {"MainEncoder", "OctaveDown", "OctaveUp"})

KKLedOfKey == Indexed("Key", NumKeys)

KKSizes == [Leds |-> 25, Keys |-> 3 * NumKeys]
KKBits == [states |-> 37, report |-> 5]

KKIsRGB(n) == n >= KKLed["Key1"]

\* Mutant: the keys counted from one.
KKCellsFromOne(n) ==
  IF KKIsRGB(n) THEN Span("Keys", n - KKLed["Key1"] + 3, 3) ELSE Span("Leds", n, 1)

KKCells(n) ==
  IF KKIsRGB(n) THEN Span("Keys", n - KKLed["Key1"], 3) ELSE Span("Leds", n, 1)

-----------------------------------------------------------------------------
(* Traktor F1 MK2: one array, that begins with the display's segments.     *)

F1LedOfKey ==
  <<"Pad13", "Pad14", "Pad15", "Pad16", "Pad9", "Pad10", "Pad11", "Pad12",
    "Pad5", "Pad6", "Pad7", "Pad8", "Pad1", "Pad2", "Pad3", "Pad4">>

F1Led ==
  Numbered(0, 8, <<"Display2", "Display1">>)
  @@ Numbered(16, 1, <<"Browse", "Size", "Type", "Reverse", "Shift", "Capture", "Quant", "Sync">>)
  @@ Numbered(24, 3, F1LedOfKey)
  @@ Numbered(72, 2, <<"Stop4", "Stop3", "Stop2", "Stop1", "Unknown">>)

F1Button ==
  Numbered(0, 1, <<"Pad8", "Pad7", "Pad6", "Pad5", "Pad4", "Pad3", "Pad2", "Pad1", "Pad16",
                   "Pad15", "Pad14", "Pad13", "Pad12", "Pad11", "Pad10", "Pad9">>)
  @@ Numbered(18, 1, <<"MainEncoder", "Browse", "Size", "Type", "Reverse", "Shift">>)
  @@ Numbered(25, 1, <<"Capture", "Quant", "Sync", "Stop4", "Stop3", "Stop2", "Stop1", "None">>)

F1DeviceButton == Named(DOMAIN F1Button \ {"None"})

F1LedOf == Named(DOMAIN F1DeviceButton \ {"MainEncoder"})

F1Sizes == [Leds |-> 80]
F1Bits == [states |-> 27, report |-> 4]

F1IsRGB(n) == n >= F1Led["Pad13"] /\ n <= F1Led["Pad4"]

F1Cells(n) == Span("Leds", n, IF F1IsRGB(n) THEN 3 ELSE 1)

-----------------------------------------------------------------------------
(* Push and Push 2: the numbers are those of the MIDI controllers.         *)

\* The part the two enums Led and the two enums Button have in common.
PushControls ==
  Numbered(3, 6, <<"TapTempo", "Metronome">>) @@ ("TouchStripTap" :> 12)
  @@ Numbered(20, 1, [i \in 1..8 |-> "Btn" \o ToString(i) \o "Row1"] \o <<"Master", "Stop">>)
  @@ Numbered(36, 1,
       <<"Grid1_4", "Grid1_4T", "Grid1_8", "Grid1_8T", "Grid1_16", "Grid1_16T", "Grid1_32",
         "Grid1_32T", "NavigateLeft", "NavigateRight", "NavigateUp", "NavigateDown", "Select",
         "Shift", "Note", "Session", "AddEffect", "AddTrack", "OctaveDown", "OctaveUp",
         "Repeat", "Accent", "Scales", "User", "Mute", "Solo", "In", "Out">>)
  @@ Numbered(85, 1, <<"Play", "Rec", "New", "Duplicate", "Automation", "FixedLength">>)
  @@ Numbered(102, 1,
       [i \in 1..8 |-> "Btn" \o ToString(i) \o "Row2"]
       \o <<"Device", "Browse", "Track", "Clip", "Volume", "PanSend", "Quantize", "Double",
            "Delete", "Undo">>)

PushTouch ==
  Numbered(128, 1, Indexed("TouchEncoder", 9)
                   \o <<"TouchEncoderMain", "TouchEncoderMain2", "None">>)

PushLed == PushControls @@ Numbered(120, 1, Indexed("Pad", 64) \o <<"Unknown">>)

PushButton == PushControls @@ PushTouch

PushDeviceButton == Named(DOMAIN PushButton \ {"None"})

PushLedOf == Named(DOMAIN PushDeviceButton \ DOMAIN PushTouch)

PushLedOfKey == Indexed("Pad", 64)

PushSizes == [Leds |-> 184]

PushIsRGB(n) ==
  n > PushLed["Undo"] \/ n \in PushLed["Btn1Row2"]..PushLed["Btn8Row2"]

PushCells(n) == Span("Leds", n, 1)

Push2Extra == Numbered(30, 1, <<"Setup", "Layout">>) @@ ("Convert" :> 35)

Push2Led == Push2Extra @@ PushLed

Push2Button == Push2Extra @@ PushButton

Push2DeviceButton == Named(DOMAIN Push2Button \ {"None"})

Push2LedOf == Named(DOMAIN Push2DeviceButton \ DOMAIN PushTouch)

Push2LedOfKey == Indexed("Pad", 64)

Push2Sizes == [Leds |-> 78]

Push2IsRGB(n) ==
  \/ n > Push2Led["Undo"]
  \/ n \in Push2Led["Btn1Row1"]..Push2Led["Btn8Row1"]
  \/ n \in Push2Led["Btn1Row2"]..Push2Led["Btn8Row2"]

Push2Cells(n) == Span("Leds", n, 1)

-----------------------------------------------------------------------------
(* All of them, by kind of controller.                                     *)

Led ==
  [MK1 |-> MK1Led, MK2 |-> MK2Led, Mikro |-> MikroLed, Jam |-> JamLed, KK |-> KKLed,
   F1 |-> F1Led, Push |-> PushLed, Push2 |-> Push2Led]
LedOf ==
  [MK1 |-> MK1LedOf, MK2 |-> MK2LedOf, Mikro |-> MikroLedOf, Jam |-> JamLedOf, KK |-> KKLedOf,
   F1 |-> F1LedOf, Push |-> PushLedOf, Push2 |-> Push2LedOf]
LedOfKey ==
  [MK1 |-> MK1LedOfKey, MK2 |-> MK2LedOfKey, Mikro |-> MikroLedOfKey, Jam |-> JamLedOfKey,
   KK |-> KKLedOfKey, F1 |-> F1LedOfKey, Push |-> PushLedOfKey, Push2 |-> Push2LedOfKey]
Button ==
  [MK1 |-> MK1Button, MK2 |-> MK2Button, Mikro |-> MikroButton, Jam |-> JamButton,
   KK |-> KKButton, F1 |-> F1Button, Push |-> PushButton, Push2 |-> Push2Button]
DeviceButtonOf ==
  [MK1 |-> MK1DeviceButton, MK2 |-> MK2DeviceButton, Mikro |-> MikroDeviceButton,
   Jam |-> JamDeviceButton, KK |-> KKDeviceButton, F1 |-> F1DeviceButton,
   Push |-> PushDeviceButton, Push2 |-> Push2DeviceButton]
Sizes ==
  [MK1 |-> MK1Sizes, MK2 |-> MK2Sizes, Mikro |-> MikroSizes, Jam |-> JamSizes, KK |-> KKSizes,
   F1 |-> F1Sizes, Push |-> PushSizes, Push2 |-> Push2Sizes]
Bits ==
  [MK1 |-> MK1Bits, MK2 |-> MK2Bits, Mikro |-> MikroBits, Jam |-> JamBits, KK |-> KKBits,
   F1 |-> F1Bits]

Cells(k, n) ==
  CASE k = "MK1" -> MK1Cells(n) [] k = "MK2" -> MK2Cells(n) [] k = "Mikro" -> MikroCells(n)
    [] k = "Jam" -> JamCells(n) [] k = "KK" -> KKCells(n)   [] k = "F1" -> F1Cells(n)
    [] k = "Push" -> PushCells(n) [] k = "Push2" -> Push2Cells(n)

\* The LEDs that take a colour; the others take its brightness.
IsRGB(k, n) ==
  CASE k = "MK2" -> MK2IsRGB(n) [] k = "Mikro" -> MikroIsRGB(n) [] k = "KK" -> KKIsRGB(n)
    [] k = "F1" -> F1IsRGB(n)   [] k = "Push" -> PushIsRGB(n)   [] k = "Push2" -> Push2IsRGB(n)

\* The indices for which graphicDisplay() or textDisplay() gives a display of the device; for
\* any other it gives a dummy.  Push gives one behind the last, which is not there.
MK1Displays == 0..1
MK2Displays == 0..1
MikroDisplays == {0}
KKDisplays == 0..8
F1Displays == {0}
PushDisplays == 0..4
Push2DisplayDisplays == {0}

Displays ==
  [MK1 |-> MK1Displays, MK2 |-> MK2Displays, Mikro |-> MikroDisplays, Jam |-> {}, KK |-> KKDisplays,
   F1 |-> F1Displays, Push |-> PushDisplays, Push2 |-> {}, Push2Display |-> Push2DisplayDisplays]

\* numOfGraphicDisplays() and numOfTextDisplays(), of which a device has one kind or none.
numOfDisplays ==
  [MK1 |-> 2, MK2 |-> 2, Mikro |-> 1, Jam |-> 0, KK |-> 9, F1 |-> 1, Push |-> 4, Push2 |-> 0,
   Push2Display |-> 1]

\* The LEDs a client can name: those of the buttons and those of the keys.
Reachable(k) == ToSet(LedOf[k]) \cup ToSet(LedOfKey[k])

=============================================================================
