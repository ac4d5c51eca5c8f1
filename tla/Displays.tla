------------------------------- MODULE Displays -------------------------------
(***************************************************************************)
(* How the graphic displays and the LED matrix keep a picture: the bits of *)
(* its buffer that each point has, the value setPixel() stores there for a *)
(* colour and the colour pixel() makes of it, and the chunks that are      *)
(* marked dirty.  Colours are greys, given by their mono component.        *)
(*                                                                         *)
(*   Plain   Canvas and DynamicCanvas, three bytes a point                 *)
(*   MK1     three points in two bytes, 5 bits each, inverted              *)
(*   Mikro   a byte is a column of 8 points; MK2  a byte is a row of 8     *)
(*   Push2   16 bits, 5 for red, 6 for green and 5 for blue                *)
(*   Jam     a byte, the number of a colour                                *)
(*   Null    nothing                                                       *)
(***************************************************************************)
EXTENDS Integers, Sequences, FiniteSets

DisplayKinds == {"Plain", "MK1", "Mikro", "MK2", "Push2", "Jam"}

\* The parameters of CanvasBase: width, height, size of the buffer and chunks.
Geometry ==
  [Plain |-> [W |-> 16, H |-> 5, size |-> 3 * 16 * 5, chunks |-> 1],
   MK1   |-> [W |-> 255, H |-> 64, size |-> 10880, chunks |-> 22],
   Mikro |-> [W |-> 128, H |-> 64, size |-> 1024, chunks |-> 4],
   MK2   |-> [W |-> 256, H |-> 64, size |-> 2048, chunks |-> 8],
   Push2 |-> [W |-> 960, H |-> 160, size |-> 1024 * 160 * 2, chunks |-> 1],
   Jam   |-> [W |-> 8, H |-> 8, size |-> 64, chunks |-> 1]]

canvasWidthInBytes(g) == IF g.H > 0 THEN g.size \div g.H ELSE 0

-----------------------------------------------------------------------------
(* The bits of a point: <<byte, bit>>.                                     *)

Bytes(first, n) == {<<b, i>> : b \in first..(first + n - 1), i \in 0..7}

PlainBits(g, x, y) == Bytes(canvasWidthInBytes(g) * y + 3 * x, 3)

MK1Bits(g, x, y) ==
  LET b == canvasWidthInBytes(g) * y + (x \div 3) * 2
  IN CASE x % 3 = 0 -> {b} \X (3..7)
       [] x % 3 = 1 -> ({b} \X (0..2)) \cup ({b + 1} \X (6..7))
       [] x % 3 = 2 -> {b + 1} \X (0..4)

MikroBits(g, x, y) == {<<g.W * (y \div 8) + x, y % 8>>}
MK2Bits(g, x, y) == {<<canvasWidthInBytes(g) * y + x \div 8, 7 - (x % 8)>>}
Push2Bits(g, x, y) == Bytes(canvasWidthInBytes(g) * y + 2 * x, 2)
JamBits(g, x, y) == Bytes(x + 8 * y, 1)

Bits(kind, x, y) ==
  LET g == Geometry[kind]
  IN CASE kind = "Plain" -> PlainBits(g, x, y) [] kind = "MK1" -> MK1Bits(g, x, y)
       [] kind = "Mikro" -> MikroBits(g, x, y) [] kind = "MK2" -> MK2Bits(g, x, y)
       [] kind = "Push2" -> Push2Bits(g, x, y) [] kind = "Jam" -> JamBits(g, x, y)

-----------------------------------------------------------------------------
(* What is stored for a grey, and read of it.                              *)

\* v scaled from 0..255 to 0..top and rounded, and back.
Down(v, top) == (2 * v * top + 255) \div 510
Up(n, top) == (510 * n + top) \div (2 * top)

\* MK1 stores the complement of 5 bits, and cuts the fraction off when it reads them.
MK1Stored(v) == Down(v, 31)
MK1Read(n) == 255 - ((31 - n) * 255) \div 31

\* Mikro, MK2: Color::active().
Active(v) == v > 127

\* Push 2: red and blue have 5 bits, green has 6.
Push2Stored(v) == <<Down(v, 31), Down(v, 63), Down(v, 31)>>
Push2Read(n) == <<Up(n[1], 31), Up(n[2], 63), Up(n[3], 31)>>

\* The greys of kJam_colors and their numbers; fromLedColor() knows no number above 68.
JamGreys == [black |-> 0, dark |-> 40, mid |-> 96, light |-> 226]
Away(v, w) == IF v > w THEN v - w ELSE w - v
JamStored(v) ==
  CHOOSE n \in DOMAIN JamGreys :
    \A m \in DOMAIN JamGreys :
      \/ Away(JamGreys[n], v) < Away(JamGreys[m], v)
      \/ Away(JamGreys[n], v) = Away(JamGreys[m], v) /\ JamGreys[n] <= JamGreys[m]
JamRead(n) == IF n = "dark" THEN 40 ELSE 0

\* What each kind can hold, and setPixel() over what is held; Inverted stands for a colour
\* that inverts.  MK1, Push 2 and the Jam mark every one of those; the Jam stores the
\* complement of the black the colour is made of, whatever was there.
Inverted == -1

Held(kind) ==
  CASE kind = "Plain" -> 0..255 [] kind = "MK1" -> 0..31
    [] kind \in {"Mikro", "MK2"} -> BOOLEAN
    [] kind = "Push2" -> {<<n, g, n>> : n \in 0..31, g \in 0..63}
    [] kind = "Jam" -> DOMAIN JamGreys

setPixel(kind, old, v) ==
  LET inv == v = Inverted
  IN CASE kind = "Plain" -> IF inv THEN 255 - old ELSE v
       [] kind = "MK1" -> MK1Stored(IF inv THEN 255 - MK1Read(old) ELSE v)
       [] kind \in {"Mikro", "MK2"} -> IF inv THEN ~old ELSE Active(v)
       [] kind = "Push2" ->
            IF inv THEN LET c == Push2Read(old)
                        IN <<Down(255 - c[1], 31), Down(255 - c[2], 63), Down(255 - c[3], 31)>>
                   ELSE Push2Stored(v)
       [] kind = "Jam" -> JamStored(IF inv THEN 255 ELSE v)

marks(kind, old, v) ==
  CASE kind = "Plain" -> v = Inverted \/ old # v
    [] kind = "MK1" -> v = Inverted \/ MK1Read(old) # v
    [] kind \in {"Mikro", "MK2"} -> v = Inverted \/ old # Active(v)
    [] kind = "Push2" -> v = Inverted \/ Push2Read(old) # <<v, v, v>>
    [] kind = "Jam" -> v = Inverted \/ JamRead(old) # v \/ old \in {"mid", "light"}

-----------------------------------------------------------------------------
(* LedArrayBase::setValue(): the LEDs of L that are lit for a value in     *)
(* eighths.  setPixel() passes over those that are not there.              *)

\* The quotient cut off towards zero.
Cut(n, d) == IF n < 0 THEN -((-n) \div d) ELSE n \div d

Within(L, leds) == leds \cap (0..(L - 1))

setValue(L, e, alignment) ==
  CASE alignment = "Left" ->
         Within(L, 0..((2 * L * (IF e < 0 THEN 0 ELSE e) + 8) \div 16 - 1))
    [] alignment = "Right" ->
         Within(L, ((2 * L * (IF e < 0 THEN 0 ELSE e) + 8) \div 16)..L)
    [] alignment = "Center" ->
         LET v == IF e < -8 THEN -8 ELSE e
             n == Cut(L * v + 8, 16)
         IN Within(L, {L \div 2} \cup (CASE v < 0 -> 0..n [] v > 0 -> n..(L - 1) [] OTHER -> {}))

-----------------------------------------------------------------------------
(* What is expected.                                                       *)

\* A point has bits of its own in the buffer: what is set at another leaves it alone.
PointsAreApart(kind, p, q) ==
  LET mine == Bits(kind, p[1], p[2])
  IN /\ \A b \in mine : b[1] \in 0..(Geometry[kind].size - 1) /\ b[2] \in 0..7
     /\ p # q => mine \cap Bits(kind, q[1], q[2]) = {}

\* What setPixel() changes is marked, however coarse the display; and but for the Jam a
\* point that is inverted twice is what it was.
ChangesAreMarked(kind, old, v) ==
  /\ setPixel(kind, old, v) \in Held(kind)
  /\ setPixel(kind, old, v) # old => marks(kind, old, v)
  /\ kind # "Jam" => setPixel(kind, setPixel(kind, old, Inverted), Inverted) = old

\* Aligned to the left, the LEDs that are lit are the first, more of them for more, and as
\* many as the value says to half an LED.
LedsShowValue(L, e) ==
  LET lit == setValue(L, e, "Left")
      fair == IF e < 0 THEN 0 ELSE IF e > 8 THEN 8 ELSE e
  IN /\ lit = 0..(Cardinality(lit) - 1)
     /\ 2 * Away(8 * Cardinality(lit), fair * L) <= 8
     /\ lit \subseteq setValue(L, e + 1, "Left")
     /\ L \div 2 \in setValue(L, e, "Center")

=============================================================================
