----------------------------- MODULE TextDisplays -----------------------------
(***************************************************************************)
(* The text displays: of the keyboards (KK: 3 rows of 8 characters with 16 *)
(* segments, the first of them a bar), of F1 (Seven: 2 characters with 7   *)
(* segments) and of Push (Generic: 4 rows of 17 characters).               *)
(*                                                                         *)
(* A display is the bytes of its buffer.  Texts are sequences of character *)
(* codes, numbers with a fraction are sixteenths, values are eighths.      *)
(***************************************************************************)
EXTENDS SegmentFonts

CONSTANTS
  Texts,         \* the texts that are put
  Sixteenths,    \* the numbers that are put
  MaxPuts        \* bound: what is put on a display

VARIABLES
  display,       \* its class
  bytes,         \* m_data
  dirtyRows,     \* m_dirtyFlags
  was,           \* m_data before the last operation
  put,           \* the last operation
  puts           \* how many there were

textVars == <<display, bytes, dirtyRows, was, put, puts>>

Kinds == {"KK", "Seven", "Generic"}
Alignments == {"Left", "Center", "Right"}

width == CASE display = "KK" -> 8 [] display = "Seven" -> 2 [] OTHER -> 17
height == CASE display = "KK" -> 3 [] display = "Seven" -> 1 [] OTHER -> 4

\* The bytes of a character, and of a row.
Unit == IF display = "KK" THEN 2 ELSE 1
RowBytes(row) == (row * width * Unit + 1)..((row + 1) * width * Unit)

\* The first row of KK takes no text.
TextRows == (IF display = "KK" THEN 1 ELSE 0)..(height - 1)

Blank == 32

toupper(c) == IF c \in 97..122 THEN c - 32 ELSE c

Glyph(c) ==
  CASE display = "KK" -> Sixteen(c) [] display = "Seven" -> <<Seven(toupper(c))>> [] OTHER -> <<c>>

-----------------------------------------------------------------------------
(* Texts and numbers.                                                      *)

Blanks(n) == [i \in 1..n |-> Blank]

\* The text with `before' blanks in front, filled up to the width of the display.
filled(text, before) == Blanks(before) \o text \o Blanks(width - before - Len(text))

\* Mutant: what is over in the middle goes to neither side.
alignTextShort(text, align) ==
  LET fills == width - Len(text)
  IN IF fills <= 0 THEN SubSeq(text, 1, width)
     ELSE CASE align = "Right" -> filled(text, fills)
            [] align = "Center" -> Blanks(fills \div 2) \o text \o Blanks(fills \div 2)
            [] OTHER -> filled(text, 0)

alignText(text, align) ==
  LET fills == width - Len(text)
  IN IF fills <= 0 THEN SubSeq(text, 1, width)
     ELSE CASE align = "Right" -> filled(text, fills)
            [] align = "Center" -> filled(text, fills \div 2)
            [] OTHER -> filled(text, 0)

\* std::to_string(), of less than ten digits.
Tens ==
  <<1, 10, 100, 1000, 10 * 1000, 100 * 1000, 1000 * 1000, 10 * 1000 * 1000, 100 * 1000 * 1000,
    1000 * 1000 * 1000>>
Digits(n) ==
  LET m == IF n < 0 THEN -n ELSE n
      length == CHOOSE d \in 1..9 : Tens[d + 1] > m /\ (d = 1 \/ Tens[d] <= m)
  IN (IF n < 0 THEN <<45>> ELSE << >>)
     \o [i \in 1..length |-> 48 + ((m \div Tens[length - i + 1]) % 10)]

\* modf(): both parts have the sign of the number; `unit' is 1000 or 10.
Integral(v) == IF v < 0 THEN -((-v) \div 16) ELSE v \div 16
Fraction(v, unit) ==
  IF v < 0 THEN -((((-v) % 16) * unit) \div 16) ELSE ((v % 16) * unit) \div 16

\* The fraction is filled up with zeros to 3 digits, which a negative one has too many of:
\* the length of the filling is then beyond any string, and its constructor throws.
Throws(v) == display # "Seven" /\ Len(Digits(Fraction(v, 1000))) > 3

SevenNumberText(v) == Digits(Integral(v)) \o Digits(Fraction(v, 10))

\* The text of a number; only Push writes a point into it.
NumberText(v) ==
  IF display = "Seven" THEN SevenNumberText(v)
  ELSE LET fraction == Digits(Fraction(v, 1000))
       IN Digits(Integral(v)) \o (IF display = "Generic" THEN <<46>> ELSE << >>)
          \o [i \in 1..(3 - Len(fraction)) |-> 48] \o fraction

-----------------------------------------------------------------------------
(* Bytes.                                                                  *)

\* `what' from byte `index' on, counted from 0.
Write(d, index, what) ==
  [i \in DOMAIN d |-> IF i - index \in DOMAIN what THEN what[i - index] ELSE d[i]]

\* Bits 0 and 1.
Weight(n) == IF n = 0 THEN 1 ELSE 2
BitOf(b, n) == (b \div Weight(n)) % 2
SetBit(b, n) == b - BitOf(b, n) * Weight(n) + Weight(n)
ResetBit(b, n) == b - BitOf(b, n) * Weight(n)

GlyphsOf(text) ==
  [i \in 1..(Len(text) * Unit) |-> Glyph(text[(i - 1) \div Unit + 1])[((i - 1) % Unit) + 1]]

\* KK has the points of its two rows of text in the upper bytes of the first row, as bits 0
\* and 1; those of byte 15 are never reset.
KKResetDots(d, row) ==
  [i \in DOMAIN d |-> IF i \in {2 * n : n \in 1..7} THEN ResetBit(d[i], row - 1) ELSE d[i]]
KKSetDot(d, n, row) ==
  IF n \in 0..(width - 1) THEN [d EXCEPT ![2 * n + 2] = SetBit(@, row - 1)] ELSE d

\* F1 has its point in bit 0 of each character.
SevenResetDots(d) == [i \in DOMAIN d |-> ResetBit(d[i], 0)]
SevenSetDot(d, n) == IF n \in 0..(width - 1) THEN [d EXCEPT ![n + 1] = SetBit(@, 0)] ELSE d

\* Where the point of a number is put: as if it was in the middle, before zeros are filled in.
\* The number of empty places is unsigned; where it would be negative no place is meant.
DotPlace(v) ==
  LET empty == width - Len(Digits(Integral(v)))
                 - Len(Digits(Fraction(v, IF display = "KK" THEN 1000 ELSE 10)))
  IN IF empty < 0 THEN width ELSE Len(Digits(Integral(v))) - 1 + empty \div 2

TextOn(d, text, row, align) ==
  Write(d, row * width * Unit, GlyphsOf(alignText(text, align)))

\* putValue(): KK fills a bar of 9 parts in the first row, or 8 characters of another; that
\* of Push takes rows to be 16 characters long and writes the blanks only.
BarOn(d, full) ==
  LET parts == (2 * full * 9 + 8) \div 16
      part(n) == IF parts >= n THEN 3 ELSE 0
  IN [i \in DOMAIN d |->
        CASE i = 1 -> 4 + part(1)
          [] i \in {2 * n - 1 : n \in 2..8} -> part((i + 1) \div 2)
          [] i = 16 -> part(9)
          [] OTHER -> d[i]]

ValueOn(d, row, full) ==
  CASE display = "KK" /\ row = 0 -> BarOn(d, full)
    [] display = "KK" /\ row > 0 ->
         Write(d, row * 16, [i \in 1..16 |->
           IF i <= 2 * full THEN Sixteen(43)[((i - 1) % 2) + 1] ELSE 0])
    [] display = "Generic" -> Write(d, row * 16, Blanks(8 - full))
    [] OTHER -> d

-----------------------------------------------------------------------------

\* Push's display is cleared with blanks by clear(), but not by its constructor.
Init ==
  /\ display \in Kinds
  /\ bytes = [i \in 1..(height * width * Unit) |-> 0]
  /\ dirtyRows = 0..(height - 1)
  /\ was = bytes
  /\ put = [op |-> "clear"] /\ puts = 0

\* The display gets `after' and the rows are marked.
Put(op, after, rows) ==
  /\ puts < MaxPuts
  /\ bytes' = after /\ dirtyRows' = dirtyRows \cup rows
  /\ was' = bytes /\ put' = op /\ puts' = puts + 1
  /\ UNCHANGED display

clear ==
  Put([op |-> "clear"], [i \in DOMAIN bytes |-> IF display = "Generic" THEN 32 ELSE 0],
      0..(height - 1))

\* KK takes the column for a byte, and Push has the first row refused as KK has.
PutCharacter(col, row, what) ==
  Put([op |-> "character", row |-> row], Write(bytes, row * width * Unit + col, what), {row})
KKPutCharacter(col, row, c) ==
  display = "KK" /\ row >= 1 /\ col < width /\ PutCharacter(col, row, Sixteen(c))
GenericPutCharacter(col, row, c) ==
  display = "Generic" /\ row >= 1 /\ col < width /\ PutCharacter(col, row, <<c>>)

\* The place behind the last one, which F1 does not refuse, is left out.
SevenPutCharacter(col, row, c) ==
  display = "Seven" /\ c \in 45..90 /\ col < width /\ PutCharacter(col, row, <<Seven(c)>>)

putCharacter(col, row, c) ==
  KKPutCharacter(col, row, c) \/ GenericPutCharacter(col, row, c) \/ SevenPutCharacter(col, row, c)

putText(text, row, align) ==
  /\ row \in TextRows
  /\ Put([op |-> "text", row |-> row, text |-> text, align |-> align],
         TextOn(bytes, text, row, align), {row})

putInteger(n, row, align) == putText(Digits(n), row, align)

putNumber(v, row, align) ==
  /\ row \in TextRows
  /\ ~Throws(v)
  /\ LET dotted == CASE display = "Generic" -> bytes
                     [] display = "KK" -> KKSetDot(KKResetDots(bytes, row), DotPlace(v), row)
                     [] OTHER -> SevenSetDot(SevenResetDots(bytes), DotPlace(v))
     IN Put([op |-> "number", row |-> row, text |-> NumberText(v), align |-> align, v |-> v],
            TextOn(dotted, NumberText(v), row, align), {row})

putValue(full, row) ==
  /\ display # "Seven"
  /\ Put([op |-> "value", row |-> row], ValueOn(bytes, row, full), {row})

\* The tick of the device sends the display; that of F1 and KK leave the marks.
resetDirtyFlags ==
  /\ display = "Generic" /\ dirtyRows # {}
  /\ dirtyRows' = {}
  /\ was' = bytes /\ put' = [op |-> "sent"]
  /\ UNCHANGED <<display, bytes, puts>>

Next ==
  \/ clear
  \/ \E row \in 0..(height - 1), align \in Alignments :
       \/ \E text \in Texts : putText(text, row, align)
       \/ \E v \in Sixteenths : putInteger(Integral(v), row, align) \/ putNumber(v, row, align)
  \/ \E row \in 0..(height - 1) :
       \/ \E col \in {0, width - 1} : putCharacter(col, row, 65)
       \/ \E full \in {0, 5, 8} : putValue(full, row)
  \/ resetDirtyFlags

Spec == Init /\ [][Next]_textVars

-----------------------------------------------------------------------------
(* Properties.                                                             *)

\* Where the blank places of a text of `n' characters are.
Before(n, align) ==
  CASE align = "Left" -> {0} [] align = "Right" -> {width - n}
    [] OTHER -> {b \in 0..(width - n) : LET a == width - n - b IN b - a \in {-1, 0, 1}}

\* A text or a number stands in its row, cut or filled with blanks as it is aligned; other
\* rows keep what they had, but for the points of KK, and the display is marked for it.
TextStandsInItsRow ==
  put.op \in {"text", "number"} =>
    LET shown == SubSeq(put.text, 1, IF Len(put.text) < width THEN Len(put.text) ELSE width)
        points == IF display = "KK" THEN {2 * n : n \in 1..8} ELSE {}
        row == SubSeq(bytes, put.row * width * Unit + 1, (put.row + 1) * width * Unit)
    IN /\ \E b \in Before(Len(shown), put.align) :
            row = GlyphsOf(Blanks(b) \o shown \o Blanks(width - b - Len(shown)))
       /\ \A i \in DOMAIN bytes \ (RowBytes(put.row) \cup points) : bytes[i] = was[i]
       /\ put.row \in dirtyRows

\* A positive number of KK in the middle, with three digits behind the point and room for
\* all of them, has its point behind the last digit of the integral part, and no other.
PointIsBehindInteger ==
  display = "KK" /\ put.op = "number" /\ put.align = "Center" =>
    LET integral == Len(Digits(Integral(put.v)))
        place == (width - Len(put.text)) \div 2 + integral - 1
    IN Len(Digits(Fraction(put.v, 1000))) = 3 /\ Len(put.text) <= 8 =>
         \A n \in 0..6 : BitOf(bytes[2 * n + 2], put.row - 1) = (IF n = place THEN 1 ELSE 0)

\* What is written and sent holds segments of glyphs only: no byte is out of range.
BytesAreBytes == \A i \in DOMAIN bytes : bytes[i] \in 0..255

TextsAreShown == TextStandsInItsRow /\ PointIsBehindInteger /\ BytesAreBytes

=============================================================================
