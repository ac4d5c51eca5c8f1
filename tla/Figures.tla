------------------------------- MODULE Figures -------------------------------
(***************************************************************************)
(* The drawing primitives of Canvas.cpp, as pure operators.                *)
(*                                                                         *)
(* What a primitive does is the sequence of its strokes: sets of points    *)
(* that are set to an ink one after another, no point twice in a stroke.   *)
(* The sequence matters: an ink may invert what is there.  Coordinates are *)
(* unsigned in the code; what would be negative is there a number no       *)
(* canvas reaches.  setPixel() passes over what lies outside.              *)
(***************************************************************************)
EXTENDS Integers, Sequences, FiniteSets

Stroke(points, ink) == <<[at |-> points, ink |-> ink]>>

Box(x, y, w, h) == (x..(x + w - 1)) \X (y..(y + h - 1))

LesserOf(a, b) == IF a < b THEN a ELSE b
GreaterOf(a, b) == IF a > b THEN a ELSE b
Sign(n) == CASE n < 0 -> -1 [] n = 0 -> 0 [] n > 0 -> 1

\* Division of the code: towards zero.
Quotient(a, b) == Sign(a) * ((Sign(a) * a) \div b)

-----------------------------------------------------------------------------
(* Lines.                                                                  *)

\* Mutant: the error term is only taken back when it is positive.
LinePointsSteep(x0, y0, x1, y1) ==
  LET s1 == Sign(x1 - x0)
      s2 == Sign(y1 - y0)
      swapped == s2 * (y1 - y0) > s1 * (x1 - x0)
      dx == GreaterOf(s1 * (x1 - x0), s2 * (y1 - y0))
      dy == LesserOf(s1 * (x1 - x0), s2 * (y1 - y0))
      step[j \in 0..dx] ==
        IF j = 0 THEN [x |-> x0, y |-> y0, e |-> 2 * dy - dx]
        ELSE LET p == step[j - 1]
             IN [x |-> p.x + (IF ~swapped \/ p.e > 0 THEN s1 ELSE 0),
                 y |-> p.y + (IF swapped \/ p.e > 0 THEN s2 ELSE 0),
                 e |-> p.e + 2 * dy - (IF p.e > 0 THEN dx ELSE 0)]
  IN {<<step[j].x, step[j].y>> : j \in 0..dx}

\* Bresenham's algorithm: `e' decides when to step along the shorter side.
LinePoints(x0, y0, x1, y1) ==
  LET s1 == Sign(x1 - x0)
      s2 == Sign(y1 - y0)
      swapped == s2 * (y1 - y0) > s1 * (x1 - x0)
      dx == GreaterOf(s1 * (x1 - x0), s2 * (y1 - y0))
      dy == LesserOf(s1 * (x1 - x0), s2 * (y1 - y0))
      step[j \in 0..dx] ==
        IF j = 0 THEN [x |-> x0, y |-> y0, e |-> 2 * dy - dx]
        ELSE LET p == step[j - 1]
             IN [x |-> p.x + (IF ~swapped \/ p.e >= 0 THEN s1 ELSE 0),
                 y |-> p.y + (IF swapped \/ p.e >= 0 THEN s2 ELSE 0),
                 e |-> p.e + 2 * dy - (IF p.e >= 0 THEN 2 * dx ELSE 0)]
  IN {<<step[j].x, step[j].y>> : j \in 0..dx}

line(x0, y0, x1, y1, ink) == Stroke(LinePoints(x0, y0, x1, y1), ink)

lineVertical(x, y, l, ink) == Stroke(Box(x, y, 1, l), ink)
lineHorizontal(x, y, l, ink) == Stroke(Box(x, y, l, 1), ink)

-----------------------------------------------------------------------------
(* Triangles, whose corners are points.                                    *)

triangle(p0, p1, p2, ink) ==
  line(p0[1], p0[2], p1[1], p1[2], ink) \o line(p1[1], p1[2], p2[1], p2[2], ink)
  \o line(p2[1], p2[2], p0[1], p0[2], ink)

\* The corners by height, with the three exchanges of the code.
ByHeight(p0, p1, p2) ==
  LET a == IF p0[2] > p1[2] THEN <<p1, p0, p2>> ELSE <<p0, p1, p2>>
      b == IF a[2][2] > a[3][2] THEN <<a[1], a[3], a[2]>> ELSE a
  IN IF b[1][2] > b[2][2] THEN <<b[2], b[1], b[3]>> ELSE b

\* The last scan line of the upper part.  It is an unsigned number: with the flat top in
\* row 0 the loop has no end and divides by zero in its first turn.
ScansOverflow(p0, p1, p2) ==
  LET c == ByHeight(p0, p1, p2) IN c[1][2] = 0 /\ c[2][2] = 0 /\ c[3][2] # 0

triangleFilled(p0, p1, p2, ink, fill) ==
  LET c == ByHeight(p0, p1, p2)
      x0 == c[1][1] y0 == c[1][2]
      x1 == c[2][1] y1 == c[2][2]
      x2 == c[3][1] y2 == c[3][2]
      last == IF y1 = y2 THEN y1 ELSE y1 - 1
      b(y) == x0 + Quotient((x2 - x0) * (y - y0), y2 - y0)
      a(y) == IF y <= last THEN x0 + Quotient((x1 - x0) * (y - y0), y1 - y0)
              ELSE x1 + Quotient((x2 - x1) * (y - y1), y2 - y1)
      scan(y) == (LesserOf(a(y), b(y))..GreaterOf(a(y), b(y))) \X {y}
      \* All on one line: the two other corners move the ends of what is drawn.
      left == LesserOf(x0, LesserOf(x1, x2))
      right == GreaterOf(x0, GreaterOf(x1, x2))
  IN IF y0 = y2
     THEN lineHorizontal(left, y0, right - left + 1, fill)
     ELSE Stroke(UNION {scan(y) : y \in y0..y2}, fill) \o triangle(c[1], c[2], c[3], ink)

-----------------------------------------------------------------------------
(* Rectangles and circles, on a canvas of size `W' x `H'.                  *)

Transparent == "none"

rectangleFilled(W, H, x, y, w, h, ink, fill) ==
  IF x > W \/ y > H \/ w = 0 \/ h = 0 THEN << >>
  ELSE lineHorizontal(x, y, w, ink) \o lineHorizontal(x, y + h - 1, w, ink)
       \o (IF h <= 2 THEN << >>
           ELSE lineVertical(x, y + 1, h - 2, ink) \o lineVertical(x + w - 1, y + 1, h - 2, ink)
                \o Stroke(Box(x + 1, y + 1, w - 2, h - 2), fill))

rectangle(W, H, x, y, w, h, ink) == rectangleFilled(W, H, x, y, w, h, ink, Transparent)

\* Which points, seen from the centre, each type of circle has.
CircleTypes ==
  {"Full", "SemiLeft", "SemiRight", "SemiTop", "SemiBottom", "QuarterTopLeft",
   "QuarterTopRight", "QuarterBottomLeft", "QuarterBottomRight"}

CircleBox(r, type) ==
  LET x0 == IF type \in {"SemiRight", "QuarterTopRight", "QuarterBottomRight"} THEN 0 ELSE -r
      x1 == IF type \in {"SemiLeft", "QuarterTopLeft", "QuarterBottomLeft"} THEN 0 ELSE r
      y0 == IF type \in {"SemiBottom", "QuarterBottomLeft", "QuarterBottomRight"} THEN 0 ELSE -r
      y1 == IF type \in {"SemiTop", "QuarterTopLeft", "QuarterTopRight"} THEN 0 ELSE r
  IN (x0..x1) \X (y0..y1)

circleFilled(x, y, r, ink, fill, type) ==
  LET off(d) == d[1] * d[1] + d[2] * d[2] - r * r
      rim == {d \in CircleBox(r, type) : off(d) < r /\ -off(d) < r}
      inside == {d \in CircleBox(r, type) \ rim : off(d) < 0}
      moved(ds) == {<<x + d[1], y + d[2]>> : d \in ds}
  IN IF r = 0 THEN << >> ELSE Stroke(moved(rim), ink) \o Stroke(moved(inside), fill)

circle(x, y, r, ink, type) == circleFilled(x, y, r, ink, Transparent, type)

rectangleRoundedFilled(W, H, x, y, w, h, r0, ink, fill) ==
  LET side == LesserOf(w, h)
      r == IF 2 * r0 > side THEN side \div 2 ELSE r0
      offset == IF 2 * r0 > side THEN side ELSE 2 * r0
      outline ==
        lineHorizontal(x + r, y, w - offset, ink)
        \o lineHorizontal(x + r, y + h - 1, w - offset, ink)
        \o lineVertical(x, y + r, h - offset, ink)
        \o lineVertical(x + w - 1, y + r, h - offset, ink)
        \o circleFilled(x + r, y + r, r, ink, fill, "QuarterTopLeft")
        \o circleFilled(x + w - r - 1, y + r, r, ink, fill, "QuarterTopRight")
        \o circleFilled(x + w - r - 1, y + h - r - 1, r, ink, fill, "QuarterBottomRight")
        \o circleFilled(x + r, y + h - r - 1, r, ink, fill, "QuarterBottomLeft")
      body ==
        rectangleFilled(W, H, x + r, y + 1, w - offset, r, fill, fill)
        \o rectangleFilled(W, H, x + 1, y + r, w - 2, h - offset, fill, fill)
        \o rectangleFilled(W, H, x + r, y + h - 1 - r, w - offset, r, fill, fill)
  IN IF x > W \/ y > H \/ w = 0 \/ h = 0 THEN << >>
     ELSE outline \o (IF fill = Transparent \/ h <= 2 \/ w <= 2 THEN << >> ELSE body)

rectangleRounded(W, H, x, y, w, h, r, ink) ==
  rectangleRoundedFilled(W, H, x, y, w, h, r, ink, Transparent)

-----------------------------------------------------------------------------
(* Bitmaps, canvases and characters.                                       *)

\* What of a length at `at' fits before `size'.
Drawable(at, length, size) == IF at + length > size THEN size - at ELSE length

\* `bits' are the pairs <<byte, bit>> that are set, bit 0 the leftmost; a row takes
\* w \div 8 bytes, so rows overlap if w is no multiple of 8.
putBitmap(W, H, x, y, w, h, bits, ink) ==
  IF x >= W \/ y >= H THEN << >>
  ELSE Stroke({<<x + d[1], y + d[2]>> : d \in
                 {e \in (0..(Drawable(x, w, W) - 1)) \X (0..(Drawable(y, h, H) - 1)) :
                    <<(e[1] \div 8) + e[2] * (w \div 8), e[1] % 8>> \in bits}}, ink)

\* `source' is the picture of a canvas of size cw x ch, of which a part is copied; one
\* stroke for each ink.  Points outside of the source are transparent.
putCanvas(W, H, source, cw, ch, xDest, yDest, xSource, ySource, w, h) ==
  LET ww == IF w <= cw /\ w > 0 THEN w ELSE cw
      hh == IF h <= ch /\ h > 0 THEN h ELSE ch
      area == (0..(Drawable(xDest, ww, W) - 1)) \X (0..(Drawable(yDest, hh, H) - 1))
      from(d) == <<xSource + d[1], ySource + d[2]>>
      points(c) == {<<xDest + d[1], yDest + d[2]>> :
                      d \in {e \in area : from(e) \in DOMAIN source /\ source[from(e)] = c}}
  IN IF xDest >= W \/ yDest >= H \/ xSource >= cw \/ ySource >= ch THEN << >>
     ELSE Stroke(points("black"), "black") \o Stroke(points("white"), "white")

\* A font: its size, the space from one character to the next, and the points of each of
\* its characters.  Columns are counted up to the height.  putCharacter() sets these points.
CharacterPoints(W, H, font, x, y, c) ==
  IF x >= W \/ y >= H \/ c \notin DOMAIN font.points THEN {}
  ELSE {<<x + p[1], y + p[2]>> : p \in
          {q \in font.points[c] : q[1] < font.height /\ q[2] < font.height}}

\* One stroke for each character.
putText(W, H, font, x, y, text, ink, spacing) ==
  LET step == font.spacing + spacing
      shown == {i \in DOMAIN text : x + (i - 1) * step <= W + step}
  IN IF y >= H \/ x > W THEN << >>
     ELSE [i \in 1..Cardinality(shown) |->
             [at |-> CharacterPoints(W, H, font, x + (i - 1) * step, y, text[i]), ink |-> ink]]

=============================================================================
