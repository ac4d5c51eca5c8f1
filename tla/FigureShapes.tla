----------------------------- MODULE FigureShapes -----------------------------
(***************************************************************************)
(* What the primitives of Figures promise: each figure next to a           *)
(* definition of its shape that says nothing of how it is drawn.           *)
(***************************************************************************)
EXTENDS Figures

\* All points of strokes, those of one ink.
Touched(strokes) == UNION {strokes[i].at : i \in DOMAIN strokes}
Inked(strokes, ink) == UNION {strokes[i].at : i \in {j \in DOMAIN strokes : strokes[j].ink = ink}}

Mag(n) == IF n < 0 THEN -n ELSE n

-----------------------------------------------------------------------------

\* Twice the area of the triangle: positive if `c' lies left of the way from a to b.
Turned(a, b, c) == (b[1] - a[1]) * (c[2] - a[2]) - (b[2] - a[2]) * (c[1] - a[1])

\* A line has one point for each step along its longer side, and none of them lies more
\* than half a point from the straight line.
LineIsStraight(p, q) ==
  LET points == LinePoints(p[1], p[2], q[1], q[2])
      long == GreaterOf(Mag(q[1] - p[1]), Mag(q[2] - p[2]))
  IN /\ {p, q} \subseteq points
     /\ Cardinality(points) = long + 1
     /\ \A pt \in points : 2 * Mag(Turned(p, q, pt)) <= long

\* The points a triangle with its edges covers.
Covered(p, q, r) ==
  LET xs == {p[1], q[1], r[1]} ys == {p[2], q[2], r[2]}
      least(S) == CHOOSE n \in S : \A m \in S : n <= m
      most(S) == CHOOSE n \in S : \A m \in S : n >= m
  IN {pt \in (least(xs)..most(xs)) \X (least(ys)..most(ys)) :
        LET turns == {Turned(p, q, pt), Turned(q, r, pt), Turned(r, p, pt)}
        IN (\A t \in turns : t >= 0) \/ (\A t \in turns : t <= 0)}

\* A filled triangle leaves no hole and touches nothing that is not next to it.
TriangleIsFilled(p, q, r) ==
  LET strokes == triangleFilled(p, q, r, "white", "white")
      edges == LinePoints(p[1], p[2], q[1], q[2]) \cup LinePoints(q[1], q[2], r[1], r[2])
                 \cup LinePoints(r[1], r[2], p[1], p[2])
      near == UNION {(pt[1] - 1..pt[1] + 1) \X {pt[2]} : pt \in edges}
  IN ~ScansOverflow(p, q, r) =>
       /\ Covered(p, q, r) \subseteq Touched(strokes)
       /\ Touched(strokes) \subseteq Covered(p, q, r) \cup near

\* A circle is round: it is its own mirror image, its rim has no gap, and its parts are
\* what it has on their side.
CircleIsRound(r, type) ==
  LET full == circleFilled(10, 10, r, "white", "black", "Full")
      part == circleFilled(10, 10, r, "white", "black", type)
      rim == Inked(full, "white")
      side == {<<10 + d[1], 10 + d[2]>> : d \in CircleBox(r, type)}
      apart(a, b) == GreaterOf(Mag(a[1] - b[1]), Mag(a[2] - b[2]))
  IN r > 0 =>
     /\ \A pt \in rim : {<<20 - pt[1], pt[2]>>, <<pt[2], pt[1]>>} \subseteq rim
     /\ \A pt \in Inked(full, "black") :
          \A n \in {<<pt[1] + 1, pt[2]>>, <<pt[1], pt[2] + 1>>} : n \in Touched(full)
     /\ \A pt \in rim : Cardinality({n \in rim : apart(pt, n) = 1}) >= 2
     /\ Inked(part, "white") = rim \cap side
     /\ Inked(part, "black") = Inked(full, "black") \cap side

\* A rectangle has its frame and, inside, its filling.
RectangleIsFramed(x, y, w, h) ==
  LET strokes == rectangleFilled(100, 100, x, y, w, h, "white", "black")
      inner == Box(x + 1, y + 1, w - 2, h - 2)
  IN w > 0 /\ h > 0 =>
       /\ Touched(strokes) = Box(x, y, w, h)
       /\ Inked(strokes, "black") = inner
       /\ Inked(strokes, "white") = Box(x, y, w, h) \ inner

\* One with round corners lies in the same box, touches its four sides and is its own
\* mirror image.
RoundedIsFramed(x, y, w, h, r) ==
  LET points == Touched(rectangleRounded(100, 100, x, y, w, h, r, "white"))
  IN w > 2 * r /\ h > 2 * r =>
       /\ points \subseteq Box(x, y, w, h)
       /\ \A pt \in points : {<<2 * x + w - 1 - pt[1], pt[2]>>,
                              <<pt[1], 2 * y + h - 1 - pt[2]>>} \subseteq points
       /\ \A side \in {Box(x, y, w, 1), Box(x, y, 1, h)} : side \cap points # {}

\* A bitmap whose width is a multiple of 8 is copied bit for bit.
BitmapIsCopied(x, y, w, h, bits) ==
  LET strokes == putBitmap(100, 100, x, y, w, h, bits, "white")
  IN w % 8 = 0 =>
       Touched(strokes) = {<<x + 8 * (bit[1] % (w \div 8)) + bit[2], y + bit[1] \div (w \div 8)>> :
                             bit \in {b \in bits : b[1] < h * (w \div 8)}}
=============================================================================
