-------------------------------- MODULE Canvas --------------------------------
(***************************************************************************)
(* A canvas: figures are drawn on it, the chunks they touch are marked,    *)
(* and the device, which looks at dirty() only, sends it as a whole and    *)
(* takes the marks away (CanvasBase.h, DynamicCanvas.h, Canvas.cpp).       *)
(* Points are black or white; the picture is the set of those that are     *)
(* white.                                                                  *)
(***************************************************************************)
EXTENDS Figures

CONSTANTS
  W, H,          \* the size of the canvas
  NCHUNKS,       \* its chunks
  Drawings,      \* the figures that are drawn
  MaxDraws       \* bound: figures drawn in a behaviour

VARIABLES
  picture,       \* m_data: the white points
  dirtyChunks,   \* m_chunkDirtyFlags
  shown,         \* what the device shows
  stray,         \* fill() or invert(), which mark nothing, changed the picture since it was sent
  drawn,         \* the last figure
  draws          \* how many there were

canvasVars == <<picture, dirtyChunks, shown, stray, drawn, draws>>

Area == (0..(W - 1)) \X (0..(H - 1))

Inks == {"black", "white", "invert"}

Flags == 0..(NCHUNKS - 1)

-----------------------------------------------------------------------------
(* A figure as the strokes of its primitive.  A figure has a shape and the *)
(* arguments of the primitive.                                             *)

Strokes(fig, ink, fill) ==
  CASE fig.shape = "line" -> line(fig.p[1], fig.p[2], fig.q[1], fig.q[2], ink)
    [] fig.shape = "triangle" -> triangle(fig.p, fig.q, fig.r, ink)
    [] fig.shape = "triangleFilled" -> triangleFilled(fig.p, fig.q, fig.r, ink, fill)
    [] fig.shape = "circle" -> circle(fig.p[1], fig.p[2], fig.radius, ink, fig.type)
    [] fig.shape = "circleFilled" -> circleFilled(fig.p[1], fig.p[2], fig.radius, ink, fill, fig.type)
    [] fig.shape = "rectangle" -> rectangle(W, H, fig.p[1], fig.p[2], fig.w, fig.h, ink)
    [] fig.shape = "rectangleFilled" ->
         rectangleFilled(W, H, fig.p[1], fig.p[2], fig.w, fig.h, ink, fill)
    [] fig.shape = "rectangleRounded" ->
         rectangleRounded(W, H, fig.p[1], fig.p[2], fig.w, fig.h, fig.radius, ink)
    [] fig.shape = "rectangleRoundedFilled" ->
         rectangleRoundedFilled(W, H, fig.p[1], fig.p[2], fig.w, fig.h, fig.radius, ink, fill)
    [] fig.shape = "bitmap" ->
         putBitmap(W, H, fig.p[1], fig.p[2], fig.w, fig.h, fig.bits, ink)
    [] fig.shape = "text" -> putText(W, H, fig.font, fig.p[1], fig.p[2], fig.text, ink, fig.spacing)
    [] fig.shape = "canvas" ->
         putCanvas(W, H, fig.source, fig.cw, fig.ch, fig.p[1], fig.p[2], fig.q[1], fig.q[2],
                   fig.w, fig.h)

\* Mutant: the last chunk is as high as the others.
ChunkUnclamped(y) == y \div (H \div NCHUNKS)

\* setDirtyChunk(): the last chunk has the rows that are left over.
Chunk(y) == LesserOf(y \div (H \div NCHUNKS), NCHUNKS - 1)

\* setPixel() for each point of a stroke.  A point that is inverted counts as changed.
setPixels(p, stroke) ==
  LET inside == IF stroke.ink = Transparent THEN {} ELSE stroke.at \cap Area
      after == CASE stroke.ink = "white" -> p.white \cup inside
                 [] stroke.ink = "black" -> p.white \ inside
                 [] stroke.ink = "invert" -> (p.white \ inside) \cup (inside \ p.white)
                 [] OTHER -> p.white
      changed == (p.white \ after) \cup (after \ p.white)
  IN [white |-> after, marks |-> p.marks \cup {Chunk(pt[2]) : pt \in changed}]

\* The picture and the marks after the strokes, one after another.
AfterStrokes(p, strokes) ==
  LET drawing[i \in 0..Len(strokes)] ==
        IF i = 0 THEN p ELSE setPixels(drawing[i - 1], strokes[i])
  IN drawing[Len(strokes)]

-----------------------------------------------------------------------------

Nothing == [shape |-> "none"]

\* The constructor marks everything.
Init ==
  /\ picture = {} /\ shown = {}
  /\ dirtyChunks = Flags
  /\ stray = FALSE
  /\ drawn = Nothing /\ draws = 0

Draw(fig, ink, fill) ==
  /\ draws < MaxDraws
  /\ LET done == AfterStrokes([white |-> picture, marks |-> dirtyChunks], Strokes(fig, ink, fill))
     IN picture' = done.white /\ dirtyChunks' = done.marks
  /\ drawn' = fig /\ draws' = draws + 1
  /\ UNCHANGED <<shown, stray>>

\* white() and black() mark everything, fill() and invert() nothing.
Clear(to, marks) ==
  /\ draws < MaxDraws
  /\ picture' = to
  /\ dirtyChunks' = IF marks THEN Flags ELSE dirtyChunks
  /\ stray' = (stray \/ (~marks /\ to # picture))
  /\ drawn' = Nothing /\ draws' = draws + 1
  /\ UNCHANGED shown

white == Clear(Area, TRUE)
black == Clear({}, TRUE)
fill == Clear(Area, FALSE) \/ Clear({}, FALSE)
invert == Clear(Area \ picture, FALSE)

dirty == dirtyChunks \cap Flags # {}

\* The tick of the device.
Send ==
  /\ dirty
  /\ shown' = picture /\ dirtyChunks' = {} /\ stray' = FALSE
  /\ UNCHANGED <<picture, drawn, draws>>

Next ==
  \/ \E fig \in Drawings, ink, inside \in Inks : Draw(fig, ink, inside)
  \/ white \/ black \/ fill \/ invert
  \/ Send

Spec == Init /\ [][Next]_canvasVars

-----------------------------------------------------------------------------
(* Properties.                                                             *)

\* Whatever is drawn, where the last chunk is higher and inks undo each other too: a
\* display with no mark shows the picture, if fill() and invert() were left alone.
PictureIsShown ==
  /\ picture \cup shown \subseteq Area
  /\ ~dirty /\ ~stray => picture = shown

=============================================================================
