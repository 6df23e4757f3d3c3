------------------------------- MODULE Layer -------------------------------
(***************************************************************************)
(* Guacamole.Layer of engine/internal/rac/static/guacamole-common.js: one  *)
(* canvas of the remote display, which the tasks of Guacamole.Display draw *)
(* on.  A layer keeps four facts about its canvas on the side, so that it  *)
(* need not ask the browser: whether anything was drawn (empty), whether   *)
(* the next path operation starts a new path (pathClosed), how many states *)
(* are saved on the context's stack (stackSize) and its own size, which is *)
(* smaller than the canvas: canvases come in multiples of                  *)
(* CANVAS_SIZE_FACTOR.  Changing a canvas's size makes the browser throw   *)
(* away its pixels, its path, its state and its stack, and the layer has   *)
(* to put back what must survive.                                          *)
(*                                                                         *)
(* The record l holds both sides:                                          *)
(*   width, height, autosize, empty, pathClosed, stackSize   the layer's   *)
(*   canvas   the canvas's size       ink    its painted pixels            *)
(*   cur      the context's state     saved  its stack of saved states     *)
(*   path     the pixels of the current path                               *)
(*   spent    whether that path was already closed, clipped to or painted  *)
(*   threw    an operation of the context threw out of the layer's method  *)
(* A pixel is painted or it is not; colours are left out.                  *)
(***************************************************************************)
EXTENDS Integers, Sequences, SequencesExt

CONSTANTS
    CANVAS_SIZE_FACTOR,  \* 64 in the code
    MaxWidth, MaxHeight, \* bounds: the pixels that are tracked
    MaxStack,            \* bound: states the server pushes at once
    Boxes,               \* the rectangles operations name: <<x, y, w, h>>
    SrcCoords,           \* where in the source canvas copy, put and transfer read
    Sizes,               \* the sizes the server gives a layer: <<w, h>>
    Masks,               \* the channel masks the server sets
    Rasters              \* the raster operations it transfers pixels with

ASSUME FactorAssumption == CANVAS_SIZE_FACTOR \in Nat \ {0}
ASSUME BoundsAssumption == MaxWidth \in Nat /\ MaxHeight \in Nat /\ MaxStack \in Nat
ASSUME InputsAssumption == /\ Boxes \subseteq Nat \X Nat \X Nat \X Nat
                           /\ SrcCoords \subseteq Nat
                           /\ Sizes \subseteq Nat \X Nat
ASSUME MasksAssumption == Masks \subseteq 0..15 /\ Rasters \subseteq 0..15

VARIABLE l

vars == <<l>>

Pixels == (0..MaxWidth - 1) \X (0..MaxHeight - 1)

\* The pixels of the rectangle at x, y; what lies outside every canvas is cut.
Area(x, y, w, h) == {p \in Pixels : /\ p[1] >= x /\ p[1] < x + w
                                    /\ p[2] >= y /\ p[2] < y + h}

AtLeast(a, b) == IF a >= b THEN a ELSE b
AtMost(a, b) == IF a <= b THEN a ELSE b

-----------------------------------------------------------------------------
(* The canvas and its 2D context: the browser's *)

\* compositeOperation: the channel masks that name an operation.
compositeOperation ==
    [m \in {1, 2, 4, 6, 8, 9, 10, 11, 12, 14, 15} |->
        CASE m = 1  -> "destination-in"    [] m = 2  -> "destination-out"
          [] m = 4  -> "source-in"         [] m = 6  -> "source-atop"
          [] m = 8  -> "source-out"        [] m = 9  -> "destination-atop"
          [] m = 10 -> "xor"               [] m = 11 -> "destination-over"
          [] m = 12 -> "copy"              [] m = 14 -> "source-over"
          [] m = 15 -> "lighter"]

Operations == {compositeOperation[m] : m \in DOMAIN compositeOperation}

\* Which pixels are painted after src is composited onto dst.
Blend(op, dst, src) ==
    CASE op \in {"source-over", "destination-over", "lighter"} -> dst \cup src
      [] op \in {"source-in", "destination-in"} -> dst \cap src
      [] op = "destination-out" -> dst \ src
      [] op = "source-out" -> src \ dst
      [] op = "source-atop" -> dst
      [] op \in {"destination-atop", "copy"} -> src
      [] op = "xor" -> (dst \ src) \cup (src \ dst)

\* A context as the browser hands it out: source-over, no transform, no clip.
FreshContext == [op |-> "source-over", shift |-> 0, clip |-> Pixels]

OnCanvas(s, px) == px \cap Area(0, 0, s.canvas[1], s.canvas[2])

\* Drawing px under the context's operation, transform and clip.
Composite(s, px) ==
    LET src == OnCanvas(s, {p \in Pixels : <<p[1] - s.cur.shift, p[2]>> \in px})
    IN  [s EXCEPT !.ink = (@ \ s.cur.clip)
                          \cup (Blend(s.cur.op, @, src) \cap s.cur.clip)]

\* context.restore(): nothing happens on an empty stack.
Restore(s) ==
    IF s.saved = <<>> THEN s
    ELSE [s EXCEPT !.cur = Last(s.saved), !.saved = Front(@)]

Save(s) == [s EXCEPT !.saved = Append(@, s.cur)]

BeginPath(s) == [s EXCEPT !.path = {}, !.spent = FALSE]

\* Assigning canvas.width and canvas.height.
SetCanvasSize(s, w, h) ==
    [s EXCEPT !.canvas = <<w, h>>, !.ink = {}, !.path = {}, !.spent = FALSE,
              !.cur = FreshContext, !.saved = <<>>]

-----------------------------------------------------------------------------
(* The layer's methods, as functions of its state *)

(* Mutant: the stack is emptied, the current state is kept. *)
ResetKeepsState(s) ==
    [BeginPath(s) EXCEPT !.saved = <<s.cur>>, !.stackSize = 0,
                         !.pathClosed = FALSE]

\* reset.  The loop takes stackSize states off the stack; what is left is the
\* state saved when the canvas was sized.
Reset(s) ==
    LET left == AtLeast(Len(s.saved) - s.stackSize, 0)
        back == IF s.stackSize > 0 /\ s.saved # <<>>
                THEN [s EXCEPT !.cur = s.saved[left + 1],
                               !.saved = SubSeq(@, 1, left)]
                ELSE s
    IN  [BeginPath(Save(Restore(back))) EXCEPT !.stackSize = 0,
                                               !.pathClosed = FALSE]

Round(n) == ((n + CANVAS_SIZE_FACTOR - 1) \div CANVAS_SIZE_FACTOR)
            * CANVAS_SIZE_FACTOR

\* The canvas gets its new size, what was drawn on it is drawn again, and the
\* composite operation is kept.
Redraw(s, w, h) ==
    LET blank == SetCanvasSize(s, Round(w), Round(h))
        old   == s.ink \cap Area(0, 0, AtMost(s.width, w), AtMost(s.height, h))
        drawn == IF s.empty THEN blank ELSE Composite(blank, old)
    IN  [drawn EXCEPT !.cur.op = s.cur.op]

(* Mutants: the stack the browser emptied is not acknowledged; the operation *)
(* is put back before the old pixels are redrawn.                            *)
ResizeCanvasKeepsCount(s, w, h) ==
    [Save(Redraw(s, w, h)) EXCEPT !.width = w, !.height = h]
ResizeCanvasOpFirst(s, w, h) ==
    LET blank == [SetCanvasSize(s, Round(w), Round(h)) EXCEPT !.cur.op = s.cur.op]
        redrawn == Composite(blank, s.ink \cap Area(0, 0, AtMost(s.width, w),
                                                    AtMost(s.height, h)))
    IN  [Save(redrawn) EXCEPT !.stackSize = 0, !.width = w, !.height = h]

\* The first branch of resize: the canvas itself changes size.  Drawing from a
\* copy that has no width or no height throws.
ResizeCanvas(s, w, h) ==
    LET copies == ~s.empty /\ s.canvas[1] # 0 /\ s.canvas[2] # 0
    IN  IF copies /\ (AtMost(s.width, w) = 0 \/ AtMost(s.height, h) = 0)
        THEN [SetCanvasSize(s, Round(w), Round(h)) EXCEPT !.threw = TRUE]
        ELSE [Save(Redraw(s, w, h)) EXCEPT !.stackSize = 0,
                                           !.width = w, !.height = h]

\* resize, private and public.
Resize(s, w, h) ==
    CASE w = s.width /\ h = s.height -> s
      [] s.canvas # <<Round(w), Round(h)>> -> ResizeCanvas(s, w, h)
      [] OTHER -> [Reset(s) EXCEPT !.width = w, !.height = h]

\* fitRect, called by every drawing method of a layer that sizes itself.
FitRect(s, x, y, w, h) ==
    IF s.autosize
    THEN Resize(s, AtLeast(x + w, s.width), AtLeast(y + h, s.height))
    ELSE s

Inked(s) == [s EXCEPT !.empty = FALSE]

\* drawImage
DrawImage(s, x, y, w, h) ==
    LET fit == FitRect(s, x, y, w, h)
    IN  IF fit.threw THEN fit ELSE Inked(Composite(fit, Area(x, y, w, h)))

\* The rectangle transfer, put and copy really read, cut to the source canvas.
Cut(from, extent, side) == IF from + extent > side THEN side - from ELSE extent

\* DefaultTransferFunction: which pixels are painted after the raster operation
\* f.  SRC and its inverse copy the source's alpha; the other fourteen compute
\* colours and leave the destination's alpha as it is.
DefaultTransferFunction(f, src, dst) == IF f \in {3, 12} THEN src ELSE dst

\* transfer, and put, which is a transfer with SRC.  They work on the pixels
\* of a rectangle and know no clip, mask or transform.
Overwrite(s, x, y, w, h, px, f) ==
    LET fit  == FitRect(s, x, y, w, h)
        rect == OnCanvas(fit, Area(x, y, w, h))
    IN  IF fit.threw THEN fit
        ELSE Inked([fit EXCEPT !.ink =
                 (@ \ rect) \cup (DefaultTransferFunction(f, px, @) \cap rect)])

\* moveTo, lineTo, arc and curveTo put one more point on the path.
PathTo(s, x, y) ==
    LET open == IF s.pathClosed
                THEN [BeginPath(s) EXCEPT !.pathClosed = FALSE]
                ELSE s
        fit  == FitRect(open, x, y, 0, 0)
    IN  IF fit.threw THEN fit
        ELSE [fit EXCEPT !.path = @ \cup Area(x + fit.cur.shift, y, 1, 1)]

\* rect
RectTo(s, x, y, w, h) ==
    LET open == IF s.pathClosed
                THEN [BeginPath(s) EXCEPT !.pathClosed = FALSE]
                ELSE s
        fit  == FitRect(open, x, y, w, h)
    IN  IF fit.threw THEN fit
        ELSE [fit EXCEPT !.path = @ \cup Area(x + fit.cur.shift, y, w, h)]

\* close
ClosePath(s) == [s EXCEPT !.pathClosed = TRUE, !.spent = TRUE]

\* clip
ClipPath(s) == [s EXCEPT !.cur.clip = @ \cap s.path,
                         !.pathClosed = TRUE, !.spent = TRUE]

\* strokeColor, fillColor, strokeLayer and fillLayer.  The path already is in
\* canvas coordinates.
PaintPath(s) ==
    LET bare == Composite([s EXCEPT !.cur.shift = 0], s.path)
    IN  [s EXCEPT !.ink = bare.ink, !.empty = FALSE,
                  !.pathClosed = TRUE, !.spent = TRUE]

\* push
PushState(s) == [Save(s) EXCEPT !.stackSize = @ + 1]

\* pop
PopState(s) == IF s.stackSize > 0
               THEN [Restore(s) EXCEPT !.stackSize = @ - 1]
               ELSE s

\* setTransform and transform
SetTransform(s, d) == [s EXCEPT !.cur.shift = d]
AddTransform(s, d) == [s EXCEPT !.cur.shift = @ + d]

\* setChannelMask: a mask outside the table leaves the operation as it is.
SetChannelMask(s, m) ==
    IF m \in DOMAIN compositeOperation
    THEN [s EXCEPT !.cur.op = compositeOperation[m]]
    ELSE s

-----------------------------------------------------------------------------
(* A layer's life *)

\* The constructor.  The browser's new canvas is never the size asked for, so
\* its call of resize always takes the first branch.
NewLayer(w, h, auto) ==
    [width |-> w, height |-> h, autosize |-> auto, empty |-> TRUE,
     pathClosed |-> TRUE, stackSize |-> 0, canvas |-> <<Round(w), Round(h)>>,
     ink |-> {}, cur |-> FreshContext, saved |-> <<FreshContext>>,
     path |-> {}, spent |-> FALSE, threw |-> FALSE]

\* A visible layer is given its size; a buffer starts at 0 by 0 and sizes itself.
Init == \/ \E z \in Sizes : l = NewLayer(z[1], z[2], FALSE)
        \/ l = NewLayer(0, 0, TRUE)

Live == ~l.threw
Fits(b) == b[1] + b[3] <= MaxWidth /\ b[2] + b[4] <= MaxHeight

Draw == \E b \in Boxes :
    Live /\ Fits(b) /\ l' = DrawImage(l, b[1], b[2], b[3], b[4])

\* What put, transfer and copy draw from a canvas of one factor square, cut to
\* that canvas.  A rectangle outside it, or nothing left of one, draws nothing.
FromCanvas ==
    LET cut == {<<b[1], b[2], Cut(sx, b[3], CANVAS_SIZE_FACTOR), Cut(0, b[4], CANVAS_SIZE_FACTOR)>> :
                  sx \in {x \in SrcCoords : x < CANVAS_SIZE_FACTOR}, b \in {x \in Boxes : Fits(x)}}
    IN  {r \in cut : r[3] # 0 /\ r[4] # 0}

\* The source is blank or painted all over.
Transfer == \E r \in FromCanvas, px \in {{}, Pixels}, f \in Rasters :
    Live /\ l' = Overwrite(l, r[1], r[2], r[3], r[4], px, f)

Copy == \E r \in FromCanvas : Live /\ l' = DrawImage(l, r[1], r[2], r[3], r[4])

Point == \E b \in Boxes : Live /\ Fits(b) /\ l' = PathTo(l, b[1], b[2])

Rect == \E b \in Boxes :
    Live /\ Fits(b) /\ l' = RectTo(l, b[1], b[2], b[3], b[4])

Close == Live /\ l' = ClosePath(l)
Clip == Live /\ l' = ClipPath(l)
Paint == Live /\ l' = PaintPath(l)
Push == Live /\ l.stackSize < MaxStack /\ l' = PushState(l)
Pop == Live /\ l' = PopState(l)
ResetLayer == Live /\ l' = Reset(l)

Transform == \E d \in {0, 1} :
    /\ Live
    /\ \/ l' = SetTransform(l, d)
       \/ l.cur.shift + d <= 1 /\ l' = AddTransform(l, d)

Mask == \E m \in Masks : Live /\ l' = SetChannelMask(l, m)

Size == \E z \in Sizes : Live /\ l' = Resize(l, z[1], z[2])

Next == \/ Draw \/ Transfer \/ Copy \/ Point \/ Rect \/ Close \/ Clip \/ Paint
        \/ Push \/ Pop \/ ResetLayer \/ Transform \/ Mask \/ Size

Spec == Init /\ [][Next]_vars

-----------------------------------------------------------------------------
(* Properties *)

Contexts == [op : Operations, shift : {0, 1}, clip : SUBSET Pixels]

(* Every field has its type; pixels, path and clip lie on the canvas grid,   *)
(* and the canvas is the layer's size rounded up to the factor (resize).     *)
TypeOK ==
    /\ l.width \in Nat /\ l.height \in Nat /\ l.stackSize \in Nat
    /\ {l.autosize, l.empty, l.pathClosed, l.spent, l.threw} \subseteq BOOLEAN
    /\ Live => l.canvas = <<Round(l.width), Round(l.height)>>
    /\ l.path \subseteq Pixels
    /\ l.ink \subseteq Area(0, 0, l.canvas[1], l.canvas[2])
    /\ l.cur \in Contexts
    /\ \A i \in DOMAIN l.saved : l.saved[i] \in Contexts

(* "There will ALWAYS be one element on the stack, but that element is not   *)
(* exposed" (stackSize): the context's stack holds the states the server     *)
(* pushed and one more, through every push, pop, reset and change of size,   *)
(* the changes of size a self-sizing layer makes inside a drawing operation  *)
(* included.  The one exception is a layer that was painted and is then      *)
(* given no width or no height: the browser refuses to draw its empty copy,  *)
(* and the exception leaves resize before it saves the state again.          *)
StackMirrorsContext == Live => Len(l.saved) = l.stackSize + 1

(* The hidden element at the bottom of the stack never carries a transform   *)
(* or a clip, so that reset always clears both, whatever was pushed and      *)
(* whenever the canvas was last sized.                                       *)
BaselineIsClean ==
    Live => l.saved[1].shift = 0 /\ l.saved[1].clip = Pixels

(* A layer that says it is empty has no painted pixel.  resize does not copy *)
(* the pixels of an empty layer, so a drawing method that forgot the flag    *)
(* would lose a picture at the next change of size.                          *)
EmptyMeansBlank == l.empty => l.ink = {}

(* A path that was closed, clipped to or painted is never added to: the      *)
(* layer's pathClosed covers everything the context did with the path, also  *)
(* across a reset or a change of size in the middle of a path.               *)
SpentPathIsClosed == l.spent => l.pathClosed

(* Giving a layer another size keeps every pixel that lies inside both the   *)
(* old and the new size, whether the canvas is replaced (the copy in resize) *)
(* or stays (the branch that resets), under every composite operation, clip  *)
(* and transform in force.                                                   *)
ResizeKeepsPixels ==
    [][Size => LET both == Area(0, 0, AtMost(l.width, l'.width),
                                      AtMost(l.height, l'.height))
               IN  l'.ink \cap both = l.ink \cap both \/ l'.threw]_vars

=============================================================================
