---------------------------- MODULE LayerProofs -----------------------------
(* Proofs about Layer for every canvas size factor, every picture and every  *)
(* sequence of operations.                                                   *)
EXTENDS Layer, SequenceTheorems, TLAPS

(* What a layer's record looks like. *)
Layers ==
  [width : Nat, height : Nat, autosize : BOOLEAN, empty : BOOLEAN,
   pathClosed : BOOLEAN, stackSize : Nat, canvas : Nat \X Nat,
   ink : SUBSET Pixels, cur : Contexts, saved : Seq(Contexts),
   path : SUBSET Pixels, spent : BOOLEAN, threw : BOOLEAN]

(* The hidden element, under as many states as were pushed. *)
Stacked(s) == /\ Len(s.saved) = s.stackSize + 1
              /\ s.saved[1].shift = 0 /\ s.saved[1].clip = Pixels

(* The inductive invariant, of one layer: what every method keeps. *)
Sound(s) ==
  /\ s \in Layers
  /\ s.ink \subseteq Area(0, 0, s.canvas[1], s.canvas[2])
  /\ ~s.threw => Stacked(s) /\ s.canvas = <<Round(s.width), Round(s.height)>>
  /\ s.empty => s.ink = {}
  /\ s.spent => s.pathClosed

-----------------------------------------------------------------------------
(* Operators of the model *)

(* A canvas is never smaller than its layer. *)
LEMMA RoundsUp == ASSUME NEW n \in Nat PROVE Round(n) \in Nat /\ n <= Round(n)
<1> DEFINE q == (n + CANVAS_SIZE_FACTOR - 1) \div CANVAS_SIZE_FACTOR
           r == (n + CANVAS_SIZE_FACTOR - 1) % CANVAS_SIZE_FACTOR
<1>1. q \in Nat
  BY FactorAssumption
<1>2. /\ n + CANVAS_SIZE_FACTOR - 1 = CANVAS_SIZE_FACTOR * q + r
      /\ r \in 0 .. CANVAS_SIZE_FACTOR - 1
  BY FactorAssumption
<1> QED
  BY <1>1, <1>2, FactorAssumption DEF Round

LEMMA OperationsAre ==
  Operations = {"destination-in", "destination-out", "source-in", "source-atop",
                "source-out", "destination-atop", "xor", "destination-over",
                "copy", "source-over", "lighter"}
  BY DEF Operations, compositeOperation

(* Whatever the operation, nothing is painted that was in neither picture. *)
LEMMA BlendBounded ==
  ASSUME NEW op \in Operations, NEW d, NEW s
  PROVE  Blend(op, d, s) \subseteq d \cup s
  BY OperationsAre, Zenon DEF Blend

LEMMA AreaIsPixels ==
  \A x, y, w, h : Area(x, y, w, h) \subseteq Pixels
  BY Zenon DEF Area

LEMMA FreshIsContext == FreshContext \in Contexts
  BY OperationsAre DEF FreshContext, Contexts

-----------------------------------------------------------------------------
(* The context's methods *)

LEMMA SaveKeeps ==
  ASSUME NEW s \in Layers
  PROVE  /\ Save(s) \in Layers
         /\ Len(Save(s).saved) = Len(s.saved) + 1
         /\ Save(s).saved[1] = IF Len(s.saved) = 0 THEN s.cur ELSE s.saved[1]
         /\ Save(s).stackSize = s.stackSize /\ Save(s).threw = s.threw
         /\ Save(s).ink = s.ink /\ Save(s).canvas = s.canvas
         /\ Save(s).empty = s.empty /\ Save(s).spent = s.spent
         /\ Save(s).pathClosed = s.pathClosed
         /\ Save(s).width = s.width /\ Save(s).height = s.height
         /\ Save(s).cur = s.cur
<1>1. s.saved \in Seq(Contexts) /\ s.cur \in Contexts
  BY DEF Layers
<1>2. /\ Append(s.saved, s.cur) \in Seq(Contexts)
      /\ Len(Append(s.saved, s.cur)) = Len(s.saved) + 1
      /\ Append(s.saved, s.cur)[1] = IF Len(s.saved) = 0 THEN s.cur ELSE s.saved[1]
  BY <1>1
<1> DEFINE a == Append(s.saved, s.cur)
<1>3. Save(s) = [s EXCEPT !.saved = a]
  BY Zenon DEF Save
<1> HIDE DEF a
<1>4. /\ [s EXCEPT !.saved = a] \in Layers
      /\ [s EXCEPT !.saved = a].saved = a
  BY <1>2 DEF Layers, a
<1>5. \A r : r = [s EXCEPT !.saved = a] =>
        /\ r.stackSize = s.stackSize /\ r.threw = s.threw /\ r.ink = s.ink
        /\ r.canvas = s.canvas /\ r.empty = s.empty /\ r.spent = s.spent
        /\ r.pathClosed = s.pathClosed /\ r.width = s.width
        /\ r.height = s.height /\ r.cur = s.cur
  BY DEF Layers
<1> QED
  BY <1>2, <1>3, <1>4, <1>5 DEF a

LEMMA BeginPathKeeps ==
  ASSUME NEW s \in Layers
  PROVE  /\ BeginPath(s) \in Layers
         /\ BeginPath(s) = [s EXCEPT !.path = {}, !.spent = FALSE]
         /\ ~BeginPath(s).spent
  BY DEF BeginPath, Layers

LEMMA RestoreKeeps ==
  ASSUME NEW s \in Layers, s.saved # <<>>
  PROVE  /\ Restore(s) \in Layers
         /\ Len(Restore(s).saved) = Len(s.saved) - 1
         /\ \A i \in 1 .. Len(s.saved) - 1 : Restore(s).saved[i] = s.saved[i]
         /\ Restore(s).cur = s.saved[Len(s.saved)]
         /\ Restore(s) = [s EXCEPT !.cur = Restore(s).cur, !.saved = Restore(s).saved]
<1>1. s.saved \in Seq(Contexts) /\ Len(s.saved) \in Nat \ {0}
  BY EmptySeq, LenProperties DEF Layers
<1>2. \A i \in 1 .. Len(s.saved) : s.saved[i] \in Contexts
  BY <1>1, ElementOfSeq
<1>3. /\ Front(s.saved) \in Seq(Contexts)
      /\ Len(Front(s.saved)) = Len(s.saved) - 1
      /\ \A i \in 1 .. Len(s.saved) - 1 : Front(s.saved)[i] = s.saved[i]
  <2>1. /\ SubSeq(s.saved, 1, Len(s.saved) - 1) \in Seq(Contexts)
        /\ Len(SubSeq(s.saved, 1, Len(s.saved) - 1)) =
             IF 1 <= Len(s.saved) - 1 THEN Len(s.saved) - 1 - 1 + 1 ELSE 0
        /\ \A i \in 1 .. Len(s.saved) - 1 - 1 + 1 :
             SubSeq(s.saved, 1, Len(s.saved) - 1)[i] = s.saved[1 + i - 1]
    <3>1. \A i \in 1 .. Len(s.saved) - 1 : s.saved[i] \in Contexts
      BY <1>1, <1>2
    <3>2. 1 \in Int /\ Len(s.saved) - 1 \in Int
      BY <1>1
    <3> QED
      BY <3>1, <3>2, SubSeqProperties
  <2> QED
    BY <2>1, <1>1 DEF Front
<1>4. Last(s.saved) = s.saved[Len(s.saved)] /\ Last(s.saved) \in Contexts
  BY <1>1, <1>2 DEF Last
<1> DEFINE r == [s EXCEPT !.cur = Last(s.saved), !.saved = Front(s.saved)]
<1>5. Restore(s) = r
  BY Zenon DEF Restore
<1>6. r \in Layers /\ r.saved = Front(s.saved) /\ r.cur = Last(s.saved)
  BY <1>3, <1>4 DEF Layers
<1> HIDE DEF r
<1> QED
  BY <1>3, <1>4, <1>5, <1>6 DEF r

LEMMA SetCanvasSizeKeeps ==
  ASSUME NEW s \in Layers, NEW w \in Nat, NEW h \in Nat
  PROVE  SetCanvasSize(s, w, h) \in Layers
<1>1. <<w, h>> \in Nat \X Nat /\ <<>> \in Seq(Contexts)
  BY EmptySeq
<1> QED
  BY <1>1, FreshIsContext DEF SetCanvasSize, Layers

(* Drawing stays on the canvas, and changes nothing but the pixels. *)
LEMMA CompositeKeeps ==
  ASSUME NEW s \in Layers, NEW px,
         s.ink \subseteq Area(0, 0, s.canvas[1], s.canvas[2])
  PROVE  /\ Composite(s, px) \in Layers
         /\ Composite(s, px).ink \subseteq Area(0, 0, s.canvas[1], s.canvas[2])
         /\ Composite(s, px) = [s EXCEPT !.ink = Composite(s, px).ink]
<1> DEFINE src == OnCanvas(s, {p \in Pixels : <<p[1] - s.cur.shift, p[2]>> \in px})
           ink == (s.ink \ s.cur.clip) \cup (Blend(s.cur.op, s.ink, src) \cap s.cur.clip)
<1>1. s.cur.op \in Operations
  BY DEF Layers, Contexts
<1>2. Blend(s.cur.op, s.ink, src) \subseteq s.ink \cup src
  BY <1>1, BlendBounded, Zenon
<1>3. src \subseteq Area(0, 0, s.canvas[1], s.canvas[2])
  BY Zenon DEF OnCanvas
<1>4. ink \subseteq Area(0, 0, s.canvas[1], s.canvas[2])
  BY <1>2, <1>3, Zenon
<1>5. ink \subseteq Pixels
  BY <1>4, AreaIsPixels, Zenon
<1>6. Composite(s, px) = [s EXCEPT !.ink = ink]
  BY Zenon DEF Composite
<1> HIDE DEF ink
<1>7. [s EXCEPT !.ink = ink] \in Layers /\ [s EXCEPT !.ink = ink].ink = ink
  BY <1>5 DEF Layers
<1> QED
  BY <1>4, <1>6, <1>7, Zenon

-----------------------------------------------------------------------------
(* The layer's methods *)

(* What is kept of a canvas that stays: everything but stack, path and state. *)
LEMMA ResetSound ==
  ASSUME NEW s, Sound(s), ~s.threw
  PROVE  Sound(Reset(s)) /\ ~Reset(s).threw /\ Reset(s).stackSize = 0
         /\ Reset(s).ink = s.ink /\ Reset(s).canvas = s.canvas
<1>1. s \in Layers /\ Stacked(s)
  BY Zenon DEF Sound
<1>2. s.stackSize \in Nat /\ s.saved \in Seq(Contexts) /\ s.pathClosed \in BOOLEAN
  BY <1>1 DEF Layers
<1> DEFINE left == AtLeast(Len(s.saved) - s.stackSize, 0)
           pop  == [s EXCEPT !.cur = s.saved[left + 1], !.saved = SubSeq(@, 1, left)]
           back == IF s.stackSize > 0 /\ s.saved # <<>> THEN pop ELSE s
           top  == Restore(back)
           base == Save(top)
           bare == BeginPath(base)
<1>3. left = 1
  BY <1>1, <1>2 DEF Stacked, AtLeast
<1>4. s.saved # <<>> /\ s.saved[1] \in Contexts
  BY <1>1, <1>2 DEF Stacked
<1>5. /\ back \in Layers /\ Len(back.saved) = 1 /\ back.saved[1] = s.saved[1]
      /\ back.ink = s.ink /\ back.canvas = s.canvas /\ back.empty = s.empty
      /\ back.width = s.width /\ back.height = s.height /\ back.threw = s.threw
  <2>1. CASE s.stackSize > 0
    <3>1. s.saved[2] \in Contexts
      BY <1>1, <1>2, <2>1 DEF Stacked
    <3> DEFINE one == SubSeq(s.saved, 1, 1)
               u   == [s EXCEPT !.cur = s.saved[2], !.saved = one]
    <3>2. one \in Seq(Contexts) /\ Len(one) = 1 /\ one[1] = s.saved[1]
      <4>1. \A i \in 1..1 : s.saved[i] \in Contexts
        BY <1>4
      <4>2. 1 \in Int
        OBVIOUS
      <4>3. /\ one \in Seq(Contexts) /\ Len(one) = IF 1 <= 1 THEN 1 - 1 + 1 ELSE 0
            /\ \A i \in 1 .. 1 - 1 + 1 : one[i] = s.saved[1 + i - 1]
        BY <4>1, <4>2, SubSeqProperties
      <4> HIDE DEF one
      <4> QED
        BY <4>3
    <3>3. back = u
      <4>1. back = pop
        BY <1>4, <2>1, Zenon
      <4>2. left + 1 = 2
        BY <1>3
      <4> HIDE DEF left
      <4> QED
        BY <1>3, <4>1, <4>2, Zenon
    <3> HIDE DEF back, one
    <3>4. u \in Layers /\ u.saved = one
      BY <1>1, <3>1, <3>2 DEF Layers
    <3>5. /\ u.ink = s.ink /\ u.canvas = s.canvas /\ u.empty = s.empty
          /\ u.width = s.width /\ u.height = s.height /\ u.threw = s.threw
      BY <1>1 DEF Layers
    <3> HIDE DEF u
    <3> QED
      BY <3>2, <3>3, <3>4, <3>5, Zenon
  <2>2. CASE ~(s.stackSize > 0)
    <3>1. back = s /\ Len(s.saved) = 1
      BY <1>1, <1>2, <2>2 DEF Stacked
    <3> QED
      BY <3>1, <1>1, Zenon
  <2> QED
    BY <2>1, <2>2, Zenon
<1> HIDE DEF back
<1>6. back.saved # <<>>
  BY <1>5 DEF Layers
<1>7. /\ top \in Layers /\ Len(top.saved) = 0 /\ top.cur = s.saved[1]
      /\ top.ink = s.ink /\ top.canvas = s.canvas /\ top.empty = s.empty
      /\ top.width = s.width /\ top.height = s.height /\ top.threw = s.threw
  <2>1. /\ top \in Layers /\ Len(top.saved) = 0 /\ top.cur = s.saved[1]
        /\ top = [back EXCEPT !.cur = top.cur, !.saved = top.saved]
    <3>1. /\ top \in Layers /\ Len(top.saved) = Len(back.saved) - 1
          /\ top.cur = back.saved[Len(back.saved)]
          /\ top = [back EXCEPT !.cur = top.cur, !.saved = top.saved]
      BY <1>5, <1>6, RestoreKeeps, Zenon
    <3> HIDE DEF top
    <3> QED
      BY <1>5, <3>1
  <2> HIDE DEF top
  <2>2. PICK c, v : top = [back EXCEPT !.cur = c, !.saved = v]
    BY <2>1, Zenon
  <2>3. /\ top.ink = back.ink /\ top.canvas = back.canvas /\ top.empty = back.empty
        /\ top.width = back.width /\ top.height = back.height
        /\ top.threw = back.threw
    BY <1>5, <2>2 DEF Layers
  <2> QED
    BY <1>5, <2>1, <2>3, Zenon
<1> HIDE DEF top
<1>8. /\ base \in Layers /\ Len(base.saved) = 1 /\ base.saved[1] = s.saved[1]
      /\ base.ink = s.ink /\ base.canvas = s.canvas /\ base.empty = s.empty
      /\ base.width = s.width /\ base.height = s.height /\ base.threw = s.threw
  <2>1. /\ base \in Layers /\ Len(base.saved) = Len(top.saved) + 1
        /\ base.saved[1] = IF Len(top.saved) = 0 THEN top.cur ELSE top.saved[1]
        /\ base.ink = top.ink /\ base.canvas = top.canvas /\ base.empty = top.empty
        /\ base.width = top.width /\ base.height = top.height
        /\ base.threw = top.threw
    BY <1>7, SaveKeeps, Zenon
  <2> HIDE DEF base
  <2>2. Len(base.saved) = 1
    BY <1>7, <2>1
  <2> QED
    BY <1>7, <2>1, <2>2, Zenon
<1> HIDE DEF base
<1> DEFINE r == [bare EXCEPT !.stackSize = 0, !.pathClosed = FALSE]
<1>9. Reset(s) = r
  BY Zenon DEF Reset, r, bare, base, top, back
<1>10. /\ r \in Layers /\ r.saved = base.saved /\ r.stackSize = 0 /\ r.spent = FALSE
       /\ r.ink = s.ink /\ r.canvas = s.canvas /\ r.empty = s.empty
       /\ r.width = s.width /\ r.height = s.height /\ r.threw = s.threw
  BY <1>8 DEF BeginPath, Layers
<1> HIDE DEF r
<1>11. Stacked(r)
  BY <1>1, <1>8, <1>10 DEF Stacked
<1>12. Sound(r)
  BY <1>10, <1>11, Zenon DEF Sound
<1> QED
  BY <1>9, <1>10, <1>12, Zenon

LEMMA Smaller ==
  ASSUME NEW a \in Nat, NEW b \in Nat
  PROVE  AtMost(a, b) \in Nat /\ AtMost(a, b) <= a /\ AtMost(a, b) <= b
  BY DEF AtMost

(* A smaller rectangle at the origin lies inside a larger one. *)
LEMMA AreaGrows ==
  ASSUME NEW w \in Nat, NEW h \in Nat, NEW W \in Nat, NEW H \in Nat, w <= W, h <= H
  PROVE  Area(0, 0, w, h) \subseteq Area(0, 0, W, H)
  BY BoundsAssumption DEF Area, Pixels

(* On a new canvas the old pixels are drawn where they were. *)
LEMMA RedrawnInPlace ==
  ASSUME NEW s \in Layers, NEW w \in Nat, NEW h \in Nat, NEW px \in SUBSET Pixels,
         px \subseteq Area(0, 0, w, h)
  PROVE  Composite(SetCanvasSize(s, Round(w), Round(h)), px).ink = px
<1> DEFINE b == SetCanvasSize(s, Round(w), Round(h))
           src == OnCanvas(b, {p \in Pixels : <<p[1] - b.cur.shift, p[2]>> \in px})
<1>1. Round(w) \in Nat /\ Round(h) \in Nat /\ w <= Round(w) /\ h <= Round(h)
  BY RoundsUp
<1>2. /\ b \in Layers /\ b.ink = {} /\ b.canvas = <<Round(w), Round(h)>>
      /\ b.cur = FreshContext
  <2>1. b \in Layers
    BY <1>1, SetCanvasSizeKeeps, Zenon
  <2>2. b.ink = {} /\ b.canvas = <<Round(w), Round(h)>> /\ b.cur = FreshContext
    BY DEF SetCanvasSize, Layers
  <2> QED
    BY <2>1, <2>2, Zenon
<1> HIDE DEF b
<1>3. b.cur.shift = 0 /\ b.cur.clip = Pixels /\ b.cur.op = "source-over"
  BY <1>2 DEF FreshContext
<1>4. \A p \in Pixels : <<p[1] - b.cur.shift, p[2]>> = p
  BY <1>3, BoundsAssumption DEF Pixels
<1>5. {p \in Pixels : <<p[1] - b.cur.shift, p[2]>> \in px} = px
  BY <1>4, Zenon
<1>6. px \subseteq Area(0, 0, b.canvas[1], b.canvas[2])
  <2>1. b.canvas[1] = Round(w) /\ b.canvas[2] = Round(h)
    BY <1>2
  <2>2. Area(0, 0, w, h) \subseteq Area(0, 0, Round(w), Round(h))
    BY <1>1, AreaGrows, Zenon
  <2> QED
    BY <2>1, <2>2, Zenon
<1>7. src = px
  BY <1>5, <1>6 DEF OnCanvas
<1>8. Blend("source-over", {}, px) = px
  BY Zenon DEF Blend
<1>9. Composite(b, px) =
        [b EXCEPT !.ink = (@ \ b.cur.clip) \cup (Blend(b.cur.op, @, src) \cap b.cur.clip)]
  BY Zenon DEF Composite
<1> HIDE DEF src
<1>10. Composite(b, px).ink =
         (b.ink \ b.cur.clip) \cup (Blend(b.cur.op, b.ink, src) \cap b.cur.clip)
  BY <1>2, <1>9 DEF Layers
<1>11. Composite(b, px).ink = px
  BY <1>2, <1>3, <1>7, <1>8, <1>10, Zenon
<1> QED
  BY <1>11, Zenon DEF b

(* The part of the picture that a change of size keeps. *)
Kept(s, w, h) == s.ink \cap Area(0, 0, AtMost(s.width, w), AtMost(s.height, h))

LEMMA RedrawKeeps ==
  ASSUME NEW s, Sound(s), NEW w \in Nat, NEW h \in Nat
  PROVE  LET r == Redraw(s, w, h)
         IN  /\ r \in Layers /\ r.ink = Kept(s, w, h)
             /\ r.ink \subseteq Area(0, 0, r.canvas[1], r.canvas[2])
             /\ r.canvas = <<Round(w), Round(h)>>
             /\ r.saved = <<>> /\ r.cur.shift = 0 /\ r.cur.clip = Pixels
             /\ ~r.spent /\ r.empty = s.empty /\ r.threw = s.threw
<1>1. s \in Layers /\ (s.empty => s.ink = {})
  BY Zenon DEF Sound
<1>2. /\ s.width \in Nat /\ s.height \in Nat /\ s.ink \subseteq Pixels
      /\ s.cur.op \in Operations /\ s.empty \in BOOLEAN
  BY <1>1 DEF Layers, Contexts
<1> DEFINE old   == s.ink \cap Area(0, 0, AtMost(s.width, w), AtMost(s.height, h))
           blank == SetCanvasSize(s, Round(w), Round(h))
           drawn == IF s.empty THEN blank ELSE Composite(blank, old)
           r     == [drawn EXCEPT !.cur.op = s.cur.op]
<1>3. Round(w) \in Nat /\ Round(h) \in Nat /\ w <= Round(w) /\ h <= Round(h)
  BY RoundsUp
<1>4. /\ blank \in Layers /\ blank.ink = {} /\ ~blank.spent
      /\ blank.canvas = <<Round(w), Round(h)>> /\ blank.cur = FreshContext
      /\ blank.saved = <<>> /\ blank.empty = s.empty /\ blank.threw = s.threw
  <2>1. s \in Layers /\ Round(w) \in Nat /\ Round(h) \in Nat
    BY <1>1, <1>3
  <2>2. blank \in Layers
    BY <2>1, SetCanvasSizeKeeps, Zenon
  <2>3. /\ blank.ink = {} /\ blank.canvas = <<Round(w), Round(h)>>
        /\ blank.cur = FreshContext /\ blank.saved = <<>>
    BY <2>1 DEF SetCanvasSize, Layers
  <2>4. ~blank.spent /\ blank.empty = s.empty /\ blank.threw = s.threw
    BY <2>1 DEF SetCanvasSize, Layers
  <2> HIDE DEF blank
  <2> QED
    BY <2>2, <2>3, <2>4, Zenon
<1>5. old \subseteq Pixels /\ old \subseteq Area(0, 0, w, h)
  <2>1. /\ AtMost(s.width, w) \in Nat /\ AtMost(s.width, w) <= w
        /\ AtMost(s.height, h) \in Nat /\ AtMost(s.height, h) <= h
    BY <1>2, Smaller
  <2>2. Area(0, 0, AtMost(s.width, w), AtMost(s.height, h)) \subseteq Area(0, 0, w, h)
    BY <2>1, AreaGrows
  <2> QED
    BY <1>2, <2>2, Zenon
<1>6. Area(0, 0, w, h) \subseteq Area(0, 0, Round(w), Round(h))
  BY <1>3, AreaGrows, Zenon
<1>7. /\ drawn \in Layers /\ drawn.ink = old
      /\ drawn.canvas = <<Round(w), Round(h)>> /\ drawn.cur = FreshContext
      /\ drawn.saved = <<>> /\ ~drawn.spent /\ drawn.empty = s.empty
      /\ drawn.threw = s.threw
  <2>1. CASE s.empty
    <3>1. drawn = blank /\ old = {}
      BY <1>1, <2>1, Zenon
    <3> QED
      BY <1>4, <3>1, Zenon
  <2>2. CASE ~s.empty
    <3>1. drawn = Composite(blank, old)
      BY <2>2, Zenon
    <3>2. Composite(blank, old).ink = old
      BY <1>1, <1>5, RedrawnInPlace, Zenon
    <3> HIDE DEF blank
    <3>3. blank.ink \subseteq Area(0, 0, blank.canvas[1], blank.canvas[2])
      BY <1>4, Zenon
    <3>4. drawn \in Layers /\ drawn = [blank EXCEPT !.ink = drawn.ink]
      BY <1>4, <3>1, <3>3, CompositeKeeps, Zenon
    <3> HIDE DEF drawn
    <3>5. drawn = [blank EXCEPT !.ink = old]
      BY <3>1, <3>2, <3>4, Zenon
    <3> HIDE DEF old
    <3>6. /\ drawn.canvas = blank.canvas /\ drawn.cur = blank.cur
          /\ drawn.saved = blank.saved /\ drawn.spent = blank.spent
          /\ drawn.empty = blank.empty /\ drawn.threw = blank.threw
      BY <1>4, <3>5 DEF Layers
    <3> QED
      BY <1>4, <3>1, <3>2, <3>4, <3>6, Zenon
  <2> QED
    BY <2>1, <2>2, Zenon
<1>8. Redraw(s, w, h) = r
  BY Zenon DEF Redraw
<1> HIDE DEF drawn, old
<1>9. drawn.cur = [op |-> "source-over", shift |-> 0, clip |-> Pixels]
  BY <1>7, Zenon DEF FreshContext
<1> DEFINE c == [op |-> s.cur.op, shift |-> 0, clip |-> Pixels]
<1>10. r = [drawn EXCEPT !.cur = c]
  <2>1. [drawn.cur EXCEPT !.op = s.cur.op] = c
    BY <1>9
  <2>2. r = [drawn EXCEPT !.cur = [drawn.cur EXCEPT !.op = s.cur.op]]
    OBVIOUS
  <2> QED
    BY <2>1, <2>2, Zenon
<1>11. c \in Contexts /\ c.shift = 0 /\ c.clip = Pixels
  BY <1>2 DEF Contexts
<1> HIDE DEF c, r
<1>12. /\ r \in Layers /\ r.cur = c
       /\ r.ink = drawn.ink /\ r.canvas = drawn.canvas /\ r.saved = drawn.saved
       /\ r.spent = drawn.spent /\ r.empty = drawn.empty /\ r.threw = drawn.threw
  BY <1>7, <1>10, <1>11 DEF Layers
<1>13. r.ink \subseteq Area(0, 0, r.canvas[1], r.canvas[2])
  <2>1. r.canvas[1] = Round(w) /\ r.canvas[2] = Round(h)
    BY <1>7, <1>12
  <2> QED
    BY <1>5, <1>6, <1>7, <1>12, <2>1, Zenon
<1>14. old = Kept(s, w, h)
  BY Zenon DEF Kept, old
<1> QED
  BY <1>7, <1>8, <1>11, <1>12, <1>13, <1>14, Zenon

(* A change of the canvas's size: the picture is kept, and the stack holds    *)
(* the hidden element alone.                                                 *)
LEMMA ResizeCanvasSound ==
  ASSUME NEW s, Sound(s), ~s.threw, NEW w \in Nat, NEW h \in Nat
  PROVE  LET r == ResizeCanvas(s, w, h)
         IN  /\ Sound(r)
             /\ \/ r.threw
                \/ r.width = w /\ r.height = h /\ r.ink = Kept(s, w, h)
<1> DEFINE cut == /\ ~s.empty /\ s.canvas[1] # 0 /\ s.canvas[2] # 0
                  /\ AtMost(s.width, w) = 0 \/ AtMost(s.height, h) = 0
<1>1. s \in Layers /\ (s.spent => s.pathClosed) /\ (s.empty => s.ink = {})
  BY Zenon DEF Sound
<1>2. Round(w) \in Nat /\ Round(h) \in Nat
  BY RoundsUp
<1>3. CASE cut
  <2> DEFINE b == SetCanvasSize(s, Round(w), Round(h))
             r == [b EXCEPT !.threw = TRUE]
  <2>1. ResizeCanvas(s, w, h) = r
    BY <1>3, Zenon DEF ResizeCanvas
  <2>2. b \in Layers
    BY <1>1, <1>2, SetCanvasSizeKeeps, Zenon
  <2>3. b.ink = {} /\ ~b.spent
    BY <1>1 DEF SetCanvasSize, Layers
  <2> HIDE DEF b
  <2>4. r \in Layers /\ r.threw /\ r.ink = b.ink /\ r.spent = b.spent
    BY <2>2 DEF Layers
  <2> HIDE DEF r
  <2>5. Sound(r)
    BY <2>3, <2>4, Zenon DEF Sound
  <2> QED
    BY <2>1, <2>4, <2>5, Zenon
<1>4. CASE ~cut
  <2> DEFINE d == Redraw(s, w, h)
             v == Save(d)
             r == [v EXCEPT !.stackSize = 0, !.width = w, !.height = h]
  <2>1. ResizeCanvas(s, w, h) = r
    BY <1>4, Zenon DEF ResizeCanvas
  <2>2. /\ d \in Layers /\ d.ink = Kept(s, w, h)
        /\ d.ink \subseteq Area(0, 0, d.canvas[1], d.canvas[2])
        /\ d.canvas = <<Round(w), Round(h)>>
        /\ d.saved = <<>> /\ d.cur.shift = 0 /\ d.cur.clip = Pixels
        /\ ~d.spent /\ d.empty = s.empty
    BY RedrawKeeps
  <2> HIDE DEF d
  <2>3. Len(d.saved) = 0
    BY <2>2
  <2>4. /\ v \in Layers /\ Len(v.saved) = 1 /\ v.saved[1] = d.cur
        /\ v.ink = d.ink /\ v.canvas = d.canvas /\ v.empty = d.empty
        /\ v.spent = d.spent
    <3>1. /\ v \in Layers /\ Len(v.saved) = Len(d.saved) + 1
          /\ v.saved[1] = IF Len(d.saved) = 0 THEN d.cur ELSE d.saved[1]
          /\ v.ink = d.ink /\ v.canvas = d.canvas /\ v.empty = d.empty
          /\ v.spent = d.spent
      BY <2>2, SaveKeeps, Zenon
    <3> HIDE DEF v
    <3>2. Len(v.saved) = 1
      BY <2>3, <3>1
    <3> QED
      BY <2>3, <3>1, <3>2, Zenon
  <2> HIDE DEF v
  <2>5. /\ r \in Layers /\ r.saved = v.saved /\ r.stackSize = 0 /\ r.ink = v.ink
        /\ r.canvas = v.canvas /\ r.empty = v.empty /\ r.spent = v.spent
        /\ r.width = w /\ r.height = h
    BY <2>4 DEF Layers
  <2> HIDE DEF r
  <2>6. Stacked(r)
    BY <2>2, <2>4, <2>5 DEF Stacked
  <2>7. r.empty => r.ink = {}
    BY <1>1, <2>2, <2>4, <2>5, Zenon DEF Kept
  <2>8. r.ink \subseteq Area(0, 0, r.canvas[1], r.canvas[2])
    BY <2>2, <2>4, <2>5, Zenon
  <2>9. r.canvas = <<Round(r.width), Round(r.height)>> /\ ~r.spent
    BY <2>2, <2>4, <2>5, Zenon
  <2>10. Sound(r)
    BY <2>5, <2>6, <2>7, <2>8, <2>9, Zenon DEF Sound
  <2> QED
    BY <2>1, <2>2, <2>4, <2>5, <2>10, Zenon
<1> QED
  BY <1>3, <1>4, Zenon

LEMMA ResizeSound ==
  ASSUME NEW s, Sound(s), ~s.threw, NEW w \in Nat, NEW h \in Nat
  PROVE  LET r == Resize(s, w, h)
         IN  /\ Sound(r)
             /\ \/ r.threw
                \/ /\ r.width = w /\ r.height = h
                   /\ r.ink = s.ink \/ r.ink = Kept(s, w, h)
<1>1. CASE w = s.width /\ h = s.height
  <2>1. s.canvas = <<Round(w), Round(h)>>
    BY <1>1, Zenon DEF Sound
  <2>2. Resize(s, w, h) = s
    BY <1>1, <2>1, Zenon DEF Resize
  <2> QED
    BY <1>1, <2>2, Zenon
<1>2. CASE ~(w = s.width /\ h = s.height) /\ s.canvas # <<Round(w), Round(h)>>
  <2> DEFINE r == ResizeCanvas(s, w, h)
  <2>1. Resize(s, w, h) = r
    BY <1>2, Zenon DEF Resize
  <2>2. /\ Sound(r)
        /\ r.threw \/ (r.width = w /\ r.height = h /\ r.ink = Kept(s, w, h))
    BY ResizeCanvasSound, Zenon
  <2> HIDE DEF r
  <2> QED
    BY <2>1, <2>2, Zenon
<1>3. CASE ~(w = s.width /\ h = s.height) /\ s.canvas = <<Round(w), Round(h)>>
  <2> DEFINE b == Reset(s)
             r == [b EXCEPT !.width = w, !.height = h]
  <2>1. Resize(s, w, h) = r
    BY <1>3, Zenon DEF Resize
  <2>2. /\ Sound(b) /\ ~b.threw /\ b.ink = s.ink /\ b.canvas = s.canvas
    BY ResetSound, Zenon
  <2> HIDE DEF b
  <2>3. /\ b \in Layers /\ Stacked(b) /\ (b.spent => b.pathClosed)
        /\ (b.empty => b.ink = {})
        /\ b.ink \subseteq Area(0, 0, b.canvas[1], b.canvas[2])
    BY <2>2, Zenon DEF Sound
  <2>4. /\ r \in Layers /\ r.saved = b.saved /\ r.stackSize = b.stackSize
        /\ r.ink = b.ink /\ r.canvas = b.canvas /\ r.width = w /\ r.height = h
        /\ r.empty = b.empty /\ r.spent = b.spent /\ r.pathClosed = b.pathClosed
    BY <2>3 DEF Layers
  <2> HIDE DEF r
  <2>5. Stacked(r)
    BY <2>3, <2>4, Zenon DEF Stacked
  <2>6. r.canvas = <<Round(r.width), Round(r.height)>>
    BY <1>3, <2>2, <2>4, Zenon
  <2>7. Sound(r)
    BY <2>3, <2>4, <2>5, <2>6, Zenon DEF Sound
  <2> QED
    BY <2>1, <2>2, <2>4, <2>7, Zenon
<1> QED
  BY <1>1, <1>2, <1>3, Zenon

LEMMA FitRectSound ==
  ASSUME NEW s, Sound(s), ~s.threw,
         NEW x \in Nat, NEW y \in Nat, NEW w \in Nat, NEW h \in Nat
  PROVE  Sound(FitRect(s, x, y, w, h))
<1>1. s.width \in Nat /\ s.height \in Nat
  BY DEF Sound, Layers
<1>2. AtLeast(x + w, s.width) \in Nat /\ AtLeast(y + h, s.height) \in Nat
  BY <1>1 DEF AtLeast
<1>3. Sound(Resize(s, AtLeast(x + w, s.width), AtLeast(y + h, s.height)))
  BY <1>2, ResizeSound, Zenon
<1> QED
  BY <1>3, Zenon DEF FitRect

(* Painting: the pixels change within the canvas, and the layer is no longer  *)
(* empty.                                                                    *)
LEMMA PaintedSound ==
  ASSUME NEW s, Sound(s), NEW px \in SUBSET Pixels,
         px \subseteq Area(0, 0, s.canvas[1], s.canvas[2])
  PROVE  Sound(Inked([s EXCEPT !.ink = px]))
<1> DEFINE u == [s EXCEPT !.ink = px]
           r == [u EXCEPT !.empty = FALSE]
<1>1. /\ s \in Layers /\ (s.spent => s.pathClosed)
      /\ ~s.threw => Stacked(s) /\ s.canvas = <<Round(s.width), Round(s.height)>>
  BY Zenon DEF Sound
<1>2. /\ r \in Layers /\ ~r.empty /\ r.ink = px /\ r.canvas = s.canvas
      /\ r.saved = s.saved /\ r.stackSize = s.stackSize /\ r.threw = s.threw
      /\ r.width = s.width /\ r.height = s.height
      /\ r.spent = s.spent /\ r.pathClosed = s.pathClosed
  BY <1>1 DEF Layers
<1> HIDE DEF r
<1>3. ~r.threw => Stacked(r)
  BY <1>1, <1>2, Zenon DEF Stacked
<1>4. Sound(r)
  BY <1>1, <1>2, <1>3, Zenon DEF Sound
<1> QED
  BY <1>4, Zenon DEF Inked, r

(* Keeping path and flags in step changes nothing else. *)
LEMMA PathSound ==
  ASSUME NEW s, Sound(s), NEW px \in SUBSET Pixels, NEW sp \in BOOLEAN,
         NEW pc \in BOOLEAN, sp => pc
  PROVE  Sound([s EXCEPT !.path = px, !.spent = sp, !.pathClosed = pc])
<1> DEFINE r == [s EXCEPT !.path = px, !.spent = sp, !.pathClosed = pc]
<1>1. /\ s \in Layers /\ (s.empty => s.ink = {})
      /\ s.ink \subseteq Area(0, 0, s.canvas[1], s.canvas[2])
      /\ ~s.threw => Stacked(s) /\ s.canvas = <<Round(s.width), Round(s.height)>>
  BY Zenon DEF Sound
<1>2. /\ r \in Layers /\ r.empty = s.empty /\ r.ink = s.ink /\ r.canvas = s.canvas
      /\ r.saved = s.saved /\ r.stackSize = s.stackSize /\ r.threw = s.threw
      /\ r.width = s.width /\ r.height = s.height
  BY <1>1 DEF Layers
<1>3. r.spent = sp /\ r.pathClosed = pc
  BY <1>1 DEF Layers
<1> HIDE DEF r
<1>4. ~r.threw => Stacked(r)
  BY <1>1, <1>2, Zenon DEF Stacked
<1>5. Sound(r)
  BY <1>1, <1>2, <1>3, <1>4, Zenon DEF Sound
<1> QED
  BY <1>5, Zenon DEF r

(* Changing the context's state leaves the stack alone. *)
LEMMA ContextSound ==
  ASSUME NEW s, Sound(s), NEW c \in Contexts
  PROVE  Sound([s EXCEPT !.cur = c])
<1> DEFINE r == [s EXCEPT !.cur = c]
<1>1. /\ s \in Layers /\ (s.empty => s.ink = {}) /\ (s.spent => s.pathClosed)
      /\ s.ink \subseteq Area(0, 0, s.canvas[1], s.canvas[2])
      /\ ~s.threw => Stacked(s) /\ s.canvas = <<Round(s.width), Round(s.height)>>
  BY Zenon DEF Sound
<1>2. /\ r \in Layers /\ r.empty = s.empty /\ r.ink = s.ink /\ r.canvas = s.canvas
      /\ r.saved = s.saved /\ r.stackSize = s.stackSize /\ r.threw = s.threw
      /\ r.width = s.width /\ r.height = s.height
      /\ r.spent = s.spent /\ r.pathClosed = s.pathClosed
  BY <1>1 DEF Layers
<1> HIDE DEF r
<1>3. ~r.threw => Stacked(r)
  BY <1>1, <1>2, Zenon DEF Stacked
<1>4. Sound(r)
  BY <1>1, <1>2, <1>3, Zenon DEF Sound
<1> QED
  BY <1>4, Zenon DEF r

LEMMA DrawImageSound ==
  ASSUME NEW s, Sound(s), ~s.threw,
         NEW x \in Nat, NEW y \in Nat, NEW w \in Nat, NEW h \in Nat
  PROVE  Sound(DrawImage(s, x, y, w, h))
<1> DEFINE fit == FitRect(s, x, y, w, h)
           c   == Composite(fit, Area(x, y, w, h))
<1>1. Sound(fit)
  BY FitRectSound, Zenon
<1> HIDE DEF fit
<1>2. fit \in Layers /\ fit.ink \subseteq Area(0, 0, fit.canvas[1], fit.canvas[2])
  BY <1>1, Zenon DEF Sound
<1>3. /\ c.ink \subseteq Area(0, 0, fit.canvas[1], fit.canvas[2])
      /\ c = [fit EXCEPT !.ink = c.ink]
  BY <1>2, CompositeKeeps, Zenon
<1> HIDE DEF c
<1>4. c.ink \in SUBSET Pixels
  BY <1>3, AreaIsPixels, Zenon
<1>5. Sound(Inked([fit EXCEPT !.ink = c.ink]))
  BY <1>1, <1>3, <1>4, PaintedSound, Zenon
<1>6. Sound(Inked(c))
  BY <1>3, <1>5, Zenon
<1> QED
  BY <1>1, <1>6, Zenon DEF DrawImage, fit, c

LEMMA OverwriteSound ==
  ASSUME NEW s, Sound(s), ~s.threw, NEW px, NEW f,
         NEW x \in Nat, NEW y \in Nat, NEW w \in Nat, NEW h \in Nat
  PROVE  Sound(Overwrite(s, x, y, w, h, px, f))
<1> DEFINE fit  == FitRect(s, x, y, w, h)
           rect == OnCanvas(fit, Area(x, y, w, h))
           ink  == (fit.ink \ rect)
                   \cup (DefaultTransferFunction(f, px, fit.ink) \cap rect)
<1>1. Sound(fit)
  BY FitRectSound, Zenon
<1> HIDE DEF fit
<1>2. rect \subseteq Area(0, 0, fit.canvas[1], fit.canvas[2])
  BY Zenon DEF OnCanvas
<1>3. ink \subseteq Area(0, 0, fit.canvas[1], fit.canvas[2])
  BY <1>1, <1>2, Zenon DEF Sound
<1>4. ink \in SUBSET Pixels
  BY <1>3, AreaIsPixels, Zenon
<1> HIDE DEF ink
<1>5. Sound(Inked([fit EXCEPT !.ink = ink]))
  BY <1>1, <1>3, <1>4, PaintedSound, Zenon
<1> QED
  BY <1>1, <1>5, Zenon DEF Overwrite, fit, ink

(* moveTo, lineTo, arc, curveTo and rect, on a path opened anew if need be. *)
LEMMA ExtendSound ==
  ASSUME NEW s, Sound(s), ~s.threw,
         NEW x \in Nat, NEW y \in Nat, NEW w \in Nat, NEW h \in Nat
  PROVE  /\ Sound(PathTo(s, x, y))
         /\ Sound(RectTo(s, x, y, w, h))
<1> DEFINE open == IF s.pathClosed
                   THEN [BeginPath(s) EXCEPT !.pathClosed = FALSE]
                   ELSE s
<1>1. s \in Layers /\ s.pathClosed \in BOOLEAN /\ s.spent \in BOOLEAN
  BY DEF Sound, Layers
<1>2. Sound(open) /\ ~open.threw /\ ~open.spent
  <2>1. CASE s.pathClosed
    <3> DEFINE u == [s EXCEPT !.path = {}, !.spent = FALSE, !.pathClosed = FALSE]
    <3>1. open = u
      BY <2>1, Zenon DEF BeginPath
    <3>2. Sound(u)
      BY PathSound, Zenon
    <3>3. ~u.threw /\ ~u.spent
      BY <1>1 DEF Layers
    <3> HIDE DEF u, open
    <3> QED
      BY <3>1, <3>2, <3>3, Zenon
  <2>2. CASE ~s.pathClosed
    <3>1. open = s /\ ~s.spent
      BY <2>2, Zenon DEF Sound
    <3> QED
      BY <3>1, Zenon
  <2> QED
    BY <2>1, <2>2, Zenon
<1> HIDE DEF open
<1>3. ASSUME NEW k \in Nat, NEW m \in Nat, NEW i, NEW j
      PROVE  LET fit == FitRect(open, x, y, k, m)
             IN  Sound(IF fit.threw THEN fit
                       ELSE [fit EXCEPT !.path =
                               @ \cup Area(x + fit.cur.shift, y, i, j)])
  <2> DEFINE fit == FitRect(open, x, y, k, m)
             px  == fit.path \cup Area(x + fit.cur.shift, y, i, j)
             r   == [fit EXCEPT !.path = px]
  <2>1. Sound(fit)
    BY <1>2, FitRectSound, Zenon
  <2> HIDE DEF fit
  <2>2. fit \in Layers /\ (fit.spent => fit.pathClosed)
    BY <2>1, Zenon DEF Sound
  <2>3. /\ fit.path \subseteq Pixels
        /\ fit.spent \in BOOLEAN /\ fit.pathClosed \in BOOLEAN
    BY <2>2 DEF Layers
  <2>4. px \in SUBSET Pixels
    BY <2>3, AreaIsPixels, Zenon
  <2> HIDE DEF px
  <2>5. r = [fit EXCEPT !.path = px, !.spent = fit.spent, !.pathClosed = fit.pathClosed]
    BY <2>2 DEF Layers
  <2>6. Sound(r)
    BY <2>1, <2>2, <2>3, <2>4, <2>5, PathSound, ZenonT(30)
  <2> QED
    BY <2>1, <2>6, Zenon DEF fit, px
<1>4. Sound(PathTo(s, x, y))
  BY <1>3, Zenon DEF PathTo, open
<1>5. Sound(RectTo(s, x, y, w, h))
  BY <1>3, Zenon DEF RectTo, open
<1> QED
  BY <1>4, <1>5, Zenon

(* close, clip and the four painting methods spend the path and say so. *)
LEMMA SpendSound ==
  ASSUME NEW s, Sound(s)
  PROVE  Sound(ClosePath(s)) /\ Sound(ClipPath(s)) /\ Sound(PaintPath(s))
<1>1. s \in Layers
  BY Zenon DEF Sound
<1>2. /\ s.path \in SUBSET Pixels /\ s.cur \in Contexts
      /\ s.ink \subseteq Area(0, 0, s.canvas[1], s.canvas[2])
  BY <1>1 DEF Layers, Sound
<1> DEFINE u == [s EXCEPT !.path = s.path, !.spent = TRUE, !.pathClosed = TRUE]
<1>3. Sound(u)
  BY <1>2, PathSound, Zenon
<1>4. ClosePath(s) = u
  BY <1>1 DEF ClosePath, Layers
<1>5. Sound(ClipPath(s))
  <2> DEFINE c == [s.cur EXCEPT !.clip = @ \cap s.path]
  <2>1. c \in Contexts
    BY <1>2 DEF Contexts
  <2>2. ClipPath(s) = [u EXCEPT !.cur = c]
    BY <1>1, <1>2 DEF ClipPath, Layers
  <2> HIDE DEF u, c
  <2> QED
    BY <1>3, <2>1, <2>2, ContextSound, Zenon
<1>6. Sound(PaintPath(s))
  <2> DEFINE a    == [s EXCEPT !.cur.shift = 0]
             bare == Composite(a, s.path)
  <2>1. a \in Layers /\ a.ink = s.ink /\ a.canvas = s.canvas
    BY <1>1, <1>2 DEF Layers, Contexts
  <2> HIDE DEF a
  <2>2. bare.ink \subseteq Area(0, 0, s.canvas[1], s.canvas[2])
    BY <1>2, <2>1, CompositeKeeps, Zenon
  <2> HIDE DEF bare
  <2>3. bare.ink \in SUBSET Pixels
    BY <2>2, AreaIsPixels, Zenon
  <2>4. u.canvas = s.canvas
    BY <1>1 DEF Layers
  <2>5. PaintPath(s) = Inked([u EXCEPT !.ink = bare.ink])
    BY <1>1 DEF PaintPath, Inked, Layers, a, bare
  <2> HIDE DEF u
  <2> QED
    BY <1>3, <2>2, <2>3, <2>4, <2>5, PaintedSound, Zenon
<1> QED
  BY <1>3, <1>4, <1>5, <1>6, Zenon

(* push and pop, which stackSize counts. *)
LEMMA StackSound ==
  ASSUME NEW s, Sound(s), ~s.threw
  PROVE  Sound(PushState(s)) /\ Sound(PopState(s))
<1>1. /\ s \in Layers /\ Stacked(s) /\ (s.empty => s.ink = {})
      /\ s.canvas = <<Round(s.width), Round(s.height)>>
      /\ (s.spent => s.pathClosed)
      /\ s.ink \subseteq Area(0, 0, s.canvas[1], s.canvas[2])
  BY Zenon DEF Sound
<1>2. /\ s.stackSize \in Nat /\ s.saved \in Seq(Contexts)
      /\ Len(s.saved) = s.stackSize + 1
  BY <1>1 DEF Layers, Stacked
<1>3. ASSUME NEW c \in Contexts, NEW q \in Seq(Contexts), NEW n \in Nat,
             Len(q) = n + 1, q[1] = s.saved[1]
      PROVE  Sound([s EXCEPT !.cur = c, !.saved = q, !.stackSize = n])
  <2> DEFINE r == [s EXCEPT !.cur = c, !.saved = q, !.stackSize = n]
  <2>1. /\ r \in Layers /\ r.saved = q /\ r.stackSize = n
        /\ r.canvas = s.canvas /\ r.ink = s.ink /\ r.empty = s.empty
        /\ r.spent = s.spent /\ r.pathClosed = s.pathClosed
        /\ r.width = s.width /\ r.height = s.height
    BY <1>1, <1>3 DEF Layers
  <2> HIDE DEF r
  <2>2. Stacked(r)
    BY <1>1, <1>3, <2>1, Zenon DEF Stacked
  <2>3. Sound(r)
    BY <1>1, <2>1, <2>2, Zenon DEF Sound
  <2> QED
    BY <2>3, Zenon DEF r
<1>4. Sound(PushState(s))
  <2> DEFINE c == s.cur
             q == Append(s.saved, c)
             n == s.stackSize + 1
  <2>1. c \in Contexts
    BY <1>1 DEF Layers
  <2>2. /\ q \in Seq(Contexts) /\ Len(q) = Len(s.saved) + 1
        /\ q[1] = s.saved[1]
    BY <1>2, <2>1, AppendProperties
  <2>3. n \in Nat /\ Len(q) = n + 1
    BY <1>2, <2>2
  <2>4. PushState(s) = [s EXCEPT !.cur = c, !.saved = q, !.stackSize = n]
    BY <1>1 DEF PushState, Save, Layers
  <2> HIDE DEF c, q, n
  <2>5. Sound([s EXCEPT !.cur = c, !.saved = q, !.stackSize = n])
    BY <1>3, <2>1, <2>2, <2>3, Zenon
  <2> QED
    BY <2>4, <2>5, Zenon
<1>5. Sound(PopState(s))
  <2>1. CASE s.stackSize > 0
    <3> DEFINE b == Restore(s)
               c == b.cur
               q == b.saved
               n == s.stackSize - 1
    <3>1. s.saved # <<>>
      BY <1>2, EmptySeq
    <3>2. b \in Layers /\ b = [s EXCEPT !.cur = c, !.saved = q]
      BY <1>1, <3>1, RestoreKeeps, Zenon
    <3>3. /\ Len(q) = Len(s.saved) - 1
          /\ \A i \in 1 .. Len(s.saved) - 1 : q[i] = s.saved[i]
      BY <1>1, <3>1, RestoreKeeps, Zenon
    <3> HIDE DEF b
    <3>4. c \in Contexts /\ q \in Seq(Contexts)
      BY <3>2 DEF Layers
    <3>5. b.stackSize = s.stackSize
      BY <1>1, <3>2 DEF Layers
    <3>6. PopState(s) = [b EXCEPT !.stackSize = n]
      BY <2>1, <3>5 DEF PopState, b
    <3> HIDE DEF c, q
    <3>7. n \in Nat /\ Len(q) = n + 1 /\ q[1] = s.saved[1]
      <4>1. n \in Nat /\ Len(s.saved) - 1 = n + 1 /\ 1 \in 1 .. n + 1
        BY <1>2, <2>1
      <4> HIDE DEF n
      <4> QED
        BY <3>3, <4>1, Zenon
    <3> HIDE DEF n
    <3>8. PopState(s) = [s EXCEPT !.cur = c, !.saved = q, !.stackSize = n]
      BY <1>1, <3>2, <3>6 DEF Layers
    <3>9. Sound([s EXCEPT !.cur = c, !.saved = q, !.stackSize = n])
      BY <1>3, <3>4, <3>7, Zenon
    <3> QED
      BY <3>8, <3>9, Zenon
  <2>2. CASE ~(s.stackSize > 0)
    BY <2>2, Zenon DEF PopState
  <2> QED
    BY <2>1, <2>2, Zenon
<1> QED
  BY <1>4, <1>5, Zenon

(* setTransform, transform and setChannelMask change the context's state. *)
LEMMA StateSound ==
  ASSUME NEW s, Sound(s)
  PROVE  /\ \A d \in {0, 1} : Sound(SetTransform(s, d))
         /\ \A d \in {0, 1} : s.cur.shift + d <= 1 => Sound(AddTransform(s, d))
         /\ \A m \in Masks : Sound(SetChannelMask(s, m))
<1>1. s \in Layers /\ s.cur \in Contexts
  BY DEF Sound, Layers
<1>2. ASSUME NEW d \in {0, 1}
      PROVE  Sound([s EXCEPT !.cur.shift = d])
  <2> DEFINE c == [s.cur EXCEPT !.shift = d]
  <2>1. c \in Contexts
    BY <1>1 DEF Contexts
  <2>2. [s EXCEPT !.cur.shift = d] = [s EXCEPT !.cur = c]
    BY <1>1 DEF Layers
  <2> QED
    BY <2>1, <2>2, ContextSound, Zenon
<1>3. ASSUME NEW d \in {0, 1}, s.cur.shift + d <= 1
      PROVE  Sound(AddTransform(s, d))
  <2>1. s.cur.shift \in {0, 1}
    BY <1>1 DEF Contexts
  <2>2. s.cur.shift + d \in {0, 1}
    BY <1>3, <2>1
  <2> QED
    BY <1>2, <2>2, Zenon DEF AddTransform
<1>4. ASSUME NEW m \in Masks
      PROVE  Sound(SetChannelMask(s, m))
  <2>1. CASE m \in DOMAIN compositeOperation
    <3> DEFINE op == compositeOperation[m]
               c  == [s.cur EXCEPT !.op = op]
    <3>1. op \in Operations
      BY <2>1, Zenon DEF Operations
    <3> HIDE DEF op
    <3>2. c \in Contexts
      BY <1>1, <3>1 DEF Contexts
    <3>3. SetChannelMask(s, m) = [s EXCEPT !.cur = c]
      BY <1>1, <2>1 DEF SetChannelMask, Layers, op
    <3> QED
      BY <3>2, <3>3, ContextSound, ZenonT(30)
  <2>2. CASE m \notin DOMAIN compositeOperation
    BY <2>2, Zenon DEF SetChannelMask
  <2> QED
    BY <2>1, <2>2, Zenon
<1> QED
  BY <1>2, <1>3, <1>4, Zenon DEF SetTransform

(* What is left of a rectangle that starts inside its source canvas. *)
LEMMA CutIsNat ==
  ASSUME NEW from \in Nat, NEW extent \in Nat, from < CANVAS_SIZE_FACTOR
  PROVE  Cut(from, extent, CANVAS_SIZE_FACTOR) \in Nat
  BY FactorAssumption DEF Cut

(* The constructor. *)
LEMMA NewLayerSound ==
  ASSUME NEW w \in Nat, NEW h \in Nat, NEW auto \in BOOLEAN
  PROVE  Sound(NewLayer(w, h, auto))
<1> DEFINE r == NewLayer(w, h, auto)
<1>1. Round(w) \in Nat /\ Round(h) \in Nat
  BY RoundsUp
<1>2. /\ <<Round(w), Round(h)>> \in Nat \X Nat
      /\ <<FreshContext>> \in Seq(Contexts) /\ Len(<<FreshContext>>) = 0 + 1
      /\ <<FreshContext>>[1] = FreshContext
  BY <1>1, FreshIsContext
<1>3. FreshContext.shift = 0 /\ FreshContext.clip = Pixels
  BY DEF FreshContext
<1>4. /\ r \in Layers /\ r.ink = {} /\ ~r.spent
      /\ r.saved = <<FreshContext>> /\ r.stackSize = 0
      /\ r.width = w /\ r.height = h /\ r.canvas = <<Round(w), Round(h)>>
  BY <1>2, FreshIsContext DEF NewLayer, Layers
<1> HIDE DEF r
<1>5. Stacked(r)
  BY <1>2, <1>3, <1>4, Zenon DEF Stacked
<1>6. Sound(r)
  BY <1>4, <1>5, Zenon DEF Sound
<1> QED
  BY <1>6, Zenon DEF r

-----------------------------------------------------------------------------
(* The actions *)

(* The inductive invariant of the specification. *)
Inv == Sound(l)

LEMMA InitSound == Init => Inv
<1> SUFFICES ASSUME Init PROVE Inv
  OBVIOUS
<1>1. CASE \E z \in Sizes : l = NewLayer(z[1], z[2], FALSE)
  <2>1. PICK z \in Sizes : l = NewLayer(z[1], z[2], FALSE)
    BY <1>1, Zenon
  <2>2. z[1] \in Nat /\ z[2] \in Nat
    BY InputsAssumption
  <2> QED
    BY <2>1, <2>2, NewLayerSound, Zenon DEF Inv
<1>2. CASE l = NewLayer(0, 0, TRUE)
  BY <1>2, NewLayerSound DEF Inv
<1> QED
  BY <1>1, <1>2, Zenon DEF Init

(* Every action of the server's instructions keeps the layer sound. *)
LEMMA NextSound == Inv /\ [Next]_vars => Inv'
<1> SUFFICES ASSUME Inv, [Next]_vars PROVE Inv'
  OBVIOUS
<1>1. Sound(l)
  BY Zenon DEF Inv
<1>b. ASSUME NEW b \in Boxes
      PROVE  b[1] \in Nat /\ b[2] \in Nat /\ b[3] \in Nat /\ b[4] \in Nat
  BY InputsAssumption
<1>z. ASSUME NEW z \in Sizes PROVE z[1] \in Nat /\ z[2] \in Nat
  BY InputsAssumption
<1>2. CASE Draw
  <2>1. PICK b \in Boxes : Live /\ l' = DrawImage(l, b[1], b[2], b[3], b[4])
    BY <1>2, Zenon DEF Draw
  <2> QED
    BY <1>1, <1>b, <2>1, DrawImageSound, Zenon DEF Inv, Live
<1>c. ASSUME NEW r \in FromCanvas
      PROVE  r[1] \in Nat /\ r[2] \in Nat /\ r[3] \in Nat /\ r[4] \in Nat
  <2>0. r \in {<<b[1], b[2], Cut(sx, b[3], CANVAS_SIZE_FACTOR), Cut(0, b[4], CANVAS_SIZE_FACTOR)>> :
                sx \in {x \in SrcCoords : x < CANVAS_SIZE_FACTOR}, b \in {x \in Boxes : Fits(x)}}
    BY <1>c DEF FromCanvas
  <2>1. PICK sx \in SrcCoords, b \in Boxes :
          /\ sx < CANVAS_SIZE_FACTOR
          /\ r = <<b[1], b[2], Cut(sx, b[3], CANVAS_SIZE_FACTOR), Cut(0, b[4], CANVAS_SIZE_FACTOR)>>
    BY <2>0
  <2>2. sx \in Nat /\ 0 < CANVAS_SIZE_FACTOR /\ 0 \in Nat
    BY InputsAssumption, FactorAssumption
  <2>3. /\ Cut(sx, b[3], CANVAS_SIZE_FACTOR) \in Nat
        /\ Cut(0, b[4], CANVAS_SIZE_FACTOR) \in Nat
    BY <1>b, <2>1, <2>2, CutIsNat, Zenon
  <2> QED
    BY <1>b, <2>1, <2>3
<1>3. CASE Transfer
  <2>1. PICK r \in FromCanvas, px \in {{}, Pixels}, f \in Rasters :
          Live /\ l' = Overwrite(l, r[1], r[2], r[3], r[4], px, f)
    BY <1>3, Zenon DEF Transfer
  <2> QED
    BY <1>1, <1>c, <2>1, OverwriteSound, Zenon DEF Inv, Live
<1>4. CASE Copy
  <2>1. PICK r \in FromCanvas : Live /\ l' = DrawImage(l, r[1], r[2], r[3], r[4])
    BY <1>4, Zenon DEF Copy
  <2> QED
    BY <1>1, <1>c, <2>1, DrawImageSound, Zenon DEF Inv, Live
<1>5. CASE Point
  <2>1. PICK b \in Boxes : Live /\ l' = PathTo(l, b[1], b[2])
    BY <1>5, Zenon DEF Point
  <2> QED
    BY <1>1, <1>b, <2>1, ExtendSound, Zenon DEF Inv, Live
<1>6. CASE Rect
  <2>1. PICK b \in Boxes : Live /\ l' = RectTo(l, b[1], b[2], b[3], b[4])
    BY <1>6, Zenon DEF Rect
  <2> QED
    BY <1>1, <1>b, <2>1, ExtendSound, Zenon DEF Inv, Live
<1>7. CASE Close \/ Clip \/ Paint
  BY <1>1, <1>7, SpendSound, Zenon DEF Close, Clip, Paint, Inv
<1>8. CASE Push \/ Pop
  BY <1>1, <1>8, StackSound, Zenon DEF Push, Pop, Live, Inv
<1>9. CASE ResetLayer
  BY <1>1, <1>9, ResetSound, Zenon DEF ResetLayer, Live, Inv
<1>10. CASE Transform
  BY <1>1, <1>10, StateSound, Zenon DEF Transform, Inv
<1>11. CASE Mask
  BY <1>1, <1>11, StateSound, Zenon DEF Mask, Inv
<1>12. CASE Size
  <2>1. PICK z \in Sizes : Live /\ l' = Resize(l, z[1], z[2])
    BY <1>12, Zenon DEF Size
  <2> QED
    BY <1>1, <1>z, <2>1, ResizeSound, Zenon DEF Inv, Live
<1>13. CASE UNCHANGED vars
  BY <1>1, <1>13 DEF vars, Inv
<1> QED
  BY <1>2, <1>3, <1>4, <1>5, <1>6, <1>7, <1>8, <1>9, <1>10, <1>11, <1>12, <1>13
     DEF Next

LEMMA AlwaysSound == Spec => []Inv
  BY InitSound, NextSound, PTL DEF Spec

-----------------------------------------------------------------------------
(* Theorems *)

(* A layer's record keeps its types, nothing is painted outside its canvas,  *)
(* and the canvas is the layer's size rounded up to the factor.              *)
THEOREM TypeCorrect == Spec => []TypeOK
<1>1. Inv => TypeOK
  <2> SUFFICES ASSUME Inv PROVE TypeOK
    OBVIOUS
  <2>1. /\ l \in Layers
        /\ l.ink \subseteq Area(0, 0, l.canvas[1], l.canvas[2])
        /\ ~l.threw => l.canvas = <<Round(l.width), Round(l.height)>>
    BY Zenon DEF Inv, Sound
  <2>2. /\ l.width \in Nat /\ l.height \in Nat /\ l.stackSize \in Nat
        /\ l.autosize \in BOOLEAN /\ l.empty \in BOOLEAN /\ l.pathClosed \in BOOLEAN
        /\ l.spent \in BOOLEAN /\ l.threw \in BOOLEAN
        /\ l.path \subseteq Pixels /\ l.cur \in Contexts
        /\ l.saved \in Seq(Contexts)
    BY <2>1 DEF Layers
  <2>3. \A i \in DOMAIN l.saved : l.saved[i] \in Contexts
    BY <2>2
  <2>4. {l.autosize, l.empty, l.pathClosed, l.spent, l.threw} \subseteq BOOLEAN
    BY <2>2, Zenon
  <2> QED
    BY <2>1, <2>2, <2>3, <2>4, Zenon DEF TypeOK, Live
<1> QED
  BY <1>1, AlwaysSound, PTL

(* The layer's count of saved states never drifts from the context's stack,  *)
(* through every push, pop, reset and change of size (stackSize).            *)
THEOREM StackIsCounted == Spec => []StackMirrorsContext
<1>1. Inv => StackMirrorsContext
  BY Zenon DEF Inv, Sound, Stacked, StackMirrorsContext, Live
<1> QED
  BY <1>1, AlwaysSound, PTL

(* reset always finds a state without transform and clip at the bottom of    *)
(* the stack.                                                                *)
THEOREM ResetFindsCleanState == Spec => []BaselineIsClean
<1>1. Inv => BaselineIsClean
  BY Zenon DEF Inv, Sound, Stacked, BaselineIsClean, Live
<1> QED
  BY <1>1, AlwaysSound, PTL

(* resize may skip the copy of a layer that says it is empty: it is blank.   *)
THEOREM EmptyLayersAreBlank == Spec => []EmptyMeansBlank
<1>1. Inv => EmptyMeansBlank
  BY Zenon DEF Inv, Sound, EmptyMeansBlank
<1> QED
  BY <1>1, AlwaysSound, PTL

(* No method adds to a path that was closed, clipped to or painted.          *)
THEOREM SpentPathsStayClosed == Spec => []SpentPathIsClosed
<1>1. Inv => SpentPathIsClosed
  BY Zenon DEF Inv, Sound, SpentPathIsClosed
<1> QED
  BY <1>1, AlwaysSound, PTL

(* resize keeps every pixel inside both sizes, whichever of its branches it  *)
(* takes and whatever composite operation, clip and transform are in force,  *)
(* unless the browser refuses the copy.                                      *)
THEOREM ResizesKeepPixels == Spec => ResizeKeepsPixels
<1>1. ASSUME Inv, Size
      PROVE  LET both == Area(0, 0, AtMost(l.width, l'.width),
                                    AtMost(l.height, l'.height))
             IN  l'.ink \cap both = l.ink \cap both \/ l'.threw
  <2>1. PICK w \in Nat, h \in Nat : Live /\ l' = Resize(l, w, h)
    BY <1>1, InputsAssumption DEF Size
  <2>3. \/ l'.threw
        \/ /\ l'.width = w /\ l'.height = h
           /\ l'.ink = l.ink \/ l'.ink = Kept(l, w, h)
    <3> DEFINE r == Resize(l, w, h)
    <3>1. Sound(l) /\ ~l.threw
      BY <1>1, <2>1, Zenon DEF Inv, Live
    <3>2. /\ Sound(r)
          /\ \/ r.threw
             \/ /\ r.width = w /\ r.height = h
                /\ r.ink = l.ink \/ r.ink = Kept(l, w, h)
      BY <3>1, ResizeSound, ZenonT(30)
    <3>3. l' = r
      BY <2>1, Zenon
    <3> HIDE DEF r
    <3> QED
      BY <3>2, <3>3, Zenon
  <2> DEFINE both == Area(0, 0, AtMost(l.width, w), AtMost(l.height, h))
  <2>4. l'.threw \/ l'.ink = l.ink \/ l'.ink = l.ink \cap both
    BY <2>3, Zenon DEF Kept
  <2>5. \/ l'.threw
        \/ both = Area(0, 0, AtMost(l.width, l'.width), AtMost(l.height, l'.height))
    BY <2>3, Zenon
  <2> HIDE DEF both
  <2>6. l'.ink \cap both = l.ink \cap both \/ l'.threw
    BY <2>4
  <2> QED
    BY <2>5, <2>6, Zenon
<1> QED
  BY <1>1, AlwaysSound, PTL DEF Spec, ResizeKeepsPixels
=============================================================================
