------------------------------ MODULE Display ------------------------------
(***************************************************************************)
(* How the remote access page draws: the instruction handlers of           *)
(* Guacamole.Client that touch the screen, Guacamole.Display (tasks,       *)
(* frames, the two ways of flushing) and the tree of VisibleLayers, all of *)
(* engine/internal/rac/static/guacamole-common.js.                         *)
(*                                                                         *)
(* Nothing is drawn when its instruction arrives.  The handler looks up    *)
(* the layer at once and schedules a task on it; "sync" groups the tasks   *)
(* so far into a frame; a frame is rendered when all of its tasks are      *)
(* unblocked (a task that draws an image waits for the browser to decode   *)
(* it), from an animation frame while the page has the focus and on the    *)
(* spot while it has not.  Rendering a frame calls its callback, which     *)
(* acknowledges the sync to the server.  An image may also come in blobs   *)
(* on a stream; the page wants no other streams, and refuses them.         *)
(*                                                                         *)
(* A layer is a number: 0 is the default layer, Cursor that of the cursor, *)
(* and the others are numbered as they are created.  What a layer shows is *)
(* abstracted to the operations that made it, in order: path holds the     *)
(* path operations since the last paint, state the changes of mask,        *)
(* transform or stack, view those of matrix or opacity, ink what was       *)
(* painted, and size the operation that set the size (0 before any).  What *)
(* the operations do to pixels is in module Layer.                         *)
(***************************************************************************)
EXTENDS Integers, Sequences, FiniteSets, SequencesExt

CONSTANTS
    Indices,      \* the layer indices the server names; negative are buffers
    Streams,      \* the stream indices the server names
    Workloads,    \* what the server may send: kinds of instruction, the indices
                  \* and streams they name, and whether the images can be decoded
    MaxOps,       \* bound: drawing instructions the server sends
    MaxSyncs,     \* bound: syncs the server sends
    MaxBlobs,     \* bound: blobs the server sends
    Points        \* where the pointer may be

ASSUME IndicesAssumption == Indices \subseteq Int /\ 0 \in Indices
Kinds == {"path", "paint", "state", "copy", "picture", "img", "blob", "other",
          "size", "view", "cursor", "move", "dispose"}

ASSUME WorkloadsAssumption ==
    Workloads \subseteq [kinds : SUBSET Kinds, indices : SUBSET Indices,
                   streams : SUBSET Streams, loads : SUBSET BOOLEAN]
ASSUME BoundsAssumption == {MaxOps, MaxSyncs, MaxBlobs} \subseteq Nat
ASSUME PointsAssumption == 0 \in Points /\ Points \subseteq Nat

VARIABLES
    d,        \* the display: tasks, frames, raf (inProgressFrame), content
              \* (displayWidth is the size of layer 0 in it), the pointer
              \* (cursorX) and the cursor's hotspot (at, hot), what
              \* rendering left behind (shown, current, acked), and ref as it
              \* was at the sync that was rendered last (base)
    layers,   \* Client.layers: index -> layer
    streams,  \* Client.streams: stream index -> the layer its image is for, and
              \* what the BlobReader has collected
    wire,     \* the streams as the server sees them: what it sent on each, and
              \* how many answers it still waits for
    blobs,    \* how many blobs have arrived
    focused,  \* document.hasFocus()
    workload, \* which of Workloads the server sends
    ops,      \* how many drawing instructions have arrived
    sent,     \* the timestamps of the syncs that have arrived
    ref       \* what a client that drew at once would show

net == <<streams, wire, blobs>>
vars == <<d, layers, net, focused, workload, ops, sent, ref>>

None == -1
Cursor == -2
Closed == [dst |-> None, data |-> <<>>]
Free == [kind |-> "free", data |-> <<>>, awaits |-> 0]

\* A new layer of this size.  That of a stale one was read while a resize of
\* the display was waiting for its frame.
Blank(size, stale) ==
    [path |-> <<>>, state |-> <<>>, ink |-> <<>>, view |-> <<>>, size |-> size,
     stale |-> stale, pos |-> 0, parent |-> None, children |-> {}]

-----------------------------------------------------------------------------
(* VisibleLayer: the tree.  c maps every layer to what it shows. *)

(* Mutant: the old parent keeps the layer among its children. *)
MoveKeepsOld(c, layer, parent) ==
    [o \in DOMAIN c |->
        CASE o = layer -> [c[o] EXCEPT !.parent = parent]
          [] o = parent -> [c[o] EXCEPT !.children = @ \cup {layer}]
          [] OTHER -> c[o]]

\* VisibleLayer.move
Move(c, layer, parent) ==
    IF c[layer].parent = parent THEN c
    ELSE [o \in DOMAIN c |->
            CASE o = layer -> [c[o] EXCEPT !.parent = parent]
              [] o = parent -> [c[o] EXCEPT !.children = @ \cup {layer}]
              [] o = c[layer].parent -> [c[o] EXCEPT !.children = @ \ {layer}]
              [] OTHER -> c[o]]

\* VisibleLayer.dispose
Dispose(c, layer) ==
    IF c[layer].parent = None THEN c
    ELSE [c EXCEPT ![c[layer].parent].children = @ \ {layer},
                   ![layer].parent = None]

-----------------------------------------------------------------------------
(* Tasks: what each of Display's drawing operations does when it runs *)

\* moveTo, lineTo, arc, curveTo, close and rect
PathTask(c, t) == [c EXCEPT ![t.dst].path = Append(@, t.id)]

\* clip, strokeColor, fillColor, strokeLayer and fillLayer use the path up.
PaintTask(c, t) ==
    [c EXCEPT ![t.dst].ink = Append(@, <<t.id, c[t.dst].path, c[t.dst].state>>),
              ![t.dst].path = <<>>]

\* push, pop, reset, setTransform, transform, setChannelMask and setMiterLimit
StateTask(c, t) == [c EXCEPT ![t.dst].state = Append(@, t.id)]

\* resize
SizeTask(c, t) == [c EXCEPT ![t.dst].size = t.id, ![t.dst].stale = FALSE]

\* distort and shade
ViewTask(c, t) == [c EXCEPT ![t.dst].view = Append(@, t.id)]

\* transfer, put and copy take what the source shows when they run.
BlitTask(c, t) ==
    [c EXCEPT ![t.dst].ink = Append(@, <<t.id, c[t.src].ink, c[t.dst].state>>)]

\* setCursor sizes the cursor's layer and copies onto it.
CursorTask(c, t) == BlitTask(SizeTask(c, t), t)

\* draw and drawBlob: an image that has not loaded draws nothing.
ImageTask(c, t) ==
    IF t.loads /\ ~t.blocked
    THEN [c EXCEPT ![t.dst].ink = Append(@, <<t.id, t.data, c[t.dst].state>>)]
    ELSE c

Execute(c, t) ==
    CASE t.kind = "path"    -> PathTask(c, t)
      [] t.kind = "paint"   -> PaintTask(c, t)
      [] t.kind = "state"   -> StateTask(c, t)
      [] t.kind = "size"    -> SizeTask(c, t)
      [] t.kind = "view"    -> ViewTask(c, t)
      [] t.kind = "blit"    -> BlitTask(c, t)
      [] t.kind = "cursor"  -> CursorTask(c, t)
      [] t.kind \in {"image", "bitmap"} -> ImageTask(c, t)
      [] t.kind = "move"    -> Move(c, t.dst, t.src)
      [] t.kind = "dispose" -> Dispose(c, t.dst)

-----------------------------------------------------------------------------
(* Frames *)

\* Frame.isReady
Ready(frame) == \A i \in DOMAIN frame.tasks : ~frame.tasks[i].blocked

(* Mutant: a timestamp that was acknowledged is acknowledged again. *)
AcknowledgeAlways(s, ts) == [s EXCEPT !.acked = Append(@, ts), !.current = ts]

\* displaySyncComplete, the callback of every frame
Acknowledge(s, ts) ==
    IF ts # s.current
    THEN [s EXCEPT !.acked = Append(@, ts), !.current = ts]
    ELSE s

\* moveCursor
MoveCursor(s, p) == [s EXCEPT !.at = p, !.content[Cursor].pos = p - s.hot]

\* setCursor moves the cursor after its hotspot, which it takes from the
\* instruction (the identifier of the task here).
SetCursors(s, tasks) ==
    LET set == SelectSeq(tasks, LAMBDA t : t.kind = "cursor")
    IN  IF set = <<>> THEN s ELSE MoveCursor([s EXCEPT !.hot = Last(set).id], s.at)

\* Frame.flush of the first frame
Render(s) ==
    LET f == Head(s.frames)
        drawn == [s EXCEPT !.frames = Tail(@), !.shown = @ + 1, !.base = f.snap,
                           !.content = FoldLeft(Execute, @, f.tasks)]
    IN  Acknowledge(SetCursors(drawn, f.tasks), f.ts)

(* Mutant: every frame is drawn, ready or not. *)
SyncFlushAll(s) == FoldLeft(LAMBDA r, f : Render(r), s, s.frames)

\* syncFlush: every frame up to the first that is not ready
SyncFlush(s) ==
    LET due == {k \in DOMAIN s.frames : \A i \in 1..k : Ready(s.frames[i])}
    IN  FoldLeft(LAMBDA r, i : Render(r), s, [i \in 1..Cardinality(due) |-> i])

\* continueFlush, the animation frame callback of asyncFlush
ContinueFlush(s) ==
    LET idle  == [s EXCEPT !.raf = FALSE]
        drawn == IF Ready(Head(s.frames)) THEN Render(idle) ELSE idle
    IN  IF s.frames = <<>> THEN idle
        ELSE [drawn EXCEPT !.raf = drawn.frames # <<>>]

(* Mutant: nothing happens when the page has not got the focus. *)
FlushFramesFocused(s, focus) == IF focus THEN [s EXCEPT !.raf = TRUE] ELSE s

\* __flush_frames
FlushFrames(s, focus) ==
    IF focus THEN [s EXCEPT !.raf = TRUE] ELSE SyncFlush(s)

\* Display.flush
Flush(s, ts, snap, focus) ==
    FlushFrames([s EXCEPT !.frames = Append(@, [tasks |-> s.tasks, ts |-> ts,
                                                snap |-> snap]),
                          !.tasks = <<>>], focus)

\* Task.unblock of the task with this id
UnblockIn(tasks, id) ==
    [i \in DOMAIN tasks |-> IF tasks[i].id = id
                            THEN [tasks[i] EXCEPT !.blocked = FALSE]
                            ELSE tasks[i]]

Unblock(s, id, focus) ==
    FlushFrames([s EXCEPT !.tasks = UnblockIn(@, id),
                          !.frames = [k \in DOMAIN @ |->
                                        [@[k] EXCEPT !.tasks = UnblockIn(@, id)]]],
                focus)

Blocked == {t \in UNION ({Range(d.tasks)}
                         \cup {Range(d.frames[k].tasks) : k \in DOMAIN d.frames}) :
                t.blocked}

-----------------------------------------------------------------------------
(* The client's instruction handlers *)

\* createBuffer puts a new, empty layer nowhere; it grows as it is drawn on.
createBuffer(c, new) ==
    [o \in DOMAIN c \cup {new} |-> IF o = new THEN Blank(0, FALSE) ELSE c[o]]

\* createLayer puts a new layer into the tree at once, without a task, and makes
\* it as large as the display is then (displayWidth, displayHeight).
createLayer(c, new, stale) ==
    Move([o \in DOMAIN c \cup {new} |->
            IF o = new THEN Blank(c[0].size, stale) ELSE c[o]], new, 0)

\* getLayer: the client's layers, the screen and the reference after the layer
\* of this index was looked up.
GetLayer(g, index) ==
    LET new == Cardinality(DOMAIN g.content) - 1
        stale == g.content[0].size # g.ref[0].size
        Grown(c) == IF index > 0 THEN createLayer(c, new, stale)
                    ELSE createBuffer(c, new)
    IN  IF g.layers[index] # None THEN g
        ELSE [layers |-> [g.layers EXCEPT ![index] = new],
              content |-> Grown(g.content), ref |-> Grown(g.ref)]

Looked(is) ==
    FoldLeft(GetLayer, [layers |-> layers, content |-> d.content, ref |-> ref], is)

Task(kind, dst, src, blocked, loads) ==
    [id |-> ops + 1, kind |-> kind, dst |-> dst, src |-> src,
     blocked |-> blocked, loads |-> loads, data |-> <<>>]

\* scheduleTask, with g the layers after they were looked up.  The reference
\* runs the task now, with its image loaded.
Schedule(g, t) ==
    /\ ops < MaxOps
    /\ ops' = ops + 1
    /\ layers' = g.layers
    /\ ref' = Execute(g.ref, [t EXCEPT !.blocked = FALSE])
    /\ d' = [d EXCEPT !.tasks = Append(@, t), !.content = g.content]
    /\ UNCHANGED <<focused, workload, sent>>

Init ==
    /\ d = [tasks |-> <<>>, frames |-> <<>>, raf |-> FALSE,
            content |-> [o \in {0, Cursor} |-> Blank(0, FALSE)], at |-> 0, hot |-> 0,
            shown |-> 0, current |-> 0, acked |-> <<>>,
            base |-> [o \in {0, Cursor} |-> Blank(0, FALSE)]]
    /\ layers = [i \in Indices |-> IF i = 0 THEN 0 ELSE None]
    /\ streams = [n \in Streams |-> Closed]
    /\ wire = [n \in Streams |-> Free]
    /\ blobs = 0
    /\ focused \in BOOLEAN
    /\ workload \in Workloads
    /\ ops = 0
    /\ sent = <<>>
    /\ ref = d.content

\* "start", "line", "arc", "curve", "close", "rect"; "cfill", "cstroke", "clip";
\* "push", "pop", "reset", "transform", "identity", "set"
Drawing(index, kind) ==
    LET g == Looked(<<index>>)
    IN  /\ kind \in workload.kinds
        /\ Schedule(g, Task(kind, g.layers[index], None, FALSE, TRUE))
        /\ UNCHANGED net

\* "size"
Sizing(index) ==
    LET g == Looked(<<index>>)
    IN  /\ "size" \in workload.kinds
        /\ Schedule(g, Task("size", g.layers[index], None, FALSE, TRUE))
        /\ UNCHANGED net

\* "shade" and "distort", for visible layers only
Shading(index) ==
    LET g == Looked(<<index>>)
    IN  /\ "view" \in workload.kinds
        /\ index >= 0
        /\ Schedule(g, Task("view", g.layers[index], None, FALSE, TRUE))
        /\ UNCHANGED net

\* "cursor"
SetCursor(index) ==
    LET g == Looked(<<index>>)
    IN  /\ "cursor" \in workload.kinds
        /\ Schedule(g, Task("cursor", Cursor, g.layers[index], FALSE, TRUE))
        /\ UNCHANGED net

\* "mouse", and sendMouseState when the user moves theirs: the cursor moves at
\* once, "not maintained within atomic frames".
Pointer(p) ==
    /\ "cursor" \in workload.kinds /\ p # d.at
    /\ d' = MoveCursor(d, p)
    /\ UNCHANGED <<layers, net, focused, workload, ops, sent, ref>>

\* "copy", "transfer" and "lfill"
Copying(from, to) ==
    LET g == Looked(<<from, to>>)
    IN  /\ "copy" \in workload.kinds /\ from # to
        /\ Schedule(g, Task("blit", g.layers[to], g.layers[from], FALSE, TRUE))
        /\ UNCHANGED net

\* "png" and "jpeg": the Image object unblocks the task whether or not it loads.
Picture(index, loads) ==
    LET g == Looked(<<index>>)
    IN  /\ "picture" \in workload.kinds
        /\ Schedule(g, Task("image", g.layers[index], None, TRUE, loads))
        /\ UNCHANGED net

\* "img": the layer is looked up now, and only the mask is scheduled.
ImageStream(n, index) ==
    LET g == Looked(<<index>>)
    IN  /\ "img" \in workload.kinds /\ wire[n].kind = "free"
        /\ Schedule(g, Task("state", g.layers[index], None, FALSE, TRUE))
        /\ streams' = [streams EXCEPT ![n] = [dst |-> g.layers[index], data |-> <<>>]]
        /\ wire' = [wire EXCEPT ![n].kind = "image"]
        /\ UNCHANGED blobs

\* BlobReader appends what it is given to what it has.
Collected(n, b) == [streams EXCEPT ![n].data = Append(@, b)]

\* sendAck answers the server.
Answered(w, n) == [w EXCEPT ![n].awaits = @ - 1]

\* "clipboard", "file", "pipe", "argv" and "body": the page handles none of
\* them, so that no stream is created, and the server is told.
OtherStream(n) ==
    /\ "other" \in workload.kinds /\ wire[n].kind = "free"
    /\ wire' = Answered([wire EXCEPT ![n] = [@ EXCEPT !.kind = "other", !.awaits = 1]], n)
    /\ UNCHANGED <<d, layers, streams, blobs, focused, workload, ops, sent, ref>>

(* Mutant: a blob is answered whether or not there is a stream for it. *)
BlobAnswersAll(n) ==
    LET b == blobs + 1
        on == [wire EXCEPT ![n].data = Append(@, b),
                           ![n].awaits = IF wire[n].kind = "image" THEN @ + 1 ELSE @]
    IN  /\ "blob" \in workload.kinds /\ wire[n].kind # "free" /\ blobs < MaxBlobs
        /\ blobs' = b
        /\ wire' = Answered(on, n)
        /\ streams' = IF streams[n] = Closed THEN streams
                      ELSE Collected(n, b)
        /\ UNCHANGED <<d, layers, focused, workload, ops, sent, ref>>

\* "blob": the BlobReader of an image keeps it and answers.  The server may
\* send blobs on a stream whose refusal it has not seen yet; nobody is there
\* to answer them, and it waits for no answer any more.
Blob(n) ==
    LET b == blobs + 1
        on == [wire EXCEPT ![n].data = Append(@, b),
                           ![n].awaits = IF wire[n].kind = "image" THEN @ + 1 ELSE @]
    IN  /\ "blob" \in workload.kinds /\ wire[n].kind # "free" /\ blobs < MaxBlobs
        /\ blobs' = b
        /\ IF streams[n] = Closed THEN wire' = on /\ UNCHANGED streams
           ELSE /\ wire' = Answered(on, n)
                /\ streams' = Collected(n, b)
        /\ UNCHANGED <<d, layers, focused, workload, ops, sent, ref>>

\* "end": drawStream's reader schedules the image it collected, if there is a
\* stream.  A bitmap that cannot be decoded never unblocks its task.  The
\* reference draws what the server sent.
EndStream(n, loads) ==
    LET t == Task("bitmap", streams[n].dst, None, TRUE, loads)
    IN  /\ wire[n].kind # "free"
        /\ IF streams[n] = Closed
           THEN UNCHANGED <<d, layers, focused, workload, ops, sent, ref>>
           ELSE /\ ops < MaxOps
                /\ ops' = ops + 1
                /\ d' = [d EXCEPT !.tasks = Append(@, [t EXCEPT !.data = streams[n].data])]
                /\ ref' = Execute(ref, [t EXCEPT !.blocked = FALSE, !.data = wire[n].data])
                /\ UNCHANGED <<layers, focused, workload, sent>>
        /\ streams' = [streams EXCEPT ![n] = Closed]
        /\ wire' = [wire EXCEPT ![n] = [Free EXCEPT !.awaits = wire[n].awaits]]
        /\ UNCHANGED blobs

\* "move": layers above the default one only, into a visible layer.  The server
\* nests no layer into itself or into a layer inside it.
MoveLayer(index, parent) ==
    LET g == Looked(<<index, parent>>)
        me == g.layers[index]
        in == g.layers[parent]
    IN  /\ "move" \in workload.kinds /\ index > 0 /\ parent >= 0
        /\ me # in /\ g.ref[in].parent # me
        /\ Schedule(g, Task("move", me, in, FALSE, TRUE))
        /\ UNCHANGED net

\* "dispose": a visible layer leaves the tree when the task runs, and its index
\* is free at once.
DisposeLayer(index) ==
    LET g == Looked(<<index>>)
        gone == [g EXCEPT !.layers[index] = None]
    IN  /\ "dispose" \in workload.kinds /\ index > 0
        /\ Schedule(gone, Task("dispose", g.layers[index], None, FALSE, TRUE))
        /\ UNCHANGED net

\* "dispose" of a buffer only forgets the index.
DisposeBuffer(index) ==
    /\ "dispose" \in workload.kinds /\ index < 0 /\ layers[index] # None
    /\ layers' = [layers EXCEPT ![index] = None]
    /\ UNCHANGED <<d, net, focused, workload, ops, sent, ref>>

\* "sync": the server's timestamps never go back.
Sync(ts) ==
    /\ Len(sent) < MaxSyncs
    /\ sent' = Append(sent, ts)
    /\ d' = Flush(d, ts, ref, focused)
    /\ UNCHANGED <<layers, net, focused, workload, ops, ref>>

LastSent == IF sent = <<>> THEN 1 ELSE Last(sent)

-----------------------------------------------------------------------------
(* The browser *)

AnimationFrame ==
    /\ d.raf /\ focused
    /\ d' = ContinueFlush(d)
    /\ UNCHANGED <<layers, net, focused, workload, ops, sent, ref>>

(* Mutant: an image that fails does not unblock its task. *)
DecodedLoadedOnly(id) == \E t \in Blocked :
    /\ t.id = id
    /\ t.loads
    /\ d' = Unblock(d, id, focused)
    /\ UNCHANGED <<layers, net, focused, workload, ops, sent, ref>>

\* The image of a blocked task is decoded; an Image object that fails unblocks
\* its task too, a promise of createImageBitmap that is rejected does not.
Decoded(id) == \E t \in Blocked :
    /\ t.id = id
    /\ t.kind = "bitmap" => t.loads
    /\ d' = Unblock(d, id, focused)
    /\ UNCHANGED <<layers, net, focused, workload, ops, sent, ref>>

\* switchToSyncFlush
Blur ==
    /\ focused
    /\ focused' = FALSE
    /\ d' = IF d.raf THEN SyncFlush([d EXCEPT !.raf = FALSE]) ELSE d
    /\ UNCHANGED <<layers, net, workload, ops, sent, ref>>

Focus ==
    /\ ~focused
    /\ focused' = TRUE
    /\ UNCHANGED <<d, layers, net, workload, ops, sent, ref>>

Next ==
    \/ \E i \in workload.indices, k \in {"path", "paint", "state"} : Drawing(i, k)
    \/ \E i \in workload.indices : Sizing(i) \/ Shading(i)
    \/ \E i \in workload.indices : SetCursor(i)
    \/ \E p \in Points : Pointer(p)
    \/ \E i, j \in workload.indices : Copying(i, j)
    \/ \E i \in workload.indices, b \in workload.loads : Picture(i, b)
    \/ \E n \in workload.streams, i \in workload.indices : ImageStream(n, i)
    \/ \E n \in workload.streams : OtherStream(n) \/ Blob(n)
    \/ \E n \in workload.streams, b \in workload.loads : EndStream(n, b)
    \/ \E i, j \in workload.indices : MoveLayer(i, j)
    \/ \E i \in workload.indices : DisposeLayer(i)
    \/ \E i \in Indices : DisposeBuffer(i)
    \/ \E ts \in {LastSent, LastSent + 1} : Sync(ts)
    \/ \E id \in 1..MaxOps : Decoded(id)
    \/ AnimationFrame \/ Blur \/ Focus

Spec == Init /\ [][Next]_vars

\* The browser runs the animation frame callbacks of a page that has the focus,
\* and goes on loading images while any is left.
FairSpec == /\ Spec
            /\ WF_vars(AnimationFrame)
            /\ WF_vars(\E id \in 1..MaxOps : Decoded(id))

-----------------------------------------------------------------------------
(* Properties *)

Objects == DOMAIN d.content

(* Every variable has its type; a task refers to layers that exist, and the  *)
(* indices of Client.layers never name one layer twice.  The children a      *)
(* layer lists are the layers that name it as their parent (VisibleLayer's   *)
(* move and dispose), though layers enter the tree at once and move and      *)
(* leave it only when their frame is drawn.                                  *)
TypeOK ==
    /\ d.raf \in BOOLEAN /\ focused \in BOOLEAN
    /\ d.shown \in 0..Len(sent) /\ ops \in 0..MaxOps
    /\ Len(d.frames) = Len(sent) - d.shown
    /\ DOMAIN ref = Objects
    /\ \A i \in Indices : layers[i] \in (Objects \ {Cursor}) \cup {None}
    /\ \A i, j \in Indices : layers[i] = layers[j] => i = j \/ layers[i] = None
    /\ \A n \in Streams : streams[n].dst \in Objects \cup {None}
    /\ blobs \in 0..MaxBlobs
    /\ \A t \in Range(d.tasks) : t.dst \in Objects /\ t.src \in Objects \cup {None}
    /\ \A o, p \in Objects : o \in d.content[p].children <=> d.content[o].parent = p

(* What is on the screen is exactly what a client that drew every            *)
(* instruction on arrival had drawn by some sync: no frame is half drawn, no *)
(* operation overtakes an image it came after, and an operation meant for a  *)
(* layer never lands on the layer that later got its index, whatever order   *)
(* the images finish loading in and however often the focus is lost.  One    *)
(* exception: createLayer takes the size of the screen as it is, so that a   *)
(* layer created while a resize of the display waits for its frame has the   *)
(* old size until the server sizes it, and what is drawn on it beyond that   *)
(* is lost.  Over it all the cursor has its hotspot on the pointer, although *)
(* the pointer moves it at once and a new cursor, with a hotspot of its own, *)
(* waits for its frame (moveCursor, setCursor).                              *)
ScreenIsAFrame ==
    /\ \A o \in DOMAIN d.base :
          /\ d.content[o].path = d.base[o].path
          /\ d.content[o].state = d.base[o].state
          /\ d.content[o].ink = d.base[o].ink
          /\ d.content[o].parent = d.base[o].parent
          /\ d.content[o].view = d.base[o].view
          /\ d.content[o].stale = d.base[o].stale
          /\ d.content[o].stale \/ d.content[o].size = d.base[o].size
    /\ d.content[Cursor].pos = d.at - d.hot

(* createLayer gives every layer the size of the display that the server     *)
(* has in mind.  It does not: a resize of the display that is waiting for    *)
(* its frame has not changed displayWidth yet.                               *)
NewLayersFitTheDisplay == \A o \in DOMAIN d.base : d.content[o].size = d.base[o].size

(* The server is told of exactly the frames that are on the screen, each     *)
(* timestamp once and in order (displaySyncComplete): an acknowledgement     *)
(* never runs ahead of the drawing it stands for.                            *)
AcksAreShown ==
    /\ Range(d.acked) = {sent[i] : i \in 1..d.shown}
    /\ \A i \in 1..Len(d.acked) - 1 : d.acked[i] < d.acked[i + 1]

(* A frame that could be drawn is never left lying: either the next          *)
(* animation frame was asked for, or nothing at the head of the queue is     *)
(* ready.  Every path that makes a frame ready has to flush: the sync, the   *)
(* image that finishes loading, the loss of the focus.  And inProgressFrame  *)
(* is set only while the tab has the focus ("in all other cases, this will   *)
(* be null"): the browser would never make the callback.                     *)
ReadyFrameIsRequested ==
    /\ d.frames # <<>> /\ Ready(Head(d.frames)) => d.raf
    /\ d.raf => focused

\* The task of a bitmap that createImageBitmap rejected.
Stuck(t) == t.kind = "bitmap" /\ ~t.loads

(* On no stream does the server wait for an answer that was not given, or    *)
(* get one it does not wait for: a blob of an image is answered once, a      *)
(* stream that is refused is refused once, and what arrives on it before the *)
(* server knows is passed over in silence.                                   *)
EveryStreamAnswered == \A n \in Streams : wire[n].awaits = 0

(* Every sync the server sends is rendered, and so acknowledged, in the end, *)
(* unless a bitmap ahead of it cannot be decoded (drawBlob has no handler    *)
(* for the rejection): the display never waits for an animation frame that   *)
(* does not come or for an image that has already arrived.                   *)
EveryFrameShown ==
    <>[](\/ d.shown = Len(sent)
         \/ \E i \in DOMAIN Head(d.frames).tasks : Stuck(Head(d.frames).tasks[i]))

=============================================================================
