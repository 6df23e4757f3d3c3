---------------------------- MODULE MouseProofs ----------------------------
(***************************************************************************)
(* The mouse of the remote access page, for every set of buttons, wheel    *)
(* events, positions and sizes.  What the listeners send goes through a    *)
(* few operators on a target (press, release, move, reset); a lemma for    *)
(* each says what it does to the object and that the remote host was told, *)
(* and the invariant follows action by action.                             *)
(***************************************************************************)
EXTENDS PageInput, TLAPS

(* What a message sent now would say. *)
Message(t) == [mask |-> t.m.held, x |-> ToRemote(t.z, t.m.x)]

(* From target t to r: either all of r was sent, or nothing was and, unless  *)
(* the tunnel is not open, there is nothing to send.                         *)
Tells(t, r) ==
    /\ r.z = t.z
    /\ \/ open /\ r.sent = Message(r)
       \/ r.sent = t.sent /\ (open => r.m.held = t.m.held /\ r.m.x = t.m.x)

Names == {"left", "middle", "right", "up", "down"}
Mice == [held : SUBSET Names, x : Nat, ignore : 0..touchMouseThreshold, delta : Int]
IsTarget(t) == t = [m |-> t.m, sent |-> t.sent, z |-> t.z] /\ t.m \in Mice

-----------------------------------------------------------------------------
(* The operators on a target *)

(* dispatch of an event the page listens to: sendMouseState. *)
LEMMA Dispatching ==
  ASSUME NEW t, IsTarget(t), NEW type \in Heard, NEW r, r = dispatch(type, t)
  PROVE  /\ IsTarget(r) /\ r.m = t.m /\ r.z = t.z
         /\ open => r.sent = Message(r)
         /\ ~open => r.sent = t.sent
  BY DEF dispatch, sendMouseState, IsTarget, Message

(* press: the button is held, and the remote host was told. *)
LEMMA Pressing ==
  ASSUME NEW t, IsTarget(t), NEW b \in Names, NEW r, r = press(t, b)
  PROVE  /\ IsTarget(r) /\ Tells(t, r)
         /\ r.m = [t.m EXCEPT !.held = @ \cup {b}]
<1>1. CASE b \in t.m.held
  BY <1>1 DEF press, IsTarget, Tells, Mice
<1>2. CASE b \notin t.m.held
  <2> DEFINE u == [t EXCEPT !.m.held = @ \cup {b}]
  <2>1. /\ u.m = [t.m EXCEPT !.held = @ \cup {b}] /\ u.z = t.z /\ u.sent = t.sent
        /\ u = [m |-> u.m, sent |-> u.sent, z |-> u.z]
    BY DEF IsTarget
  <2>2. u.m \in Mice
    BY <2>1 DEF IsTarget, Mice
  <2>3. r = dispatch("mousedown", u)
    BY <1>2 DEF press
  <2> HIDE DEF u
  <2>4. /\ IsTarget(r) /\ r.m = u.m /\ r.z = u.z
        /\ open => r.sent = Message(r)
        /\ ~open => r.sent = u.sent
    BY <2>1, <2>2, <2>3, Dispatching DEF IsTarget, Heard
  <2> QED
    BY <2>1, <2>4 DEF Tells
<1> QED
  BY <1>1, <1>2

(* release: the button is not held, and the remote host was told. *)
LEMMA Releasing ==
  ASSUME NEW t, IsTarget(t), NEW b \in Names, NEW r, r = release(t, b)
  PROVE  /\ IsTarget(r) /\ Tells(t, r)
         /\ r.m = [t.m EXCEPT !.held = @ \ {b}]
<1>1. CASE b \notin t.m.held
  BY <1>1 DEF release, IsTarget, Tells, Mice
<1>2. CASE b \in t.m.held
  <2> DEFINE u == [t EXCEPT !.m.held = @ \ {b}]
  <2>1. /\ u.m = [t.m EXCEPT !.held = @ \ {b}] /\ u.z = t.z /\ u.sent = t.sent
        /\ u = [m |-> u.m, sent |-> u.sent, z |-> u.z]
    BY DEF IsTarget
  <2>2. u.m \in Mice
    BY <2>1 DEF IsTarget, Mice
  <2>3. r = dispatch("mouseup", u)
    BY <1>2 DEF release
  <2> HIDE DEF u
  <2>4. /\ IsTarget(r) /\ r.m = u.m /\ r.z = u.z
        /\ open => r.sent = Message(r)
        /\ ~open => r.sent = u.sent
    BY <2>1, <2>2, <2>3, Dispatching DEF IsTarget, Heard
  <2> QED
    BY <2>1, <2>4 DEF Tells
<1> QED
  BY <1>1, <1>2

(* move: the position is the new one, and the remote host was told. *)
LEMMA Moving ==
  ASSUME NEW t, IsTarget(t), NEW x \in Nat, NEW r, r = move(t, x)
  PROVE  /\ IsTarget(r) /\ Tells(t, r)
         /\ r.m = [t.m EXCEPT !.x = x]
<1>1. CASE t.m.x = x
  BY <1>1 DEF move, IsTarget, Tells, Mice
<1>2. CASE t.m.x # x
  <2> DEFINE u == [t EXCEPT !.m.x = x]
  <2>1. /\ u.m = [t.m EXCEPT !.x = x] /\ u.z = t.z /\ u.sent = t.sent
        /\ u = [m |-> u.m, sent |-> u.sent, z |-> u.z]
    BY DEF IsTarget
  <2>2. u.m \in Mice
    BY <2>1 DEF IsTarget, Mice
  <2>3. r = dispatch("mousemove", u)
    BY <1>2 DEF move
  <2> HIDE DEF u
  <2>4. /\ IsTarget(r) /\ r.m = u.m /\ r.z = u.z
        /\ open => r.sent = Message(r)
        /\ ~open => r.sent = u.sent
    BY <2>1, <2>2, <2>3, Dispatching DEF IsTarget, Heard
  <2> QED
    BY <2>1, <2>4 DEF Tells
<1> QED
  BY <1>1, <1>2

(* Telling composes: what an operator did not send, the one before it had. *)
LEMMA TellsOn ==
  ASSUME NEW t, NEW u, NEW r, Tells(t, u), Tells(u, r)
  PROVE  Tells(t, r)
  BY DEF Tells, Message

(* reset: no button is held, and the remote host was told. *)
LEMMA Resetting ==
  ASSUME NEW t, IsTarget(t), NEW r, r = reset(t)
  PROVE  /\ IsTarget(r) /\ Tells(t, r)
         /\ r.m = [t.m EXCEPT !.held = {}]
<1>1. PICK r1 : r1 = release(t, "left")
  OBVIOUS
<1>2. PICK r2 : r2 = release(r1, "middle")
  OBVIOUS
<1>3. PICK r3 : r3 = release(r2, "right")
  OBVIOUS
<1>4. PICK r4 : r4 = release(r3, "up")
  OBVIOUS
<1>5. r = release(r4, "down")
  BY <1>1, <1>2, <1>3, <1>4 DEF reset, StateButtons
<1>6. IsTarget(r1) /\ Tells(t, r1) /\ r1.m = [t.m EXCEPT !.held = @ \ {"left"}]
  BY <1>1, Releasing DEF Names
<1>7. IsTarget(r2) /\ Tells(r1, r2) /\ r2.m = [r1.m EXCEPT !.held = @ \ {"middle"}]
  BY <1>2, <1>6, Releasing DEF Names
<1>8. IsTarget(r3) /\ Tells(r2, r3) /\ r3.m = [r2.m EXCEPT !.held = @ \ {"right"}]
  BY <1>3, <1>7, Releasing DEF Names
<1>9. IsTarget(r4) /\ Tells(r3, r4) /\ r4.m = [r3.m EXCEPT !.held = @ \ {"up"}]
  BY <1>4, <1>8, Releasing DEF Names
<1>10. IsTarget(r) /\ Tells(r4, r) /\ r.m = [r4.m EXCEPT !.held = @ \ {"down"}]
  BY <1>5, <1>9, Releasing DEF Names
<1>11. Tells(t, r)
  BY <1>6, <1>7, <1>8, <1>9, <1>10, TellsOn, Zenon
<1>12. /\ t.m \in Mice /\ r1.m \in Mice /\ r2.m \in Mice
       /\ r3.m \in Mice /\ r4.m \in Mice /\ r.m \in Mice
  BY <1>6, <1>7, <1>8, <1>9, <1>10 DEF IsTarget
<1>13. r.m.held = {}
  <2>1. r.m.held = ((((t.m.held \ {"left"}) \ {"middle"}) \ {"right"}) \ {"up"}) \ {"down"}
    BY <1>6, <1>7, <1>8, <1>9, <1>10, <1>12 DEF Mice
  <2>2. t.m.held \subseteq Names
    BY <1>12 DEF Mice
  <2> QED
    BY <2>1, <2>2 DEF Names
<1>14. r.m.x = t.m.x /\ r.m.ignore = t.m.ignore /\ r.m.delta = t.m.delta
  BY <1>6, <1>7, <1>8, <1>9, <1>10, <1>12 DEF Mice
<1>15. r.m = [t.m EXCEPT !.held = {}]
  BY <1>12, <1>13, <1>14 DEF Mice
<1> QED
  BY <1>10, <1>11, <1>15

-----------------------------------------------------------------------------
(* The invariant.  Nothing was sent before the tunnel opened; no button is   *)
(* held while the pointer is outside, where its mouseup would not be seen;   *)
(* and the position is that of the pointer once a movement was handled,      *)
(* which is forgotten when the pointer leaves.                               *)

Resting == [held : SUBSET MOUSE_BUTTONS, x : Nat, ignore : 0..touchMouseThreshold,
            delta : Int]

MouseInv ==
    /\ mouse \in Resting
    /\ -scrollThreshold < mouse.delta /\ mouse.delta < scrollThreshold
    /\ far.mask \subseteq MOUSE_BUTTONS
    /\ hand \subseteq Buttons /\ missed \subseteq mouse.held
    /\ at \in Pointers
    /\ seen \in BOOLEAN /\ open \in BOOLEAN
    /\ size \in [remote : Nat, window : Nat]
    /\ ~open => far = Nothing
    /\ far # Nothing => far.mask = mouse.held
    /\ mouse.held \subseteq hand \cup missed
    /\ ~Over(size, at) => mouse.held = {} /\ ~seen
    /\ seen => mouse.x = fromClientPosition(size, at)

(* What an event may do to the object and to what the remote host was told,  *)
(* in terms of the state alone.                                              *)
Told ==
    \/ open /\ far' = [mask |-> mouse'.held, x |-> ToRemote(size', mouse'.x)]
    \/ far' = far /\ (open => mouse'.held = mouse.held)

(* A target made of the present state, and what becomes of it. *)
LEMMA TargetIs ==
  ASSUME MouseInv
  PROVE  /\ IsTarget(Target) /\ Target.m = mouse /\ Target.sent = far
         /\ Target.z = size
  BY DEF MouseInv, Resting, Target, IsTarget, Mice, Names, MOUSE_BUTTONS

LEMMA ToldBy ==
  ASSUME NEW t, NEW r, IsTarget(r), Tells(t, r), t.sent = far, t.z = size',
         t.m.held = mouse.held, Becomes(r)
  PROVE  Told /\ mouse' = r.m
  BY DEF Tells, Becomes, Told, Message

(* Whatever an event sends, the remote host is told of the buttons. *)
LEMMA ToldIsSeen ==
  ASSUME MouseInv, Told, open' = open, mouse' \in Resting
  PROVE  /\ far'.mask \subseteq MOUSE_BUTTONS
         /\ ~open' => far' = Nothing
         /\ far' # Nothing => far'.mask = mouse'.held
<1>1. mouse'.held \subseteq MOUSE_BUTTONS
  BY DEF Resting
<1>2. CASE open /\ far' = [mask |-> mouse'.held, x |-> ToRemote(size', mouse'.x)]
  BY <1>1, <1>2
<1>3. CASE far' = far /\ (open => mouse'.held = mouse.held)
  BY <1>3 DEF MouseInv
<1> QED
  BY <1>2, <1>3 DEF Told

(* The mouse's first state. *)
LEMMA MouseStarts == MouseInit => MouseInv
<1> SUFFICES ASSUME MouseInit PROVE MouseInv
  OBVIOUS
<1>1. at \in Pointers
  BY MouseAssumption DEF MouseInit
<1>2. size \in [remote : Nat, window : Nat]
  <2>1. size \in [remote : {0}, window : WindowWidths]
    BY DEF MouseInit
  <2>2. WindowWidths \subseteq Nat
    BY MouseAssumption
  <2>3. /\ size = [remote |-> size.remote, window |-> size.window]
        /\ size.remote = 0 /\ size.window \in WindowWidths
    BY <2>1
  <2>4. size.window \in Nat
    BY <2>2, <2>3
  <2> QED
    BY <2>3, <2>4
<1>3. /\ mouse \in Resting /\ mouse.held = {} /\ mouse.delta = 0 /\ far.mask = {}
      /\ -scrollThreshold < 0 /\ 0 < scrollThreshold
  BY DEF MouseInit, Resting, Nothing, touchMouseThreshold, scrollThreshold
<1> QED
  BY <1>1, <1>2, <1>3 DEF MouseInit, MouseInv

-----------------------------------------------------------------------------
(* One lemma for each listener *)

LEMMA MoveKeeps ==
  ASSUME MouseInv, NEW p \in Pointers, MouseMove(p)
  PROVE  MouseInv' /\ Told
<1> DEFINE x == fromClientPosition(size, p)
<1>1. x \in Nat
  BY DEF MouseMove, Over, Shown, MouseInv
<1>2. CASE mouse.ignore > 0
  <2>1. mouse' = [mouse EXCEPT !.ignore = @ - 1] /\ far' = far /\ seen' = FALSE
    BY <1>2 DEF MouseMove, Becomes, Target
  <2>2. mouse' \in Resting /\ mouse'.held = mouse.held /\ mouse'.delta = mouse.delta
    BY <1>2, <2>1 DEF MouseInv, Resting, touchMouseThreshold
  <2> QED
    BY <2>1, <2>2 DEF MouseMove, MouseInv, Told
<1>3. CASE ~(mouse.ignore > 0)
  <2> DEFINE r == move(Target, x)
  <2>1. Becomes(r) /\ seen' = TRUE
    BY <1>3 DEF MouseMove
  <2>2. /\ IsTarget(r) /\ Tells(Target, r)
        /\ r.m = [mouse EXCEPT !.x = x]
    BY <1>1, TargetIs, Moving
  <2> HIDE DEF r, x
  <2>3. Told /\ mouse' = [mouse EXCEPT !.x = x]
    BY <2>1, <2>2, TargetIs, ToldBy DEF MouseMove
  <2>4. /\ mouse' \in Resting /\ mouse'.held = mouse.held /\ mouse'.x = x
        /\ mouse'.delta = mouse.delta
    BY <1>1, <2>3 DEF MouseInv, Resting
  <2>5. /\ far'.mask \subseteq MOUSE_BUTTONS
        /\ ~open' => far' = Nothing
        /\ far' # Nothing => far'.mask = mouse'.held
    BY <2>3, <2>4, ToldIsSeen DEF MouseMove
  <2> QED
    BY <2>1, <2>3, <2>4, <2>5 DEF MouseMove, MouseInv, x
<1> QED
  BY <1>2, <1>3

LEMMA DownKeeps ==
  ASSUME MouseInv, NEW b \in Buttons, MouseDown(b)
  PROVE  MouseInv' /\ Told
<1>1. CASE mouse.ignore > 0 \/ b \notin MOUSE_BUTTONS
  BY <1>1 DEF MouseDown, MouseInv, Told
<1>2. CASE ~(mouse.ignore > 0 \/ b \notin MOUSE_BUTTONS)
  <2> DEFINE r == press(Target, b)
  <2>1. Becomes(r) /\ missed' = missed \ {b}
    BY <1>2 DEF MouseDown
  <2>n. b \in Names
    BY <1>2 DEF Names, MOUSE_BUTTONS
  <2>2. /\ IsTarget(r) /\ Tells(Target, r)
        /\ r.m = [mouse EXCEPT !.held = @ \cup {b}]
    BY <2>n, TargetIs, Pressing
  <2> HIDE DEF r
  <2>3. Told /\ mouse' = [mouse EXCEPT !.held = @ \cup {b}]
    BY <2>1, <2>2, TargetIs, ToldBy DEF MouseDown
  <2>4. /\ mouse' \in Resting /\ mouse'.held = mouse.held \cup {b}
        /\ mouse'.x = mouse.x /\ mouse'.delta = mouse.delta
    BY <1>2, <2>3 DEF MouseInv, Resting
  <2>5. /\ far'.mask \subseteq MOUSE_BUTTONS
        /\ ~open' => far' = Nothing
        /\ far' # Nothing => far'.mask = mouse'.held
    BY <2>3, <2>4, ToldIsSeen DEF MouseDown
  <2> QED
    BY <2>1, <2>3, <2>4, <2>5 DEF MouseDown, MouseInv
<1> QED
  BY <1>1, <1>2

LEMMA UpKeeps ==
  ASSUME MouseInv, NEW b \in Buttons, MouseUp(b)
  PROVE  MouseInv' /\ Told
<1>1. CASE mouse.ignore > 0 \/ b \notin MOUSE_BUTTONS
  BY <1>1 DEF MouseUp, MouseInv, Told
<1>2. CASE ~(mouse.ignore > 0 \/ b \notin MOUSE_BUTTONS)
  <2> DEFINE r == release(Target, b)
  <2>1. Becomes(r) /\ missed' = missed \ {b}
    BY <1>2 DEF MouseUp
  <2>n. b \in Names
    BY <1>2 DEF Names, MOUSE_BUTTONS
  <2>2. /\ IsTarget(r) /\ Tells(Target, r)
        /\ r.m = [mouse EXCEPT !.held = @ \ {b}]
    BY <2>n, TargetIs, Releasing
  <2> HIDE DEF r
  <2>3. Told /\ mouse' = [mouse EXCEPT !.held = @ \ {b}]
    BY <2>1, <2>2, TargetIs, ToldBy DEF MouseUp
  <2>4. /\ mouse' \in Resting /\ mouse'.held = mouse.held \ {b}
        /\ mouse'.x = mouse.x /\ mouse'.delta = mouse.delta
    BY <1>2, <2>3 DEF MouseInv, Resting
  <2>5. /\ far'.mask \subseteq MOUSE_BUTTONS
        /\ ~open' => far' = Nothing
        /\ far' # Nothing => far'.mask = mouse'.held
    BY <2>3, <2>4, ToldIsSeen DEF MouseUp
  <2> QED
    BY <2>1, <2>3, <2>4, <2>5 DEF MouseUp, MouseInv
<1> QED
  BY <1>1, <1>2

(* mouseout, of the pointer's own movement or of the element's. *)
LEMMA Left ==
  ASSUME MouseInv, NEW t, IsTarget(t), t.m = mouse, t.sent = far, t.z = size',
         Becomes(out(reset(t))), open' = open
  PROVE  /\ Told
         /\ mouse' \in Resting /\ mouse'.held = {}
         /\ mouse'.x = mouse.x /\ mouse'.delta = mouse.delta
         /\ far'.mask \subseteq MOUSE_BUTTONS
         /\ ~open' => far' = Nothing
         /\ far' # Nothing => far'.mask = mouse'.held
<1> DEFINE r == reset(t)
<1>1. Becomes(r)
  BY DEF out, dispatch, Heard
<1>2. /\ IsTarget(r) /\ Tells(t, r)
      /\ r.m = [mouse EXCEPT !.held = {}]
  BY Resetting
<1> HIDE DEF r
<1>3. Told /\ mouse' = [mouse EXCEPT !.held = {}]
  BY <1>1, <1>2, ToldBy
<1>4. /\ mouse' \in Resting /\ mouse'.held = {}
      /\ mouse'.x = mouse.x /\ mouse'.delta = mouse.delta
  BY <1>3 DEF MouseInv, Resting
<1> QED
  BY <1>3, <1>4, ToldIsSeen

LEMMA OutKeeps ==
  ASSUME MouseInv, NEW p \in Pointers, MouseOut(p)
  PROVE  MouseInv' /\ Told
<1>1. /\ Told
      /\ mouse' \in Resting /\ mouse'.held = {}
      /\ mouse'.x = mouse.x /\ mouse'.delta = mouse.delta
      /\ far'.mask \subseteq MOUSE_BUTTONS
      /\ ~open' => far' = Nothing
      /\ far' # Nothing => far'.mask = mouse'.held
  BY TargetIs, Left DEF MouseOut
<1> QED
  BY <1>1 DEF MouseOut, MouseInv

LEMMA ResizeKeeps ==
  ASSUME MouseInv, NEW z \in [remote : RemoteWidths, window : WindowWidths], Resize(z)
  PROVE  MouseInv' /\ Told
<1>0. z \in [remote : Nat, window : Nat]
  BY MouseAssumption
<1>1. CASE Over(size, at) /\ ~Over(z, at)
  <2> DEFINE t == [Target EXCEPT !.z = z]
  <2>1. IsTarget(t) /\ t.m = mouse /\ t.sent = far /\ t.z = size'
    BY TargetIs DEF IsTarget, Resize
  <2>2. Becomes(out(reset(t))) /\ missed' = {}
    BY <1>1 DEF Resize
  <2> HIDE DEF t
  <2>3. /\ Told
        /\ mouse' \in Resting /\ mouse'.held = {}
        /\ mouse'.x = mouse.x /\ mouse'.delta = mouse.delta
        /\ far'.mask \subseteq MOUSE_BUTTONS
        /\ ~open' => far' = Nothing
        /\ far' # Nothing => far'.mask = mouse'.held
    BY <2>1, <2>2, Left DEF Resize
  <2> QED
    BY <1>0, <2>2, <2>3 DEF Resize, MouseInv
<1>2. CASE ~(Over(size, at) /\ ~Over(z, at))
  BY <1>0, <1>2 DEF Resize, MouseInv, Told
<1> QED
  BY <1>1, <1>2

LEMMA WheelKeeps ==
  ASSUME MouseInv, NEW e \in Turns, Wheel(e)
  PROVE  MouseInv' /\ Told /\ WheelTurnsOneWay'
<1> DEFINE sum    == mouse.delta + Scrolled(e)
           clicks == IF sum >= 0 THEN sum \div scrollThreshold
                     ELSE -((-sum) \div scrollThreshold)
           rest   == IF clicks = 0 THEN sum ELSE 0
           b      == IF clicks > 0 THEN "down" ELSE "up"
           t      == [Target EXCEPT !.m.delta = rest]
<1>1. /\ Becomes(IF clicks = 0 THEN t ELSE click(t, b))
      /\ turn' = [by |-> Scrolled(e), clicks |-> clicks]
      /\ UNCHANGED <<hand, missed, at, seen, size, open>>
  BY DEF Wheel
<1>2. Scrolled(e) \in Int
  <2>1. e[1] \in {0, 1, 2} /\ e[2] \in Int
    BY MouseAssumption
  <2> QED
    BY <2>1 DEF Scrolled, PIXELS_PER_LINE, PIXELS_PER_PAGE
<1>3. /\ clicks \in Int /\ rest \in Int
      /\ -scrollThreshold < rest /\ rest < scrollThreshold
      /\ clicks > 0 => Scrolled(e) > 0 /\ (clicks - 1) * scrollThreshold < Scrolled(e)
      /\ clicks < 0 => Scrolled(e) < 0 /\ (1 + clicks) * scrollThreshold > Scrolled(e)
  <2>1. mouse.delta \in Int /\ -53 < mouse.delta /\ mouse.delta < 53
    BY DEF MouseInv, Resting, scrollThreshold
  <2> QED
    BY <1>2, <2>1 DEF scrollThreshold
<1> HIDE DEF sum, clicks, rest
<1>4. WheelTurnsOneWay'
  BY <1>1, <1>3 DEF WheelTurnsOneWay
<1>5. /\ IsTarget(t) /\ t.sent = far /\ t.z = size'
      /\ t.m = [mouse EXCEPT !.delta = rest]
  <2>1. /\ t = [m |-> t.m, sent |-> t.sent, z |-> t.z] /\ t.sent = far /\ t.z = size
        /\ t.m = [mouse EXCEPT !.delta = rest]
    BY DEF Target
  <2>2. t.m \in Mice
    BY <1>3, <2>1, TargetIs DEF IsTarget, Mice
  <2> QED
    BY <1>1, <2>1, <2>2 DEF IsTarget
<1>6. b \in Names /\ b \notin MOUSE_BUTTONS
  BY DEF Names, MOUSE_BUTTONS
<1> HIDE DEF b, t
<1>7. t.m \in Resting /\ t.m.held = mouse.held
  BY <1>3, <1>5 DEF MouseInv, Resting
<1>8. \E r : /\ Becomes(r) /\ IsTarget(r) /\ Tells(t, r) /\ r.m = t.m
  <2>1. CASE clicks = 0
    BY <1>1, <1>5, <2>1 DEF Tells
  <2>2. CASE clicks # 0
    <3> DEFINE p == press(t, b)
               q == release(p, b)
    <3>1. Becomes(q)
      BY <1>1, <2>2 DEF click
    <3>2. IsTarget(p) /\ Tells(t, p) /\ p.m = [t.m EXCEPT !.held = @ \cup {b}]
      BY <1>5, <1>6, Pressing
    <3>3. IsTarget(q) /\ Tells(p, q) /\ q.m = [p.m EXCEPT !.held = @ \ {b}]
      BY <1>6, <3>2, Releasing
    <3> HIDE DEF p, q
    <3>4. Tells(t, q)
      BY <3>2, <3>3, TellsOn
    <3>5. q.m = t.m
      <4>1. b \notin t.m.held
        BY <1>6, <1>7 DEF Resting
      <4>2. (t.m.held \cup {b}) \ {b} = t.m.held
        BY <4>1
      <4>3. q.m.held = t.m.held /\ q.m.x = t.m.x /\ q.m.ignore = t.m.ignore /\ q.m.delta = t.m.delta
        BY <1>7, <3>2, <3>3, <4>2 DEF Resting
      <4>4. q.m \in Mice /\ t.m \in Mice
        BY <1>5, <3>3 DEF IsTarget
      <4> QED
        BY <4>3, <4>4 DEF Mice
    <3> QED
      BY <3>1, <3>3, <3>4, <3>5
  <2> QED
    BY <2>1, <2>2
<1>9. Told /\ mouse' = t.m
  BY <1>5, <1>7, <1>8, ToldBy
<1>10. /\ mouse' \in Resting /\ mouse'.held = mouse.held /\ mouse'.x = mouse.x
       /\ mouse'.delta = rest
  BY <1>5, <1>7, <1>9 DEF Resting
<1>11. /\ far'.mask \subseteq MOUSE_BUTTONS
       /\ ~open' => far' = Nothing
       /\ far' # Nothing => far'.mask = mouse'.held
  BY <1>1, <1>9, <1>10, ToldIsSeen
<1> QED
  BY <1>1, <1>3, <1>4, <1>9, <1>10, <1>11 DEF MouseInv

LEMMA TouchKeeps ==
  ASSUME MouseInv, ignorePendingMouseEvents
  PROVE  MouseInv' /\ Told
<1>1. mouse' = [mouse EXCEPT !.ignore = touchMouseThreshold] /\ far' = far
  BY DEF ignorePendingMouseEvents, Becomes, Target
<1>2. /\ mouse' \in Resting /\ mouse'.held = mouse.held /\ mouse'.x = mouse.x
      /\ mouse'.delta = mouse.delta
  BY <1>1 DEF MouseInv, Resting, touchMouseThreshold
<1> QED
  BY <1>1, <1>2 DEF ignorePendingMouseEvents, MouseInv, Told

-----------------------------------------------------------------------------
(* All events *)

(* Only a wheel event turns the wheel. *)
LEMMA WheelStill ==
  ASSUME turn' = NoTurn
  PROVE  WheelTurnsOneWay'
  BY DEF NoTurn, WheelTurnsOneWay

LEMMA MouseStep ==
  ASSUME MouseInv, WheelTurnsOneWay, MouseNext \/ Opens
  PROVE  MouseInv' /\ WheelTurnsOneWay' /\ Told
<1>1. ASSUME NEW p \in Pointers, MouseMove(p)
      PROVE  MouseInv' /\ WheelTurnsOneWay' /\ Told
  BY <1>1, MoveKeeps, WheelStill DEF MouseMove
<1>2. ASSUME NEW p \in Pointers, MouseOut(p)
      PROVE  MouseInv' /\ WheelTurnsOneWay' /\ Told
  BY <1>2, OutKeeps, WheelStill DEF MouseOut
<1>3. ASSUME NEW p \in Pointers, MoveElsewhere(p)
      PROVE  MouseInv' /\ WheelTurnsOneWay' /\ Told
  BY <1>3, WheelStill DEF MoveElsewhere, MouseInv, Told
<1>4. ASSUME NEW b \in Buttons, MouseDown(b)
      PROVE  MouseInv' /\ WheelTurnsOneWay' /\ Told
  BY <1>4, DownKeeps, WheelStill DEF MouseDown
<1>5. ASSUME NEW b \in Buttons, MouseUp(b)
      PROVE  MouseInv' /\ WheelTurnsOneWay' /\ Told
  BY <1>5, UpKeeps, WheelStill DEF MouseUp
<1>6. ASSUME NEW b \in Buttons, ButtonElsewhere(b)
      PROVE  MouseInv' /\ WheelTurnsOneWay' /\ Told
  BY <1>6, WheelStill DEF ButtonElsewhere, MouseInv, Told
<1>7. ASSUME NEW e \in Turns, Wheel(e)
      PROVE  MouseInv' /\ WheelTurnsOneWay' /\ Told
  BY <1>7, WheelKeeps
<1>8. ASSUME ignorePendingMouseEvents
      PROVE  MouseInv' /\ WheelTurnsOneWay' /\ Told
  BY <1>8, TouchKeeps, WheelStill DEF ignorePendingMouseEvents
<1>9. ASSUME Opens
      PROVE  MouseInv' /\ WheelTurnsOneWay' /\ Told
  BY <1>9, WheelStill DEF Opens, TunnelOpens, MouseInv, Told
<1>10. ASSUME NEW z \in [remote : RemoteWidths, window : WindowWidths], Resize(z)
       PROVE  MouseInv' /\ WheelTurnsOneWay' /\ Told
  BY <1>10, ResizeKeeps, WheelStill DEF Resize
<1> QED
  BY <1>1, <1>2, <1>3, <1>4, <1>5, <1>6, <1>7, <1>8, <1>9, <1>10 DEF MouseNext

(* A step of the page is one of the mouse, opens the tunnel, or leaves both  *)
(* alone.                                                                    *)
LEMMA MouseOrNot ==
  ASSUME [InputNext]_<<vars, mouseVars>>
  PROVE  MouseNext \/ Opens \/ UNCHANGED mouseVars
  BY DEF InputNext

LEMMA MouseInvariant == InputSpec => [](MouseInv /\ WheelTurnsOneWay)
<1>1. InputInit => MouseInv /\ WheelTurnsOneWay
  <2>1. MouseInit => WheelTurnsOneWay
    BY DEF MouseInit, WheelTurnsOneWay, NoTurn
  <2> QED
    BY <2>1, MouseStarts DEF InputInit
<1>2. (MouseInv /\ WheelTurnsOneWay) /\ [InputNext]_<<vars, mouseVars>>
        => (MouseInv /\ WheelTurnsOneWay)'
  <2> SUFFICES ASSUME MouseInv, WheelTurnsOneWay, [InputNext]_<<vars, mouseVars>>
               PROVE  MouseInv' /\ WheelTurnsOneWay'
    OBVIOUS
  <2>1. CASE UNCHANGED mouseVars
    BY <2>1 DEF mouseVars, MouseInv, WheelTurnsOneWay
  <2> QED
    BY <2>1, MouseOrNot, MouseStep
<1> QED
  BY <1>1, <1>2, PTL DEF InputSpec

(* Every variable of the mouse has its type, no scroll button stays held and *)
(* the wheel's rest is less than a click.                                    *)
THEOREM MouseTypeCorrect == InputSpec => []MouseTypeOK
<1>1. MouseInv => MouseTypeOK
  BY DEF MouseInv, Resting, MouseTypeOK
<1> QED
  BY <1>1, MouseInvariant, PTL

(* The remote host was told of exactly the buttons the mouse takes to be     *)
(* pressed: no path through press, release, click or reset leaves a change   *)
(* of a button unsent (sendMouseState).                                      *)
THEOREM ButtonsAreSent == InputSpec => []RemoteSeesButtons
<1>1. MouseInv => RemoteSeesButtons
  BY DEF MouseInv, RemoteSeesButtons
<1> QED
  BY <1>1, MouseInvariant, PTL

(* No button stays pressed that the user does not hold, but for one whose    *)
(* mouseup was ignored after a touch (mouseup, mouseout).                    *)
THEOREM NoButtonStays == InputSpec => []NoButtonLeftHeld
<1>1. MouseInv => NoButtonLeftHeld
  BY DEF MouseInv, NoButtonLeftHeld
<1> QED
  BY <1>1, MouseInvariant, PTL

(* A wheel event never clicks against its own direction, nor more than one   *)
(* click beyond what it scrolled itself (mousewheel_handler).                *)
THEOREM WheelFollowsHand == InputSpec => []WheelTurnsOneWay
  BY MouseInvariant, PTL

(* A button goes down on the remote host on the pixel under the pointer,     *)
(* once a movement to that place was handled (mousedown, fit,                *)
(* sendMouseState), at every scale of the display.                           *)
THEOREM PressesAreInPlace == InputSpec => PressIsWhereItPoints
<1> DEFINE A == far'.mask \ far.mask # {} /\ seen'
                  => far'.x = ToRemote(size', fromClientPosition(size', at'))
<1>1. MouseInv /\ WheelTurnsOneWay /\ (MouseInv /\ WheelTurnsOneWay)'
        /\ [InputNext]_<<vars, mouseVars>> => [A]_mouseVars
  <2> SUFFICES ASSUME MouseInv, WheelTurnsOneWay, MouseInv', MouseNext \/ Opens,
                      far'.mask \ far.mask # {}, seen'
               PROVE  far'.x = ToRemote(size', fromClientPosition(size', at'))
    BY MouseOrNot
  <2>1. Told
    BY MouseStep
  <2>2. far' = [mask |-> mouse'.held, x |-> ToRemote(size', mouse'.x)]
    BY <2>1 DEF Told
  <2>3. mouse'.x = fromClientPosition(size', at')
    BY DEF MouseInv
  <2> QED
    BY <2>2, <2>3
<1> QED
  BY <1>1, MouseInvariant, PTL DEF InputSpec, PressIsWhereItPoints
=============================================================================
