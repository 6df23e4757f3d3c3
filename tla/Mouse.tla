------------------------------- MODULE Mouse -------------------------------
(***************************************************************************)
(* Guacamole.Mouse of engine/internal/rac/static/guacamole-common.js, the  *)
(* listener the remote access page hangs on it (rac/client.go) and what    *)
(* Client.sendMouseState makes of it.  The browser dispatches mouse events *)
(* to the display's element only while the pointer is over it, so buttons  *)
(* may be pressed and let go unseen; after a touch a few mouse events are  *)
(* ignored, because the browser makes them up; and the display is scaled   *)
(* to fit the window, so a position has to be scaled back.                 *)
(*                                                                         *)
(* One dimension stands for both.  The element is centred in the window,   *)
(* and scaled down when the remote display is wider than the window.  The  *)
(* record mouse holds the object's state:                                  *)
(*   held, x   currentState: the pressed buttons, the position             *)
(*   ignore    ignore_mouse        delta   scroll_delta                    *)
(***************************************************************************)
EXTENDS Integers, PageTunnel

CONSTANTS
    Buttons,          \* the buttons of the user's mouse
    Turns,            \* wheel events: <<deltaMode, deltaY>>
    Pointers,         \* where the pointer may be, relative to the window
    RemoteWidths,     \* widths the remote display may have
    WindowWidths      \* widths the window may have

ASSUME MouseAssumption ==
    /\ Pointers \subseteq Int /\ Pointers # {}
    /\ Turns \subseteq {0, 1, 2} \X Int
    /\ RemoteWidths \subseteq Nat /\ WindowWidths \subseteq Nat

VARIABLES
    mouse,    \* the Guacamole.Mouse object
    far,      \* what the last "mouse" instruction sent said, if any was sent
    hand,     \* the buttons the user is holding
    missed,   \* those whose mouseup was ignored
    at,       \* where the pointer is
    seen,     \* whether the mousemove that brought it there was handled
    size,     \* the remote display's width and the window's
    turn      \* how far the wheel was turned just now, and the clicks made of it

mouseVars == <<mouse, far, hand, missed, at, seen, size, open, turn>>

Nothing == [mask |-> {}, x |-> -1]
NoTurn == [by |-> 0, clicks |-> 0]

scrollThreshold == 53
touchMouseThreshold == 3
PIXELS_PER_LINE == 18
PIXELS_PER_PAGE == PIXELS_PER_LINE * 16

\* A button that has no name, as the ones at the side, is not passed on.
MOUSE_BUTTONS == {"left", "middle", "right"}

\* Guacamole.Mouse.State.Buttons, in the order a loop takes them.
StateButtons == <<"left", "middle", "right", "up", "down">>

-----------------------------------------------------------------------------
(* The display's scale *)

\* fit: the display is scaled down to the window, never up.  Before it has a
\* size nothing is shown.
Shown(z) == IF z.window < z.remote THEN z.window ELSE z.remote

\* Guacamole.Position.fromClientPosition: relative to the element.
fromClientPosition(z, p) == p - (z.window - Shown(z)) \div 2

\* The browser dispatches the pointer's events to the element.
Over(z, p) == fromClientPosition(z, p) \in 0 .. Shown(z) - 1

\* Math.floor(x / display.getScale())
ToRemote(z, x) == (x * z.remote) \div Shown(z)

-----------------------------------------------------------------------------
(* Guacamole.Mouse.Event.Target.  A target t is the mouse, what has been     *)
(* sent of it, and the display's sizes.                                      *)

(* Mutant: the position is not scaled back. *)
sendMouseStateUnscaled(t) ==
    IF open THEN [t EXCEPT !.sent = [mask |-> t.m.held, x |-> t.m.x]]
    ELSE t

\* sendMouseState sends the whole state and not what has changed.  The tunnel
\* drops it when it is not open.
sendMouseState(t) ==
    IF open THEN [t EXCEPT !.sent = [mask |-> t.m.held, x |-> ToRemote(t.z, t.m.x)]]
    ELSE t

\* The events the page has a listener for (mouse.onEach).
Heard == {"mousedown", "mouseup", "mousemove"}

dispatch(type, t) == IF type \in Heard THEN sendMouseState(t) ELSE t

press(t, b) == IF b \in t.m.held THEN t
               ELSE dispatch("mousedown", [t EXCEPT !.m.held = @ \cup {b}])

release(t, b) == IF b \notin t.m.held THEN t
                 ELSE dispatch("mouseup", [t EXCEPT !.m.held = @ \ {b}])

click(t, b) == release(press(t, b), b)

move(t, x) == IF t.m.x = x THEN t
              ELSE dispatch("mousemove", [t EXCEPT !.m.x = x])

out(t) == dispatch("mouseout", t)

(* Mutant: the buttons are forgotten, and nobody is told. *)
resetQuietly(t) == [t EXCEPT !.m.held = {}]

\* reset releases one button after the other.
reset(t) ==
    LET b == StateButtons
    IN  release(release(release(release(release(t, b[1]), b[2]), b[3]), b[4]), b[5])

Target == [m |-> mouse, sent |-> far, z |-> size]

Becomes(t) == mouse' = t.m /\ far' = t.sent

-----------------------------------------------------------------------------
(* Listeners of the element *)

MouseInit ==
    /\ mouse = [held |-> {}, x |-> 0, ignore |-> 0, delta |-> 0]
    /\ far = Nothing
    /\ hand = {} /\ missed = {}
    /\ at = CHOOSE p \in Pointers : TRUE
    /\ seen = FALSE
    /\ size \in [remote : {0}, window : WindowWidths]
    /\ open = FALSE
    /\ turn = NoTurn

\* mousemove
MouseMove(p) ==
    /\ Over(size, p)
    /\ at' = p
    /\ IF mouse.ignore > 0
       THEN Becomes([Target EXCEPT !.m.ignore = @ - 1]) /\ seen' = FALSE
       ELSE Becomes(move(Target, fromClientPosition(size, p))) /\ seen' = TRUE
    /\ turn' = NoTurn
    /\ UNCHANGED <<hand, missed, size, open>>

\* mousedown
MouseDown(b) ==
    /\ Over(size, at) /\ b \notin hand
    /\ hand' = hand \cup {b}
    /\ IF mouse.ignore > 0 \/ b \notin MOUSE_BUTTONS
       THEN UNCHANGED <<mouse, far, missed>>
       ELSE Becomes(press(Target, b)) /\ missed' = missed \ {b}
    /\ turn' = NoTurn
    /\ UNCHANGED <<at, seen, size, open>>

\* mouseup
MouseUp(b) ==
    /\ Over(size, at) /\ b \in hand
    /\ hand' = hand \ {b}
    /\ IF mouse.ignore > 0 \/ b \notin MOUSE_BUTTONS
       THEN missed' = missed \cup ({b} \cap mouse.held) /\ UNCHANGED <<mouse, far>>
       ELSE Becomes(release(Target, b)) /\ missed' = missed \ {b}
    /\ turn' = NoTurn
    /\ UNCHANGED <<at, seen, size, open>>

(* Mutant: leaving the element releases nothing. *)
MouseOutKeeps(p) ==
    /\ Over(size, at) /\ ~Over(size, p)
    /\ at' = p /\ seen' = FALSE
    /\ turn' = NoTurn
    /\ UNCHANGED <<mouse, far, hand, missed, size, open>>

\* mouseout, to somewhere that is not inside the element
MouseOut(p) ==
    /\ Over(size, at) /\ ~Over(size, p)
    /\ at' = p /\ seen' = FALSE
    /\ Becomes(out(reset(Target))) /\ missed' = {}
    /\ turn' = NoTurn
    /\ UNCHANGED <<hand, size, open>>

\* touchstart, touchmove and touchend
ignorePendingMouseEvents ==
    /\ Becomes([Target EXCEPT !.m.ignore = touchMouseThreshold])
    /\ turn' = NoTurn
    /\ UNCHANGED <<hand, missed, at, seen, size, open>>

\* How far a wheel event scrolls, in pixels.
Scrolled(e) == CASE e[1] = 0 -> e[2]
                 [] e[1] = 1 -> e[2] * PIXELS_PER_LINE
                 [] e[1] = 2 -> e[2] * PIXELS_PER_PAGE

\* mousewheel_handler.  Every threshold's worth is a click of the button "up"
\* or "down"; what is left after a click is dropped, what never made one adds
\* up.  Wheel events are not ignored after a touch.
Wheel(e) ==
    LET sum    == mouse.delta + Scrolled(e)
        clicks == IF sum >= 0 THEN sum \div scrollThreshold
                  ELSE -((-sum) \div scrollThreshold)
        b      == IF clicks > 0 THEN "down" ELSE "up"
        t      == [Target EXCEPT !.m.delta = IF clicks = 0 THEN sum ELSE 0]
    IN  /\ Over(size, at)
        /\ Becomes(IF clicks = 0 THEN t ELSE click(t, b))
        /\ turn' = [by |-> Scrolled(e), clicks |-> clicks]
        /\ UNCHANGED <<hand, missed, at, seen, size, open>>

-----------------------------------------------------------------------------
(* What goes on around the element *)

\* The pointer moves, and a button is pressed or let go, where the element
\* does not see it.
MoveElsewhere(p) ==
    /\ ~Over(size, at) /\ ~Over(size, p)
    /\ at' = p
    /\ turn' = NoTurn
    /\ UNCHANGED <<mouse, far, hand, missed, seen, size, open>>

ButtonElsewhere(b) ==
    /\ ~Over(size, at)
    /\ hand' = IF b \in hand THEN hand \ {b} ELSE hand \cup {b}
    /\ turn' = NoTurn
    /\ UNCHANGED <<mouse, far, missed, at, seen, size, open>>

\* The remote host changes the size of its display, or the user that of the
\* window: fit scales the display anew.  The element changes its place under
\* the pointer, or leaves it with a mouseout.
Resize(z) ==
    /\ z # size /\ size' = z
    /\ seen' = FALSE
    /\ IF Over(size, at) /\ ~Over(z, at)
       THEN Becomes(out(reset([Target EXCEPT !.z = z]))) /\ missed' = {}
       ELSE UNCHANGED <<mouse, far, missed>>
    /\ turn' = NoTurn
    /\ UNCHANGED <<hand, at, open>>

MouseNext ==
    \/ \E p \in Pointers : MouseMove(p) \/ MouseOut(p) \/ MoveElsewhere(p)
    \/ \E b \in Buttons : MouseDown(b) \/ MouseUp(b) \/ ButtonElsewhere(b)
    \/ \E e \in Turns : Wheel(e)
    \/ ignorePendingMouseEvents
    \/ \E z \in [remote : RemoteWidths, window : WindowWidths] : Resize(z)

-----------------------------------------------------------------------------
(* Properties *)

(* Every variable has its type; between two events no scroll button is held, *)
(* and what the wheel has left over is less than a click.                    *)
MouseTypeOK ==
    /\ mouse.held \subseteq MOUSE_BUTTONS
    /\ mouse.x \in Nat /\ mouse.ignore \in 0..touchMouseThreshold
    /\ -scrollThreshold < mouse.delta /\ mouse.delta < scrollThreshold
    /\ far.mask \subseteq MOUSE_BUTTONS
    /\ hand \subseteq Buttons /\ missed \subseteq mouse.held
    /\ at \in Pointers
    /\ {seen, open} \subseteq BOOLEAN

(* Once anything was sent, the remote host has been told of exactly the      *)
(* buttons the mouse takes to be pressed: sendMouseState sends the whole     *)
(* state, so what was lost before the tunnel opened is made up for, and no   *)
(* change of a button is left unsent.                                        *)
RemoteSeesButtons == far # Nothing => far.mask = mouse.held

(* No button stays pressed that the user does not hold, though they may let  *)
(* go of it outside the element or after the element has moved away.  One    *)
(* exception: its mouseup came within the few events ignored after a touch.  *)
NoButtonLeftHeld == mouse.held \subseteq hand \cup missed

(* A button that goes down on the remote host goes down on the pixel under   *)
(* the user's pointer, whatever the scale of the display was when the        *)
(* pointer came there, unless that movement was ignored or the display has   *)
(* changed its size under the pointer since.                                 *)
PressIsWhereItPoints ==
    [][far'.mask \ far.mask # {} /\ seen'
         => far'.x = ToRemote(size', fromClientPosition(size', at'))]_mouseVars

(* A wheel event never makes clicks against its own direction, although what *)
(* earlier events left over is added to it, and never more than one click    *)
(* beyond the distance it scrolled itself (mousewheel_handler).              *)
WheelTurnsOneWay ==
    /\ turn.clicks > 0 => turn.by > 0 /\ (turn.clicks - 1) * scrollThreshold < turn.by
    /\ turn.clicks < 0 => turn.by < 0 /\ (1 + turn.clicks) * scrollThreshold > turn.by

=============================================================================
