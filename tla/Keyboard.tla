------------------------------ MODULE Keyboard ------------------------------
(***************************************************************************)
(* Guacamole.Keyboard of engine/internal/rac/static/guacamole-common.js    *)
(* and the two listeners the remote access page hangs on it                *)
(* (rac/client.go: onkeydown/onkeyup send to the remote host, "blur"       *)
(* resets).  The browser hands the keyboard keydown, keypress and keyup    *)
(* events one at a time; the keyboard must guess from them which X11       *)
(* keysyms to press and release on the remote host.  An event it cannot    *)
(* interpret yet waits in eventLog for the next one.                       *)
(*                                                                         *)
(* A key is named for the physical key; a keysym is a string.  One handler *)
(* of the code runs to its end before the next event, so every handler is  *)
(* one action; the state it threads through its calls is the record kb:    *)
(*   log        eventLog                                                   *)
(*   pressed    pressed            implicit   implicitlyPressed            *)
(*   modifiers  modifiers (flags)  recent     recentKeysym                 *)
(*   repeat     key_repeat_timeout / key_repeat_interval: the key they     *)
(*              were set for, and whether the timeout has fired            *)
(*   prevented  defaultPrevented of the event interpreted last; it only    *)
(*              matters inside a handler                                   *)
(*   remote     what the remote host has been told is held: the effect of  *)
(*              the calls of onkeydown and onkeyup the tunnel passed on    *)
(***************************************************************************)
EXTENDS Naturals, Sequences, FiniteSets, PageTunnel

CONSTANTS
    Boards,      \* the keyboards the user may have: sets of physical keys
    Platforms,   \* the platforms navigator.platform may name
    MaxHeld      \* how many keys the user holds at once

AllKeys == {"letter", "symbol", "dead", "shift", "rshift", "ctrl", "alt",
            "meta", "caps"}

ASSUME BoardsAssumption == Boards \subseteq SUBSET AllKeys
ASSUME PlatformsAssumption == Platforms \subseteq {"other", "mac", "ios", "chromeos", "legacy"}

VARIABLES
    kb,        \* the Guacamole.Keyboard object
    board,     \* the keys of the user's keyboard
    platform,  \* navigator.platform: decides the quirks
    phys,      \* the keys the user is holding down
    silent,    \* those of them whose last keydown came while Meta was held
    due,       \* the key whose keypress the browser still has to dispatch
    focused,   \* whether the page's window has the focus
    shadowed,  \* a key was given a second keysym before its first was released,
               \* or the left Shift was pressed though it is not held
    early      \* the keysyms pressed since before the tunnel opened

env == <<board, platform, phys, silent, due, focused>>
vars == <<kb, env, shadowed, early>>

None == "none"

-----------------------------------------------------------------------------
(* Keysyms *)

Modifiers == {"alt", "shift", "ctrl", "meta", "hyper"}

\* The keysyms syncModifierStates associates with each modifier flag.
Syms(m) == CASE m = "alt"   -> {"Alt_L", "Alt_R", "AltGr"}
             [] m = "shift" -> {"Shift_L", "Shift_R"}
             [] m = "ctrl"  -> {"Ctrl_L", "Ctrl_R"}
             [] m = "meta"  -> {"Meta_L", "Meta_R"}
             [] m = "hyper" -> {"Super_L", "Super_R"}

\* keysyms[0] of each of those lists: the one pressed for a bare flag.
First(m) == CASE m = "alt"   -> "Alt_L"
              [] m = "shift" -> "Shift_L"
              [] m = "ctrl"  -> "Ctrl_L"
              [] m = "meta"  -> "Meta_L"
              [] m = "hyper" -> "Super_L"

MetaSyms == Syms("meta")
Letters == {"a", "A"}
Printable == Letters \cup {"@", "e'"}
Keysyms == Printable \cup {"Caps_Lock"} \cup UNION {Syms(m) : m \in Modifiers}

\* Modifier keys do not repeat.
no_repeat == {"Caps_Lock"} \cup UNION {Syms(m) : m \in Modifiers}

(* What the browser reports of a key.  Its key is what DOM3 calls it or the  *)
(* character it types; an old browser has a keyIdentifier instead, which for *)
(* a key that types is a code point that it may just have copied from the    *)
(* keyCode.                                                                  *)

legacy == platform = "legacy"

CodeOf(c) == CASE c = "letter" -> 65
               [] c = "symbol" -> 186
               [] c = "dead"   -> 221
               [] c \in {"shift", "rshift"} -> 16
               [] c = "ctrl"   -> 17
               [] c = "alt"    -> 18
               [] c = "caps"   -> 20
               [] c = "meta"   -> 91

Codes == {CodeOf(c) : c \in AllKeys}

LocationOf(c) == CASE c \in {"shift", "ctrl", "alt", "meta"} -> 1
                   [] c = "rshift" -> 2
                   [] OTHER -> 0

\* The character a key types.
Typed(c, mods) == CASE c = "letter" -> IF "shift" \in mods THEN "A" ELSE "a"
                    [] c = "symbol" -> "@"
                    [] c = "dead"   -> "e'"
                    [] OTHER -> None

KeyOf(c, mods) == CASE legacy -> None
                    [] c \in {"letter", "symbol"} -> Typed(c, mods)
                    [] c = "dead" -> "Dead"
                    [] c \in {"shift", "rshift"} -> "Shift"
                    [] c = "ctrl" -> "Control"
                    [] c = "alt"  -> "Alt"
                    [] c = "meta" -> "Meta"
                    [] c = "caps" -> "CapsLock"

-----------------------------------------------------------------------------
(* From what the browser reports to a keysym *)

\* Keysyms by location: standard, left, right.
keycodeKeysyms ==
    [n \in {16, 17, 18, 20, 91} |->
        CASE n = 16 -> <<"Shift_L", "Shift_L", "Shift_R">>
          [] n = 17 -> <<"Ctrl_L", "Ctrl_L", "Ctrl_R">>
          [] n = 18 -> <<"Alt_L", "Alt_L", "AltGr">>
          [] n = 20 -> <<"Caps_Lock">>
          [] n = 91 -> <<"Meta_L">>]

keyidentifier_keysym ==
    [Shift    |-> <<"Shift_L", "Shift_L", "Shift_R">>,
     Control  |-> <<"Ctrl_L", "Ctrl_L", "Ctrl_R">>,
     Alt      |-> <<"Alt_L", "Alt_L", "AltGr">>,
     Meta     |-> <<"Meta_L", "Meta_L", "Meta_R">>,
     CapsLock |-> <<"Caps_Lock">>]

get_keysym(keysyms, location) ==
    IF location + 1 \in DOMAIN keysyms THEN keysyms[location + 1] ELSE keysyms[1]

keysym_from_keycode(n, location) ==
    IF n \in DOMAIN keycodeKeysyms THEN get_keysym(keycodeKeysyms[n], location)
    ELSE None

\* A single character is its own keysym.
keysym_from_key_identifier(key, location) ==
    IF key \in Printable THEN key
    ELSE IF key \in DOMAIN keyidentifier_keysym
         THEN get_keysym(keyidentifier_keysym[key], location)
    ELSE None

\* A keyIdentifier that equals the keyCode is only believed where the two are
\* the same by design, for letters and digits.  The characters of the other
\* keys here are ones it was copied for.
key_identifier_sane(n) == legacy /\ n \in 65..90

Either(a, b) == IF a # None THEN a ELSE b

\* The modifier flags the browser puts in an event while keys are held.
FlagsOf(held) ==
    {m \in {"alt", "shift", "ctrl", "meta"} :
        m \in held \/ (m = "shift" /\ "rshift" \in held)}

-----------------------------------------------------------------------------
(* The events the keyboard builds from what the browser dispatches *)

keyupUnreliable == platform = "ios"
altIsTypableOnly == platform = "mac"
capsLockKeyupUnreliable == platform = "mac"

KeydownEvent(c, mods) ==
    LET known == Either(keysym_from_key_identifier(KeyOf(c, mods), LocationOf(c)),
                        keysym_from_keycode(CodeOf(c), LocationOf(c)))
        sym == IF known = None /\ key_identifier_sane(CodeOf(c))
               THEN Typed(c, mods) ELSE known
        wanted == \/ "ctrl" \in mods /\ "alt" \notin mods
                  \/ "alt" \in mods /\ "ctrl" \notin mods /\ ~altIsTypableOnly
                  \/ "meta" \in mods
                  \/ "hyper" \in mods
    IN [type |-> "keydown", code |-> CodeOf(c), keysym |-> sym, mods |-> mods,
        reliable |-> wanted \/ (known # None /\ known \notin Printable),
        keyupReliable |->
            /\ ~keyupUnreliable
            /\ "meta" \in mods => sym \in MetaSyms
            /\ ~(capsLockKeyupUnreliable /\ sym = "Caps_Lock")]

KeypressEvent(c, mods) ==
    [type |-> "keypress", code |-> CodeOf(c), keysym |-> Typed(c, mods),
     mods |-> mods, reliable |-> TRUE, keyupReliable |-> TRUE]

\* The keyCode comes first for a keyup.
KeyupInferred(c, mods) ==
    Either(keysym_from_keycode(CodeOf(c), LocationOf(c)),
           keysym_from_key_identifier(KeyOf(c, mods), LocationOf(c)))

(* Mutant: a keyup always trusts the keysym it infers. *)
KeyupEventInferred(k, c, mods) ==
    [type |-> "keyup", code |-> CodeOf(c), mods |-> mods,
     keysym |-> KeyupInferred(c, mods), reliable |-> TRUE, keyupReliable |-> TRUE]

\* If the key it infers is not held, keyup takes the keysym last seen for
\* the keyCode instead.
KeyupEvent(k, c, mods) ==
    LET sym == KeyupInferred(c, mods)
    IN [type |-> "keyup", code |-> CodeOf(c), mods |-> mods,
        keysym |-> IF sym \in k.pressed THEN sym ELSE Either(k.recent[CodeOf(c)], sym),
        reliable |-> TRUE, keyupReliable |-> TRUE]

-----------------------------------------------------------------------------
(* press, release, reset *)

NoRepeat == [key |-> None, running |-> FALSE]

\* sendKeyEvent for each of a set of keysyms: what the host holds then.
sendKeyEvent(pressed, syms, told) ==
    IF ~open THEN told ELSE IF pressed THEN told \cup syms ELSE told \ syms

Press(k, sym) ==
    IF sym \in k.pressed THEN k
    ELSE [k EXCEPT !.pressed = @ \cup {sym},
                   !.remote = sendKeyEvent(TRUE, {sym}, @),
                   !.repeat = IF sym \in no_repeat THEN NoRepeat
                              ELSE [key |-> sym, running |-> FALSE]]

(* Mutant: releasing a key leaves its repeat timers running. *)
ReleaseKeepsRepeat(k, syms) ==
    LET held == syms \cap k.pressed
    IN [k EXCEPT !.pressed = @ \ held, !.implicit = @ \ held,
                 !.remote = sendKeyEvent(FALSE, held, @)]

\* release of each keysym of a set: only a held key is released, and
\* releasing one stops whatever repeat is set.
Release(k, syms) ==
    LET held == syms \cap k.pressed
    IN IF held = {} THEN k
       ELSE [k EXCEPT !.pressed = @ \ held, !.implicit = @ \ held,
                      !.remote = sendKeyEvent(FALSE, held, @), !.repeat = NoRepeat]

Reset(k) == [Release(k, k.pressed) EXCEPT !.log = <<>>]

-----------------------------------------------------------------------------
(* Modifier synchronisation *)

\* updateModifierState for every modifier.  The event is not trusted about
\* the modifier its own key belongs to.  A flag that was set and is not any
\* more releases the modifier's keys; a flag that was not set and now is
\* presses the first of them unless one is held, and marks it as inferred if
\* the event is about some key.
syncModifierStates(k, e) ==
    LET others == {m \in Modifiers : e.keysym \notin Syms(m)}
        gone  == {m \in others : m \in k.modifiers /\ m \notin e.mods}
        fresh == {m \in others : /\ m \notin k.modifiers /\ m \in e.mods
                                 /\ Syms(m) \cap k.pressed = {}}
        down  == {First(m) : m \in fresh}
        up    == Release(k, UNION {Syms(m) : m \in gone})
    IN [up EXCEPT
          !.pressed = @ \cup down, !.remote = sendKeyEvent(TRUE, down, @),
          !.implicit = IF e.keysym # None THEN @ \cup down ELSE @,
          !.repeat = IF down # {} THEN NoRepeat ELSE @,
          !.modifiers = e.mods]

\* Ctrl+Alt with a printable character other than a letter is AltGr typed
\* the Windows way: the remote host must not see the Ctrl and the Alt.
release_simulated_altgr(k, sym) ==
    IF {"ctrl", "alt"} \subseteq k.modifiers /\ sym \in Printable \ Letters
    THEN Release(k, {"Ctrl_L", "Ctrl_R", "Alt_L", "Alt_R"})
    ELSE k

-----------------------------------------------------------------------------
(* Interpreting the log *)

\* Take the first n events off the log, their default action prevented or not.
Drop(k, n, prevented) ==
    [k EXCEPT !.log = SubSeq(@, n + 1, Len(@)), !.prevented = prevented]

\* What the event after the first one in the log is, None if there is none.
Second(k) == IF Len(k.log) > 1 THEN k.log[2].type ELSE None

\* A Meta keydown waits until the next event shows whether it is a modifier.
MetaWaits(k) == k.log[1].keysym \in MetaSyms /\ Len(k.log) = 1

\* It is dropped if the next event shows it is not, or repeats it.
MetaDropped(k) ==
    /\ k.log[1].keysym \in MetaSyms
    /\ IF k.log[2].keysym # k.log[1].keysym
       THEN "meta" \notin k.log[2].mods
       ELSE k.log[2].type = "keydown"

\* Press the key of the keydown at the head of the log, n events being used.
Accept(k, sym, n) ==
    LET e == k.log[1]
        synced == syncModifierStates(Drop(k, n, sym # None), e)
        down == Press(release_simulated_altgr(synced, sym), sym)
        noted == [down EXCEPT !.recent[e.code] = sym]
    IN IF sym = None THEN synced
       ELSE IF e.keyupReliable THEN noted ELSE Release(noted, {sym})

InterpretKeydown(k) ==
    LET e == k.log[1]
    IN IF MetaWaits(k) THEN k
       ELSE IF MetaDropped(k) THEN Drop(k, 1, FALSE)
       ELSE IF e.reliable THEN Accept(k, e.keysym, 1)
       ELSE IF Second(k) = "keypress" THEN Accept(k, k.log[2].keysym, 2)
       ELSE IF Second(k) # None THEN Accept(k, e.keysym, 1)
       ELSE k

\* A keyup of a key nothing is known about releases everything.
InterpretKeyup(k) ==
    LET e == k.log[1]
        up == [Release(k, {e.keysym}) EXCEPT !.recent[e.code] = None]
    IN IF keyupUnreliable THEN Drop(k, 1, FALSE)
       ELSE IF e.keysym = None THEN Reset(k)
       ELSE Drop(syncModifierStates(up, e), 1, TRUE)

\* interpret_event: the log is one event shorter at least, or unchanged if
\* its first event cannot be interpreted yet.
interpret_event(k) ==
    IF k.log = <<>> THEN k
    ELSE CASE k.log[1].type = "keydown"  -> InterpretKeydown(k)
           [] k.log[1].type = "keyup"    -> InterpretKeyup(k)
           [] k.log[1].type = "keypress" -> Drop(k, 1, FALSE)

isStateImplicit(k) == k.pressed \subseteq k.implicit

(* Mutant: one event is interpreted per event received. *)
interpret_one_event(k) ==
    LET one == interpret_event(k)
    IN IF one # k /\ isStateImplicit(one) THEN Reset(one) ELSE one

\* interpret_events: interpret while possible.  A log of two events is
\* interpreted in two rounds; TypeOK shows it never needs more.
interpret_events(k) ==
    LET one == interpret_event(k)
        two == interpret_event(one)
    IN IF one = k THEN k
       ELSE IF isStateImplicit(two) THEN Reset(two) ELSE two

\* eventLog.push, and interpret_events on the result.
Handle(k, e) == interpret_events([k EXCEPT !.log = Append(@, e)])

\* Between handlers nobody looks at defaultPrevented any more.
Done(k) == [k EXCEPT !.prevented = FALSE]

-----------------------------------------------------------------------------
(* The browser's events *)

Init ==
    /\ kb = [log |-> <<>>, pressed |-> {}, implicit |-> {}, modifiers |-> {},
             recent |-> [n \in Codes |-> None], repeat |-> NoRepeat,
             prevented |-> FALSE, remote |-> {}]
    /\ board \in Boards
    /\ platform \in Platforms
    /\ phys = {} /\ silent = {}
    /\ due = None
    /\ focused = TRUE
    /\ shadowed = FALSE /\ early = {}

\* A keysym was given up for another while it was still held.
Shadows(before, after) ==
    \E n \in Codes : /\ before.recent[n] \in before.pressed \cap after.pressed
                     /\ before.recent[n] \in Printable
                     /\ after.recent[n] # before.recent[n]

\* The left Shift was pressed for the flag of an event without a keysym though
\* the user does not hold it, but the right one or, by now, none: no keyup
\* releases it, nor is it marked as inferred.
Guesses(held, before, after) ==
    /\ "shift" \notin held
    /\ "Shift_L" \in after.pressed \ (before.pressed \cup after.implicit)

\* The user presses a key, or holds it so long that it repeats.  A ChromeOS
\* browser may clear the meta flag of a key that Meta turned into another.
KeyDown(c, rewritten) ==
    /\ focused
    /\ Cardinality(phys \cup {c}) <= MaxHeld
    /\ rewritten => platform = "chromeos" /\ "meta" \in phys /\ c # "meta"
    /\ LET mods == FlagsOf(phys \cup {c}) \ (IF rewritten THEN {"meta"} ELSE {})
           e == KeydownEvent(c, mods)
           k == Handle([kb EXCEPT !.recent[e.code] = e.keysym], e)
       IN /\ kb' = Done(k)
          /\ due' = IF ~k.prevented /\ Typed(c, mods) # None
                    THEN c ELSE None
          /\ silent' = IF "meta" \in mods /\ c # "meta" /\ platform # "chromeos"
                       THEN silent \cup {c} ELSE silent \ {c}
    /\ phys' = phys \cup {c}
    /\ shadowed' = (shadowed \/ Shadows(kb, kb') \/ Guesses(phys', kb, kb'))
    /\ early' = early \cap kb'.pressed
    /\ UNCHANGED <<board, platform, focused>>

\* The keypress that follows a keydown the page let through.
KeyPress ==
    /\ focused /\ due # None
    /\ kb' = Done(Handle(kb, KeypressEvent(due, FlagsOf(phys))))
    /\ due' = None
    /\ shadowed' = (shadowed \/ Shadows(kb, kb') \/ Guesses(phys, kb, kb'))
    /\ early' = early \cap kb'.pressed
    /\ UNCHANGED <<board, platform, phys, silent, focused>>

KeyUp(c) ==
    /\ focused /\ c \in phys
    /\ phys' = phys \ {c}
    /\ silent' = silent \ {c}
    /\ due' = None
    /\ kb' = Done(Handle(kb, KeyupEvent(kb, c, FlagsOf(phys'))))
    /\ shadowed' = (shadowed \/ Guesses(phys', kb, kb'))
    /\ early' = early \cap kb'.pressed
    /\ UNCHANGED <<board, platform, focused>>

\* A keyup the browser does not dispatch: of a key pressed and released while
\* Meta is held, of Caps Lock on a Mac, of any key on iOS.
KeyUpLost(c) ==
    /\ focused /\ c \in phys
    /\ \/ c \in silent /\ "meta" \in phys
       \/ c = "caps" /\ platform = "mac"
       \/ platform = "ios"
    /\ phys' = phys \ {c}
    /\ silent' = silent \ {c}
    /\ due' = None
    /\ UNCHANGED <<kb, board, platform, focused, shadowed, early>>

\* The 500 ms timeout, then the 50 ms interval, of a key that is held.
RepeatStarts ==
    /\ kb.repeat.key # None /\ ~kb.repeat.running
    /\ kb' = [kb EXCEPT !.repeat.running = TRUE]
    /\ UNCHANGED <<env, shadowed, early>>

RepeatTicks ==
    /\ kb.repeat.running
    /\ kb' = [kb EXCEPT !.remote = sendKeyEvent(TRUE, {kb.repeat.key},
                                        sendKeyEvent(FALSE, {kb.repeat.key}, @))]
    /\ UNCHANGED <<env, shadowed, early>>

\* The window loses the focus: the page resets the keyboard, and what the
\* user does with the keys goes unseen until the focus is back.
Blur ==
    /\ focused
    /\ focused' = FALSE
    /\ kb' = Reset(kb)
    /\ early' = {}
    /\ due' = None
    /\ UNCHANGED <<board, platform, phys, silent, shadowed>>

KeyElsewhere(c) ==
    /\ ~focused
    /\ IF c \in phys THEN phys' = phys \ {c} ELSE phys' = phys \cup {c}
    /\ Cardinality(phys') <= MaxHeld
    /\ silent' = silent \ {c}
    /\ UNCHANGED <<kb, board, platform, due, focused, shadowed, early>>

Focus ==
    /\ ~focused
    /\ focused' = TRUE
    /\ UNCHANGED <<kb, board, platform, phys, silent, due, shadowed, early>>

Next ==
    \/ \E c \in board, rewritten \in BOOLEAN : KeyDown(c, rewritten)
    \/ KeyPress
    \/ \E c \in board : KeyUp(c) \/ KeyUpLost(c) \/ KeyElsewhere(c)
    \/ RepeatStarts \/ RepeatTicks
    \/ Blur \/ Focus

-----------------------------------------------------------------------------
(* Properties *)

(* Every variable has its type, and only held keys are marked as inferred    *)
(* (implicitlyPressed).  interpret_events stops only when the log cannot be  *)
(* interpreted: at most one event is left between two handlers, and one that *)
(* could be acted on never waits for the user's next key.                    *)
TypeOK ==
    /\ kb.pressed \subseteq Keysyms /\ kb.implicit \subseteq kb.pressed
    /\ early \subseteq kb.pressed
    /\ kb.modifiers \subseteq Modifiers
    /\ kb.recent \in [Codes -> Keysyms \cup {None}]
    /\ kb.repeat.key \in Keysyms \cup {None}
    /\ Len(kb.log) <= 1 /\ ~kb.prevented /\ interpret_event(kb) = kb
    /\ board \in Boards /\ platform \in Platforms
    /\ phys \subseteq board /\ silent \subseteq phys
    /\ due \in board \cup {None}
    /\ focused \in BOOLEAN /\ shadowed \in BOOLEAN

\* What the remote host believes is held is held: no timer of a key that was
\* let go, and no reset, ever tells it something press and release did not
\* record.  And once the tunnel is open it knows of every key that is held,
\* but for those held since before: sendKeyEvent has dropped their press and
\* is not called again until they repeat or are let go.
RemoteHoldsWhatIsPressed ==
    /\ kb.remote \subseteq kb.pressed
    /\ open => kb.pressed \ kb.remote \subseteq early

\* A modifier that was only inferred is never all that is held: no keyup
\* would ever release it (isStateImplicit, reset).
InferredNeverAlone == kb.pressed \subseteq kb.implicit => kb.pressed = {}

\* When the user holds no key, the remote host holds none, although browsers
\* lose keyups, change the character of a key between its keydown and its
\* keyup, and report modifiers that were pressed elsewhere.  Three exceptions
\* the code does not cover: a key that auto-repeats with another character,
\* the left Shift pressed for a key that has no keysym, where the user holds
\* the right one, or has let go the left one after the right one was let go
\* unseen (both are shadowed), and on iOS a modifier whose keyup is not
\* trusted.  Inferred modifiers go too.
NoKeyLeftHeld ==
    /\ phys = {} =>
          IF platform = "ios" THEN kb.remote \cap Printable = {}
          ELSE shadowed \/ kb.remote = {}
    /\ InferredNeverAlone
=============================================================================
