-------------------------- MODULE KeyboardProofs --------------------------
(***************************************************************************)
(* The keyboard of the remote access page, for every set of keyboards and  *)
(* platforms and any number of keys held at a time.  A lemma for each of   *)
(* press, release, reset, syncModifierStates and interpret_event says that *)
(* the remote host was told what the keyboard records; a handler is those, *)
(* and the invariant follows action by action.                             *)
(***************************************************************************)
EXTENDS PageInput, SequenceTheorems, TLAPS

(* An event in the log, and a keyboard. *)
Events == [type : {"keydown", "keypress", "keyup"}, code : Codes,
           keysym : Keysyms \cup {None}, mods : SUBSET Modifiers,
           reliable : BOOLEAN, keyupReliable : BOOLEAN]

Keyboards == [log : Seq(Events), pressed : SUBSET Keysyms, implicit : SUBSET Keysyms,
              modifiers : SUBSET Modifiers, recent : [Codes -> Keysyms \cup {None}],
              repeat : [key : Keysyms \cup {None}, running : BOOLEAN],
              prevented : BOOLEAN, remote : SUBSET Keysyms]

(* What the remote host takes to be held, r, against what is held, p: none   *)
(* that is not held, and all once the tunnel is open, but for those held     *)
(* since before; nothing until then.                                         *)
Told(r, p) ==
    /\ r \subseteq p
    /\ IF open THEN p \ r \subseteq early ELSE r = {}

(* The remote host was told what is held, only what is held is marked as     *)
(* inferred, and only a key that is held has repeat timers.                  *)
Agrees(k) ==
    /\ k \in Keyboards
    /\ Told(k.remote, k.pressed) /\ k.implicit \subseteq k.pressed
    /\ k.repeat = NoRepeat \/ k.repeat.key \in k.pressed

(* The keys of a modifier have keysyms. *)
LEMMA SymsAre == \A m \in Modifiers : Syms(m) \subseteq Keysyms /\ First(m) \in Syms(m)
<1>1. \A m \in Modifiers : Syms(m) \subseteq Keysyms
  BY DEF Keysyms
<1>2. \A m \in Modifiers : First(m) \in Syms(m)
  BY DEF Modifiers, First, Syms
<1> QED
  BY <1>1, <1>2

(* The keysyms that keys are mapped to. *)
LEMMA KeysymsAre ==
  /\ {"a", "A", "@", "e'", "Caps_Lock", "Shift_L", "Shift_R", "Ctrl_L", "Ctrl_R",
      "Alt_L", "AltGr", "Meta_L", "Meta_R"} \subseteq Keysyms
  /\ Printable \subseteq Keysyms
<1>1. /\ Syms("shift") \subseteq Keysyms /\ Syms("ctrl") \subseteq Keysyms
      /\ Syms("alt") \subseteq Keysyms /\ Syms("meta") \subseteq Keysyms
  BY SymsAre DEF Modifiers
<1>2. /\ Syms("shift") = {"Shift_L", "Shift_R"} /\ Syms("ctrl") = {"Ctrl_L", "Ctrl_R"}
      /\ Syms("alt") = {"Alt_L", "Alt_R", "AltGr"} /\ Syms("meta") = {"Meta_L", "Meta_R"}
  BY DEF Syms
<1>3. {"a", "A", "@", "e'", "Caps_Lock"} \subseteq Keysyms /\ Printable \subseteq Keysyms
  BY DEF Keysyms, Printable, Letters
<1> QED
  BY <1>1, <1>2, <1>3

(* From what the browser reports to a keysym. *)
LEMMA IdentifierKeysym ==
  ASSUME NEW key, NEW c \in AllKeys
  PROVE  keysym_from_key_identifier(key, LocationOf(c)) \in Keysyms \cup {None}
<1>1. LocationOf(c) \in {0, 1, 2}
  BY DEF LocationOf, AllKeys
<1>2. CASE key \in Printable
  BY <1>2, KeysymsAre DEF keysym_from_key_identifier
<1>3. CASE key \notin Printable /\ key \in DOMAIN keyidentifier_keysym
  <2>1. key \in {"Shift", "Control", "Alt", "Meta", "CapsLock"}
    BY <1>3 DEF keyidentifier_keysym
  <2>2. get_keysym(keyidentifier_keysym[key], LocationOf(c)) \in
          {"Shift_L", "Shift_R", "Ctrl_L", "Ctrl_R", "Alt_L", "AltGr", "Meta_L", "Meta_R", "Caps_Lock"}
    <3>1. CASE key = "CapsLock"
      BY <1>1, <3>1 DEF keyidentifier_keysym, get_keysym
    <3>2. CASE key = "Shift"
      BY <1>1, <3>2 DEF keyidentifier_keysym, get_keysym
    <3>3. CASE key = "Control"
      BY <1>1, <3>3 DEF keyidentifier_keysym, get_keysym
    <3>4. CASE key = "Alt"
      BY <1>1, <3>4 DEF keyidentifier_keysym, get_keysym
    <3>5. CASE key = "Meta"
      BY <1>1, <3>5 DEF keyidentifier_keysym, get_keysym
    <3> QED
      BY <2>1, <3>1, <3>2, <3>3, <3>4, <3>5
  <2> QED
    BY <1>3, <2>2, KeysymsAre DEF keysym_from_key_identifier
<1>4. CASE key \notin Printable /\ key \notin DOMAIN keyidentifier_keysym
  BY <1>4 DEF keysym_from_key_identifier
<1> QED
  BY <1>2, <1>3, <1>4

(* From a legacy key code to a keysym. *)
LEMMA KeycodeKeysym ==
  ASSUME NEW n, NEW c \in AllKeys
  PROVE  keysym_from_keycode(n, LocationOf(c)) \in Keysyms \cup {None}
<1>1. LocationOf(c) \in {0, 1, 2}
  BY DEF LocationOf, AllKeys
<1>2. CASE n \in {16, 17, 18, 20, 91}
  <2>1. get_keysym(keycodeKeysyms[n], LocationOf(c)) \in
          {"Shift_L", "Shift_R", "Ctrl_L", "Ctrl_R", "Alt_L", "AltGr", "Meta_L", "Caps_Lock"}
    <3>1. CASE n = 16
      BY <1>1, <3>1 DEF keycodeKeysyms, get_keysym
    <3>2. CASE n = 17
      BY <1>1, <3>2 DEF keycodeKeysyms, get_keysym
    <3>3. CASE n = 18
      BY <1>1, <3>3 DEF keycodeKeysyms, get_keysym
    <3>4. CASE n = 20
      BY <1>1, <3>4 DEF keycodeKeysyms, get_keysym
    <3>5. CASE n = 91
      BY <1>1, <3>5 DEF keycodeKeysyms, get_keysym
    <3> QED
      BY <1>2, <3>1, <3>2, <3>3, <3>4, <3>5
  <2>2. n \in DOMAIN keycodeKeysyms
    BY <1>2 DEF keycodeKeysyms
  <2> QED
    BY <2>1, <2>2, KeysymsAre DEF keysym_from_keycode
<1>3. CASE n \notin {16, 17, 18, 20, 91}
  <2>1. n \notin DOMAIN keycodeKeysyms
    BY <1>3 DEF keycodeKeysyms
  <2> QED
    BY <2>1 DEF keysym_from_keycode
<1> QED
  BY <1>2, <1>3

(* What a keypress says was typed is a keysym. *)
LEMMA TypedKeysym ==
  ASSUME NEW c, NEW mods
  PROVE  Typed(c, mods) \in Keysyms \cup {None}
  BY KeysymsAre DEF Typed

(* The flags of an event name modifiers. *)
LEMMA FlagsAreModifiers ==
  ASSUME NEW held
  PROVE  FlagsOf(held) \subseteq Modifiers
  BY DEF FlagsOf, Modifiers

(* The events the keyboard builds are well formed. *)
LEMMA EventsAre ==
  ASSUME NEW c \in AllKeys, NEW mods \in SUBSET Modifiers
  PROVE  /\ KeydownEvent(c, mods) \in Events
         /\ KeydownEvent(c, mods).type = "keydown"
         /\ KeypressEvent(c, mods) \in Events
         /\ \A k \in Keyboards : KeyupEvent(k, c, mods) \in Events
<1>1. CodeOf(c) \in Codes
  BY DEF Codes
<1> DEFINE fromKey == keysym_from_key_identifier(KeyOf(c, mods), LocationOf(c))
           fromCode == keysym_from_keycode(CodeOf(c), LocationOf(c))
<1>2. fromKey \in Keysyms \cup {None} /\ fromCode \in Keysyms \cup {None}
  BY IdentifierKeysym, KeycodeKeysym
<1>3. Typed(c, mods) \in Keysyms \cup {None}
  BY TypedKeysym
<1>4. KeydownEvent(c, mods) \in Events /\ KeydownEvent(c, mods).type = "keydown"
  <2> DEFINE known == Either(fromKey, fromCode)
  <2> DEFINE sym == IF known = None /\ key_identifier_sane(CodeOf(c)) THEN Typed(c, mods) ELSE known
             rel == KeydownEvent(c, mods).reliable
             krel == KeydownEvent(c, mods).keyupReliable
  <2>1. sym \in Keysyms \cup {None}
    BY <1>2, <1>3 DEF Either
  <2>2. rel \in BOOLEAN /\ krel \in BOOLEAN
    BY Zenon DEF KeydownEvent
  <2>3. KeydownEvent(c, mods) = [type |-> "keydown", code |-> CodeOf(c), keysym |-> sym,
                                 mods |-> mods, reliable |-> rel, keyupReliable |-> krel]
    BY Zenon DEF KeydownEvent
  <2> HIDE DEF sym, rel, krel
  <2> QED
    BY <1>1, <2>1, <2>2, <2>3 DEF Events
<1>5. KeypressEvent(c, mods) \in Events
  BY <1>1, <1>3 DEF KeypressEvent, Events
<1>6. ASSUME NEW k \in Keyboards
      PROVE  KeyupEvent(k, c, mods) \in Events
  <2> DEFINE sym == Either(fromCode, fromKey)
             got == IF sym \in k.pressed THEN sym ELSE Either(k.recent[CodeOf(c)], sym)
  <2>1. sym \in Keysyms \cup {None} /\ k.recent[CodeOf(c)] \in Keysyms \cup {None}
    BY <1>1, <1>2 DEF Either, Keyboards
  <2>2. got \in Keysyms \cup {None}
    BY <2>1 DEF Either
  <2>3. KeyupEvent(k, c, mods) = [type |-> "keyup", code |-> CodeOf(c), mods |-> mods,
                                  keysym |-> got, reliable |-> TRUE, keyupReliable |-> TRUE]
    BY Zenon DEF KeyupEvent, KeyupInferred
  <2> HIDE DEF got
  <2> QED
    BY <1>1, <2>2, <2>3 DEF Events
<1> QED
  BY <1>4, <1>5, <1>6

-----------------------------------------------------------------------------
(* press, release and reset *)

(* What is left of the log after its first n events is a log. *)
Rest(k, n) == SubSeq(k.log, n + 1, Len(k.log))

(* sendKeyEvent keeps the host in agreement, or does nothing. *)
LEMMA ToldSent ==
  ASSUME NEW p \in SUBSET Keysyms, NEW r, Told(r, p), NEW S
  PROVE  /\ Told(sendKeyEvent(FALSE, S, r), p \ S)
         /\ Told(sendKeyEvent(TRUE, S, r), p \cup S)
         /\ sendKeyEvent(FALSE, S, r) \subseteq p
         /\ sendKeyEvent(TRUE, S, r) \subseteq p \cup S
<1>1. CASE open
  BY <1>1 DEF Told, sendKeyEvent
<1>2. CASE ~open
  BY <1>2 DEF Told, sendKeyEvent
<1> QED
  BY <1>1, <1>2

(* release tells the host, and stops the timers. *)
LEMMA ReleaseAgrees ==
  ASSUME NEW k, Agrees(k), NEW S, NEW r, r = Release(k, S)
  PROVE  /\ Agrees(r) /\ r.log = k.log /\ r.recent = k.recent
         /\ r.pressed = k.pressed \ S
<1>1. CASE S \cap k.pressed = {}
  BY <1>1 DEF Release
<1>2. CASE S \cap k.pressed # {}
  <2> DEFINE held == S \cap k.pressed
  <2>1. r = [k EXCEPT !.pressed = @ \ held, !.implicit = @ \ held,
                      !.remote = sendKeyEvent(FALSE, held, @), !.repeat = NoRepeat]
    BY <1>2 DEF Release
  <2>2. /\ r.pressed = k.pressed \ held /\ r.implicit = k.implicit \ held
        /\ r.remote = sendKeyEvent(FALSE, held, k.remote) /\ r.repeat = NoRepeat
        /\ r.log = k.log /\ r.recent = k.recent
    BY <2>1 DEF Agrees, Keyboards
  <2>3. r \in Keyboards
    <3> DEFINE P == k.pressed \ held
               I == k.implicit \ held
               R == sendKeyEvent(FALSE, held, k.remote)
    <3>1. r = [k EXCEPT !.pressed = P, !.implicit = I, !.remote = R, !.repeat = NoRepeat]
      BY <2>1 DEF Agrees, Keyboards
    <3>2. P \in SUBSET Keysyms /\ I \in SUBSET Keysyms /\ R \in SUBSET Keysyms
      <4>1. k.pressed \in SUBSET Keysyms /\ k.implicit \in SUBSET Keysyms
        BY DEF Agrees, Keyboards
      <4>2. R \subseteq k.pressed
        BY <4>1, ToldSent DEF Agrees
      <4> HIDE DEF R
      <4> QED
        BY <4>1, <4>2
    <3>3. NoRepeat \in [key : Keysyms \cup {None}, running : BOOLEAN]
      BY DEF NoRepeat
    <3> HIDE DEF P, I, R
    <3> QED
      BY <3>1, <3>2, <3>3 DEF Agrees, Keyboards
  <2>4. Told(k.remote, k.pressed) /\ k.implicit \subseteq k.pressed
    BY DEF Agrees
  <2> HIDE DEF held
  <2>5. Told(r.remote, r.pressed) /\ r.implicit \subseteq r.pressed
    <3>1. k.pressed \in SUBSET Keysyms
      BY DEF Agrees, Keyboards
    <3>2. Told(sendKeyEvent(FALSE, held, k.remote), k.pressed \ held)
      BY <2>4, <3>1, ToldSent
    <3> QED
      BY <2>2, <2>4, <3>2
  <2>6. k.pressed \ held = k.pressed \ S
    BY DEF held
  <2> QED
    BY <2>2, <2>3, <2>5, <2>6 DEF Agrees
<1> QED
  BY <1>1, <1>2

(* press tells the host, and sets timers for the key it presses alone. *)
LEMMA PressAgrees ==
  ASSUME NEW k, Agrees(k), NEW sym \in Keysyms, NEW r, r = Press(k, sym)
  PROVE  Agrees(r) /\ r.log = k.log /\ r.recent = k.recent
<1>1. CASE sym \in k.pressed
  BY <1>1 DEF Press
<1>2. CASE sym \notin k.pressed
  <2> DEFINE rep == IF sym \in no_repeat THEN NoRepeat ELSE [key |-> sym, running |-> FALSE]
  <2>1. r = [k EXCEPT !.pressed = @ \cup {sym}, !.remote = sendKeyEvent(TRUE, {sym}, @),
                      !.repeat = rep]
    BY <1>2 DEF Press
  <2>2. /\ rep \in [key : Keysyms \cup {None}, running : BOOLEAN]
        /\ rep = NoRepeat \/ rep.key = sym
    BY DEF NoRepeat
  <2> HIDE DEF rep
  <2>3. /\ r.pressed = k.pressed \cup {sym} /\ r.implicit = k.implicit
        /\ r.remote = sendKeyEvent(TRUE, {sym}, k.remote) /\ r.repeat = rep
        /\ r.log = k.log /\ r.recent = k.recent
    BY <2>1 DEF Agrees, Keyboards
  <2>t. /\ Told(sendKeyEvent(TRUE, {sym}, k.remote), k.pressed \cup {sym})
        /\ sendKeyEvent(TRUE, {sym}, k.remote) \subseteq k.pressed \cup {sym}
    <3>1. k.pressed \in SUBSET Keysyms /\ Told(k.remote, k.pressed)
      BY DEF Agrees, Keyboards
    <3> QED
      BY <3>1, ToldSent
  <2>4. r \in Keyboards
    <3> DEFINE P == k.pressed \cup {sym}
               R == sendKeyEvent(TRUE, {sym}, k.remote)
    <3>1. r = [k EXCEPT !.pressed = P, !.remote = R, !.repeat = rep]
      BY <2>1 DEF Agrees, Keyboards
    <3>2. P \in SUBSET Keysyms /\ R \in SUBSET Keysyms
      <4>1. k.pressed \subseteq Keysyms
        BY DEF Agrees, Keyboards
      <4>2. R \subseteq P
        BY <2>t
      <4> HIDE DEF R
      <4> QED
        BY <4>1, <4>2
    <3> HIDE DEF P, R
    <3> QED
      BY <2>2, <3>1, <3>2 DEF Agrees, Keyboards
  <2> QED
    BY <2>2, <2>3, <2>t, <2>4 DEF Agrees
<1> QED
  BY <1>1, <1>2

(* reset lets go of everything. *)
LEMMA ResetAgrees ==
  ASSUME NEW k, Agrees(k), NEW r, r = Reset(k)
  PROVE  Agrees(r) /\ r.log = <<>> /\ r.pressed = {}
<1> DEFINE u == Release(k, k.pressed)
<1>1. Agrees(u) /\ u.pressed = {}
  BY ReleaseAgrees
<1>2. r = [u EXCEPT !.log = <<>>]
  BY DEF Reset
<1> HIDE DEF u
<1>3. /\ r.log = <<>> /\ r.pressed = u.pressed
      /\ r.remote = u.remote /\ r.implicit = u.implicit /\ r.repeat = u.repeat
  BY <1>1, <1>2 DEF Agrees, Keyboards
<1>4. <<>> \in Seq(Events)
  OBVIOUS
<1>5. r \in Keyboards
  BY <1>1, <1>2, <1>4 DEF Agrees, Keyboards
<1> QED
  BY <1>1, <1>3, <1>5 DEF Agrees

(* The log gets shorter, and nothing else changes. *)
LEMMA DropAgrees ==
  ASSUME NEW k, Agrees(k), NEW n \in 1..Len(k.log), NEW p \in BOOLEAN,
         NEW r, r = Drop(k, n, p)
  PROVE  Agrees(r) /\ r.log = Rest(k, n) /\ r.recent = k.recent
<1>1. k.log \in Seq(Events)
  BY DEF Agrees, Keyboards
<1>2. Rest(k, n) \in Seq(Events)
  BY <1>1 DEF Rest
<1>3. r = [k EXCEPT !.log = Rest(k, n), !.prevented = p]
  BY DEF Drop, Rest, Agrees, Keyboards
<1>4. /\ r \in Keyboards /\ r.log = Rest(k, n) /\ r.recent = k.recent
      /\ r.pressed = k.pressed
      /\ r.remote = k.remote /\ r.implicit = k.implicit /\ r.repeat = k.repeat
  BY <1>2, <1>3 DEF Agrees, Keyboards
<1> QED
  BY <1>4 DEF Agrees

(* syncModifierStates presses and releases as press and release do. *)
LEMMA SyncAgrees ==
  ASSUME NEW k, Agrees(k), NEW e \in Events, NEW r, r = syncModifierStates(k, e)
  PROVE  Agrees(r) /\ r.log = k.log /\ r.recent = k.recent
<1> DEFINE others == {m \in Modifiers : e.keysym \notin Syms(m)}
           gone  == {m \in others : m \in k.modifiers /\ m \notin e.mods}
           fresh == {m \in others : /\ m \notin k.modifiers /\ m \in e.mods
                                    /\ Syms(m) \cap k.pressed = {}}
           down  == {First(m) : m \in fresh}
           up    == Release(k, UNION {Syms(m) : m \in gone})
           rep   == IF down # {} THEN NoRepeat ELSE up.repeat
           imp   == IF e.keysym # None THEN up.implicit \cup down ELSE up.implicit
<1>1. down \subseteq Keysyms
  BY SymsAre
<1>2. Agrees(up) /\ up.log = k.log /\ up.recent = k.recent
  BY ReleaseAgrees
<1>3. r = [up EXCEPT !.pressed = @ \cup down, !.remote = sendKeyEvent(TRUE, down, @),
                     !.implicit = IF e.keysym # None THEN @ \cup down ELSE @,
                     !.repeat = IF down # {} THEN NoRepeat ELSE @,
                     !.modifiers = e.mods]
  BY Zenon DEF syncModifierStates
<1> HIDE DEF down, up
<1>4. e.mods \in SUBSET Modifiers
  BY DEF Events
<1>5. /\ rep \in [key : Keysyms \cup {None}, running : BOOLEAN]
      /\ rep = NoRepeat \/ rep = up.repeat
      /\ imp \in SUBSET Keysyms /\ imp \subseteq up.pressed \cup down
  BY <1>1, <1>2 DEF Agrees, Keyboards, NoRepeat
<1> DEFINE told == sendKeyEvent(TRUE, down, up.remote)
<1>t. Told(told, up.pressed \cup down) /\ told \subseteq up.pressed \cup down
  <2>1. up.pressed \in SUBSET Keysyms /\ Told(up.remote, up.pressed)
    BY <1>2 DEF Agrees, Keyboards
  <2> QED
    BY <2>1, ToldSent
<1>6. r = [up EXCEPT !.pressed = up.pressed \cup down, !.remote = told,
                     !.implicit = imp, !.repeat = rep, !.modifiers = e.mods]
  BY <1>2, <1>3 DEF Agrees, Keyboards
<1> HIDE DEF rep, imp, told
<1>7. /\ r.pressed = up.pressed \cup down /\ r.remote = told
      /\ r.implicit = imp /\ r.repeat = rep /\ r.log = up.log /\ r.recent = up.recent
  BY <1>2, <1>6 DEF Agrees, Keyboards
<1>8. r \in Keyboards
  <2>1. up \in Keyboards
    BY <1>2, Zenon DEF Agrees
  <2>2. up.pressed \cup down \in SUBSET Keysyms /\ told \in SUBSET Keysyms
    BY <1>1, <1>t, <2>1 DEF Keyboards
  <2> QED
    BY <1>4, <1>5, <1>6, <2>1, <2>2, ZenonT(30) DEF Keyboards
<1> QED
  BY <1>2, <1>5, <1>t, <1>7, <1>8 DEF Agrees

(* release_simulated_altgr only releases. *)
LEMMA AltgrAgrees ==
  ASSUME NEW k, Agrees(k), NEW sym, NEW r, r = release_simulated_altgr(k, sym)
  PROVE  Agrees(r) /\ r.log = k.log /\ r.recent = k.recent
  BY ReleaseAgrees DEF release_simulated_altgr

-----------------------------------------------------------------------------
(* Interpreting the log *)

(* A log that can wait: empty, or one keydown whose meaning the next event   *)
(* decides.                                                                  *)
Waiting(log) ==
    \/ log = <<>>
    \/ /\ Len(log) = 1 /\ log[1].type = "keydown"
       /\ log[1].keysym \in MetaSyms \/ ~log[1].reliable

(* A keydown is acted on: its events leave the log, its key is pressed. *)
LEMMA AcceptAgrees ==
  ASSUME NEW k, Agrees(k), NEW n \in 1..Len(k.log), NEW sym \in Keysyms \cup {None},
         NEW r, r = Accept(k, sym, n)
  PROVE  Agrees(r) /\ r.log = Rest(k, n)
<1> DEFINE e == k.log[1]
           d == Drop(k, n, sym # None)
           synced == syncModifierStates(d, e)
           alt == release_simulated_altgr(synced, sym)
           down == Press(alt, sym)
           noted == [down EXCEPT !.recent[e.code] = sym]
<1>1. e \in Events /\ e.code \in Codes
  <2>1. k.log \in Seq(Events) /\ 1 \in 1..Len(k.log)
    BY DEF Agrees, Keyboards
  <2>2. e \in Events
    BY <2>1
  <2> QED
    BY <2>2 DEF Events
<1>2. Agrees(d) /\ d.log = Rest(k, n)
  BY DropAgrees
<1>3. r = IF sym = None THEN synced
          ELSE IF e.keyupReliable THEN noted ELSE Release(noted, {sym})
  BY Zenon DEF Accept
<1> HIDE DEF e, d
<1>4. Agrees(synced) /\ synced.log = d.log
  BY <1>1, <1>2, SyncAgrees
<1>5. CASE sym = None
  BY <1>2, <1>3, <1>4, <1>5
<1>6. CASE sym # None
  <2> HIDE DEF synced
  <2>1. Agrees(alt) /\ alt.log = synced.log
    BY <1>4, AltgrAgrees
  <2> HIDE DEF alt
  <2>2. Agrees(down) /\ down.log = alt.log
    BY <1>6, <2>1, PressAgrees
  <2> HIDE DEF down
  <2>3. Agrees(noted) /\ noted.log = down.log
    <3> DEFINE rec == [down.recent EXCEPT ![e.code] = sym]
    <3>1. rec \in [Codes -> Keysyms \cup {None}]
      BY <1>1, <2>2 DEF Agrees, Keyboards
    <3>2. noted = [down EXCEPT !.recent = rec]
      BY <2>2 DEF Agrees, Keyboards
    <3> HIDE DEF rec, noted
    <3>3. /\ noted \in Keyboards /\ noted.log = down.log /\ noted.pressed = down.pressed
          /\ noted.remote = down.remote /\ noted.implicit = down.implicit
          /\ noted.repeat = down.repeat
      BY <2>2, <3>1, <3>2 DEF Agrees, Keyboards
    <3> QED
      BY <2>2, <3>3 DEF Agrees
  <2> HIDE DEF noted
  <2>4. Agrees(Release(noted, {sym})) /\ Release(noted, {sym}).log = noted.log
    BY <2>3, ReleaseAgrees
  <2> QED
    BY <1>2, <1>3, <1>4, <1>6, <2>1, <2>2, <2>3, <2>4
<1> QED
  BY <1>5, <1>6

(* Taking events off a log of at most two leaves at most one. *)
LEMMA RestShrinks ==
  ASSUME NEW k, k.log \in Seq(Events), Len(k.log) \in {1, 2}
  PROVE  /\ 1 \in 1..Len(k.log)
         /\ \A n \in 1..Len(k.log) : Rest(k, n) = <<>> \/ (Len(k.log) = 2 /\ Len(Rest(k, n)) = 1)
<1>1. 1 \in 1..Len(k.log)
  OBVIOUS
<1>2. ASSUME NEW n \in 1..Len(k.log), n = Len(k.log)
      PROVE  Rest(k, n) = <<>>
  BY <1>2, SubSeqEmpty DEF Rest
<1>3. ASSUME NEW n \in 1..Len(k.log), n # Len(k.log)
      PROVE  Len(k.log) = 2 /\ Len(Rest(k, n)) = 1
  <2>0. \A L \in {1, 2} : \A i \in 1..L : i # L => L = 2 /\ i = 1
    OBVIOUS
  <2>1. Len(k.log) = 2 /\ n = 1
    BY <1>3, <2>0, Zenon
  <2>2. \A i \in 2..2 : k.log[i] \in Events
    BY <2>1
  <2>3. Len(SubSeq(k.log, 2, 2)) = IF 2 <= 2 THEN 2 - 2 + 1 ELSE 0
    BY <2>2, SubSeqProperties
  <2>4. Rest(k, n) = SubSeq(k.log, 2, 2)
    BY <2>1 DEF Rest
  <2> QED
    BY <2>1, <2>3, <2>4
<1> QED
  BY <1>1, <1>2, <1>3

(* interpret_event on a log of one or two events: it is left alone if it can *)
(* wait, and otherwise loses its first event at least.                       *)
LEMMA InterpretAgrees ==
  ASSUME NEW k, Agrees(k), Len(k.log) \in {1, 2}, NEW r, r = interpret_event(k)
  PROVE  /\ Agrees(r)
         /\ \/ r = k /\ Waiting(k.log)
            \/ r.log = <<>>
            \/ Len(k.log) = 2 /\ Len(r.log) = 1
<1> DEFINE e == k.log[1]
<1>1. k.log \in Seq(Events) /\ k.log # <<>>
  <2>1. k.log \in Seq(Events)
    BY DEF Agrees, Keyboards
  <2>2. k.log = <<>> => Len(k.log) = 0
    OBVIOUS
  <2>3. 0 \notin {1, 2}
    OBVIOUS
  <2> QED
    BY <2>1, <2>2, <2>3, Zenon
<1>2. e \in Events
  BY <1>1
<1>3. /\ 1 \in 1..Len(k.log)
      /\ \A n \in 1..Len(k.log) : Rest(k, n) = <<>> \/ (Len(k.log) = 2 /\ Len(Rest(k, n)) = 1)
  BY <1>1, RestShrinks
<1>s. Len(k.log) = 2 => k.log[2] \in Events
  BY <1>1
<1>d. ASSUME r = Drop(k, 1, FALSE)
      PROVE  Agrees(r) /\ r.log = Rest(k, 1)
  BY <1>3, <1>d, DropAgrees
<1>4. CASE e.type = "keypress"
  <2>1. r = Drop(k, 1, FALSE)
    BY <1>1, <1>4 DEF interpret_event
  <2> QED
    BY <1>3, <1>d, <2>1
<1>5. CASE e.type = "keyup"
  <2>1. r = InterpretKeyup(k)
    BY <1>1, <1>5 DEF interpret_event
  <2>2. CASE keyupUnreliable
    <3>1. r = Drop(k, 1, FALSE)
      BY <2>1, <2>2 DEF InterpretKeyup
    <3> QED
      BY <1>3, <1>d, <3>1
  <2>3. CASE ~keyupUnreliable /\ e.keysym = None
    <3>1. r = Reset(k)
      BY <2>1, <2>3 DEF InterpretKeyup
    <3> QED
      BY <3>1, ResetAgrees
  <2>4. CASE ~keyupUnreliable /\ e.keysym # None
    <3> DEFINE u == Release(k, {e.keysym})
               up == [u EXCEPT !.recent[e.code] = None]
               v == syncModifierStates(up, e)
    <3>1. r = Drop(v, 1, TRUE)
      BY <2>1, <2>4 DEF InterpretKeyup
    <3>2. Agrees(u) /\ u.log = k.log
      BY ReleaseAgrees
    <3> HIDE DEF u
    <3>3. Agrees(up) /\ up.log = u.log
      <4> DEFINE rec == [u.recent EXCEPT ![e.code] = None]
      <4>1. rec \in [Codes -> Keysyms \cup {None}]
        BY <1>2, <3>2 DEF Agrees, Keyboards, Events
      <4>2. up = [u EXCEPT !.recent = rec]
        BY <3>2 DEF Agrees, Keyboards
      <4> HIDE DEF rec, up
      <4>3. /\ up \in Keyboards /\ up.log = u.log /\ up.pressed = u.pressed
            /\ up.remote = u.remote /\ up.implicit = u.implicit
            /\ up.repeat = u.repeat
        BY <3>2, <4>1, <4>2 DEF Agrees, Keyboards
      <4> QED
        BY <3>2, <4>3 DEF Agrees
    <3> HIDE DEF up
    <3>4. Agrees(v) /\ v.log = up.log
      BY <1>2, <3>3, SyncAgrees
    <3> HIDE DEF v, e
    <3>5. Agrees(r) /\ r.log = Rest(v, 1)
      <4>1. 1 \in 1..Len(v.log)
        BY <1>3, <3>2, <3>3, <3>4
      <4> QED
        BY <3>1, <3>4, <4>1, DropAgrees
    <3>6. Rest(v, 1) = Rest(k, 1)
      BY <3>2, <3>3, <3>4 DEF Rest
    <3> QED
      BY <1>3, <3>5, <3>6
  <2> QED
    BY <2>2, <2>3, <2>4
<1>6. CASE e.type = "keydown"
  <2>1. r = InterpretKeydown(k)
    BY <1>1, <1>6 DEF interpret_event
  <2>2. CASE r = k /\ Len(k.log) = 1 /\ (e.keysym \in MetaSyms \/ ~e.reliable)
    BY <1>6, <2>2 DEF Waiting
  <2>3. CASE r = Drop(k, 1, FALSE)
    BY <1>3, <1>d, <2>3
  <2>4. CASE r = Accept(k, e.keysym, 1)
    <3>1. e.keysym \in Keysyms \cup {None}
      BY <1>2 DEF Events
    <3>2. Agrees(r) /\ r.log = Rest(k, 1)
      BY <1>3, <2>4, <3>1, AcceptAgrees
    <3> QED
      BY <1>3, <3>2
  <2>5. CASE r = Accept(k, k.log[2].keysym, 2) /\ Len(k.log) = 2
    <3>1. k.log[2].keysym \in Keysyms \cup {None}
      BY <1>s, <2>5 DEF Events
    <3>2. 2 \in 1..Len(k.log)
      BY <2>5
    <3>3. Agrees(r) /\ r.log = Rest(k, 2)
      BY <2>5, <3>1, <3>2, AcceptAgrees
    <3> QED
      BY <1>3, <3>2, <3>3
  <2>6. \/ r = k /\ Len(k.log) = 1 /\ (e.keysym \in MetaSyms \/ ~e.reliable)
        \/ r = Drop(k, 1, FALSE)
        \/ r = Accept(k, e.keysym, 1)
        \/ r = Accept(k, k.log[2].keysym, 2) /\ Len(k.log) = 2
    <3>1. Len(k.log) = 2 => Second(k) \in {"keydown", "keypress", "keyup"}
      BY <1>s DEF Second, Events
    <3>2. Len(k.log) = 1 => Second(k) = None
      BY DEF Second
    <3> QED
      BY <2>1, <3>1, <3>2 DEF InterpretKeydown, MetaWaits, None
  <2> QED
    BY <2>2, <2>3, <2>4, <2>5, <2>6
<1> QED
  BY <1>2, <1>4, <1>5, <1>6 DEF Events

(* A log that can wait is left alone. *)
LEMMA WaitingWaits ==
  ASSUME NEW k, Agrees(k), Waiting(k.log)
  PROVE  interpret_event(k) = k
<1>1. CASE k.log = <<>>
  BY <1>1 DEF interpret_event
<1>2. CASE k.log # <<>>
  <2>1. /\ Len(k.log) = 1 /\ k.log[1].type = "keydown"
        /\ k.log[1].keysym \in MetaSyms \/ ~k.log[1].reliable
    BY <1>2 DEF Waiting
  <2>2. interpret_event(k) = InterpretKeydown(k)
    BY <1>2, <2>1 DEF interpret_event
  <2> QED
    BY <2>1, <2>2 DEF InterpretKeydown, MetaWaits, MetaDropped, Second, None
<1> QED
  BY <1>1, <1>2

(* A handler: the event is appended and the log interpreted as far as it can *)
(* be; inferred modifiers do not stay behind alone.                          *)
LEMMA HandleAgrees ==
  ASSUME NEW k, Agrees(k), Waiting(k.log), NEW e \in Events, NEW r, r = Handle(k, e)
  PROVE  /\ Agrees(r) /\ Waiting(r.log)
         /\ \/ r.pressed = k.pressed /\ r.implicit = k.implicit
            \/ (r.pressed \subseteq r.implicit => r.pressed = {})
<1> DEFINE u == [k EXCEPT !.log = Append(@, e)]
           one == interpret_event(u)
           two == interpret_event(one)
<1>1. /\ Agrees(u) /\ Len(u.log) \in {1, 2}
      /\ u.pressed = k.pressed /\ u.implicit = k.implicit
  <2>1. k.log \in Seq(Events) /\ Len(k.log) \in {0, 1}
    BY DEF Agrees, Keyboards, Waiting
  <2> DEFINE l == Append(k.log, e)
  <2>2. l \in Seq(Events) /\ Len(l) = Len(k.log) + 1
    BY <2>1
  <2>3. u = [k EXCEPT !.log = l]
    BY DEF Agrees, Keyboards
  <2> HIDE DEF l, u
  <2>4. /\ u \in Keyboards /\ u.log = l /\ u.pressed = k.pressed
        /\ u.remote = k.remote /\ u.implicit = k.implicit /\ u.repeat = k.repeat
    BY <2>2, <2>3 DEF Agrees, Keyboards
  <2>5. Len(u.log) \in {1, 2}
    <3>1. \A n \in {0, 1} : n + 1 \in {1, 2}
      OBVIOUS
    <3>2. Len(u.log) = Len(k.log) + 1
      BY <2>2, <2>4, Zenon
    <3> QED
      BY <2>1, <3>1, <3>2, Zenon
  <2> QED
    BY <2>4, <2>5 DEF Agrees
<1>2. r = IF one = u THEN u ELSE IF isStateImplicit(two) THEN Reset(two) ELSE two
  BY DEF Handle, interpret_events
<1> HIDE DEF u
<1>3. /\ Agrees(one)
      /\ \/ one = u /\ Waiting(u.log)
         \/ one.log = <<>>
         \/ Len(u.log) = 2 /\ Len(one.log) = 1
  BY <1>1, InterpretAgrees
<1>4. u.log # <<>>
  <2>1. Len(<<>>) = 0
    OBVIOUS
  <2>2. 0 \notin {1, 2}
    OBVIOUS
  <2> QED
    BY <1>1, <2>1, <2>2, Zenon
<1>5. CASE one = u
  <2>1. Waiting(u.log)
    <3>1. ~(Len(u.log) = 2 /\ Len(one.log) = 1)
      BY <1>5
    <3> QED
      BY <1>3, <1>4, <1>5, <3>1, Zenon
  <2>2. r = u
    BY <1>2, <1>5, Zenon
  <2> QED
    BY <1>1, <2>1, <2>2, Zenon
<1>6. CASE one # u
  <2> HIDE DEF one
  <2>1. Agrees(two) /\ Waiting(two.log)
    <3>1. CASE one.log = <<>>
      <4>1. two = one
        BY <3>1 DEF interpret_event
      <4> QED
        BY <1>3, <3>1, <4>1 DEF Waiting
    <3>2. CASE Len(one.log) = 1
      <4>1. /\ Agrees(two)
            /\ \/ two = one /\ Waiting(one.log)
               \/ two.log = <<>>
               \/ Len(one.log) = 2 /\ Len(two.log) = 1
        BY <1>3, <3>2, InterpretAgrees
      <4> QED
        BY <3>2, <4>1 DEF Waiting
    <3> QED
      BY <1>3, <1>6, <3>1, <3>2
  <2> HIDE DEF two
  <2>2. CASE isStateImplicit(two)
    <3>1. Agrees(Reset(two)) /\ Reset(two).log = <<>> /\ Reset(two).pressed = {}
      BY <2>1, ResetAgrees
    <3> QED
      BY <1>2, <1>6, <2>2, <3>1 DEF Waiting
  <2>3. CASE ~isStateImplicit(two)
    <3>1. r = two
      BY <1>2, <1>6, <2>3, Zenon
    <3>2. ~(two.pressed \subseteq two.implicit)
      BY <2>3, Zenon DEF isStateImplicit
    <3> QED
      BY <2>1, <3>1, <3>2, Zenon
  <2> QED
    BY <2>2, <2>3
<1> QED
  BY <1>5, <1>6

-----------------------------------------------------------------------------
(* The invariant of the keyboard *)

(* Between two handlers: the log can wait, and what is held was not only     *)
(* inferred.                                                                 *)
KeyInv ==
    /\ Agrees(kb) /\ Waiting(kb.log) /\ kb.prevented = FALSE
    /\ early \subseteq kb.pressed
    /\ kb.pressed \subseteq kb.implicit => kb.pressed = {}
    /\ board \in Boards /\ platform \in Platforms
    /\ phys \subseteq board /\ silent \subseteq phys
    /\ due \in board \cup {None}
    /\ focused \in BOOLEAN /\ shadowed \in BOOLEAN

(* It holds when the page is loaded. *)
LEMMA KeyStarts == InputInit => KeyInv
<1> SUFFICES ASSUME InputInit PROVE KeyInv
  OBVIOUS
<1> DEFINE rec == [n \in Codes |-> None]
<1>1. /\ <<>> \in Seq(Events) /\ rec \in [Codes -> Keysyms \cup {None}]
      /\ NoRepeat \in [key : Keysyms \cup {None}, running : BOOLEAN]
  BY DEF NoRepeat
<1>2. kb = [log |-> <<>>, pressed |-> {}, implicit |-> {}, modifiers |-> {},
            recent |-> rec, repeat |-> NoRepeat, prevented |-> FALSE, remote |-> {}]
  BY DEF InputInit, Init
<1> HIDE DEF rec
<1>3. Agrees(kb) /\ Waiting(kb.log)
  BY <1>1, <1>2 DEF Agrees, Keyboards, Waiting, Told
<1>4. kb.pressed = {} /\ kb.prevented = FALSE
  BY <1>2
<1> QED
  BY <1>3, <1>4, Zenon DEF InputInit, Init, KeyInv

(* What a handler leaves behind, once defaultPrevented is forgotten. *)
LEMMA DoneAgrees ==
  ASSUME NEW k, Agrees(k), Waiting(k.log), k.pressed \subseteq k.implicit => k.pressed = {},
         NEW e \in Events, kb' = Done(Handle(k, e))
  PROVE  /\ Agrees(kb') /\ Waiting(kb'.log) /\ kb'.prevented = FALSE
         /\ kb'.pressed \subseteq kb'.implicit => kb'.pressed = {}
<1> DEFINE r == Handle(k, e)
<1>1. /\ Agrees(r) /\ Waiting(r.log)
      /\ \/ r.pressed = k.pressed /\ r.implicit = k.implicit
         \/ (r.pressed \subseteq r.implicit => r.pressed = {})
  BY HandleAgrees
<1>2. kb' = [r EXCEPT !.prevented = FALSE]
  BY DEF Done
<1> HIDE DEF r
<1>3. /\ kb' \in Keyboards /\ kb'.log = r.log /\ kb'.pressed = r.pressed
      /\ kb'.remote = r.remote /\ kb'.implicit = r.implicit /\ kb'.repeat = r.repeat
      /\ kb'.prevented = FALSE
  BY <1>1, <1>2 DEF Agrees, Keyboards
<1>4. Agrees(kb') /\ Waiting(kb'.log)
  BY <1>1, <1>3 DEF Agrees
<1>5. kb'.pressed \subseteq kb'.implicit => kb'.pressed = {}
  BY <1>1, <1>3
<1> QED
  BY <1>3, <1>4, <1>5

(* The keys held since before the tunnel opened are fewer after a handler. *)
LEMMA AgreesStill ==
  ASSUME Agrees(kb'), open' = open, early \cap kb'.pressed \subseteq early'
  PROVE  Agrees(kb)'
<1>1. Told(kb'.remote, kb'.pressed)
  BY DEF Agrees
<1>2. Told(kb.remote, kb.pressed)'
  BY <1>1 DEF Told
<1> QED
  BY <1>2 DEF Agrees

(* Every event of the browser keeps it. *)
LEMMA KeyStep ==
  ASSUME KeyInv, Next, open' = open
  PROVE  KeyInv'
<1> USE DEF KeyInv
<1>b. board \subseteq AllKeys
  BY BoardsAssumption
<1>1. ASSUME NEW c \in board, NEW rewritten \in BOOLEAN, KeyDown(c, rewritten)
      PROVE  KeyInv'
  <2> DEFINE mods == FlagsOf(phys \cup {c}) \ (IF rewritten THEN {"meta"} ELSE {})
             e == KeydownEvent(c, mods)
             k == [kb EXCEPT !.recent[e.code] = e.keysym]
  <2>1. mods \in SUBSET Modifiers
    BY FlagsAreModifiers
  <2>2. e \in Events
    BY <1>b, <2>1, EventsAre
  <2>3. /\ kb' = Done(Handle(k, e)) /\ due' \in {c, None}
        /\ silent' \in {silent \cup {c}, silent \ {c}} /\ phys' = phys \cup {c}
        /\ shadowed' = (shadowed \/ Shadows(kb, kb') \/ Guesses(phys', kb, kb'))
        /\ early' = early \cap kb'.pressed
        /\ board' = board /\ platform' = platform /\ focused' = focused
    BY <1>1 DEF KeyDown
  <2> HIDE DEF e
  <2>4. Agrees(k) /\ k.log = kb.log /\ k.pressed = kb.pressed /\ k.implicit = kb.implicit
    <3> DEFINE rec == [kb.recent EXCEPT ![e.code] = e.keysym]
    <3>1. rec \in [Codes -> Keysyms \cup {None}]
      BY <2>2 DEF Agrees, Keyboards, Events
    <3>2. k = [kb EXCEPT !.recent = rec]
      BY DEF Agrees, Keyboards
    <3> HIDE DEF rec, k
    <3>3. /\ k \in Keyboards /\ k.log = kb.log /\ k.pressed = kb.pressed
          /\ k.remote = kb.remote /\ k.implicit = kb.implicit /\ k.repeat = kb.repeat
      BY <3>1, <3>2 DEF Agrees, Keyboards
    <3> QED
      BY <3>3 DEF Agrees
  <2> HIDE DEF k
  <2>5. /\ Agrees(kb') /\ Waiting(kb'.log) /\ kb'.prevented = FALSE
        /\ kb'.pressed \subseteq kb'.implicit => kb'.pressed = {}
    BY <2>2, <2>3, <2>4, DoneAgrees
  <2>6. shadowed' \in BOOLEAN
    BY <2>3, Zenon DEF Shadows, Guesses
  <2>7. Agrees(kb)'
    BY <2>3, <2>5, AgreesStill
  <2> QED
    BY <2>3, <2>5, <2>6, <2>7
<1>2. CASE KeyPress
  <2> DEFINE e == KeypressEvent(due, FlagsOf(phys))
  <2>1. /\ kb' = Done(Handle(kb, e)) /\ due \in board /\ due' = None
        /\ shadowed' = (shadowed \/ Shadows(kb, kb') \/ Guesses(phys, kb, kb'))
        /\ early' = early \cap kb'.pressed
        /\ UNCHANGED <<board, platform, phys, silent, focused>>
    BY <1>2 DEF KeyPress
  <2>2. e \in Events
    BY <1>b, <2>1, FlagsAreModifiers, EventsAre
  <2> HIDE DEF e
  <2>3. /\ Agrees(kb') /\ Waiting(kb'.log) /\ kb'.prevented = FALSE
        /\ kb'.pressed \subseteq kb'.implicit => kb'.pressed = {}
    BY <2>1, <2>2, DoneAgrees
  <2>4. shadowed' \in BOOLEAN
    BY <2>1, Zenon DEF Shadows, Guesses
  <2>5. Agrees(kb)'
    BY <2>1, <2>3, AgreesStill
  <2> QED
    BY <2>1, <2>3, <2>4, <2>5
<1>3. ASSUME NEW c \in board, KeyUp(c)
      PROVE  KeyInv'
  <2> DEFINE e == KeyupEvent(kb, c, FlagsOf(phys'))
  <2>1. /\ kb' = Done(Handle(kb, e)) /\ due' = None
        /\ phys' = phys \ {c} /\ silent' = silent \ {c}
        /\ shadowed' = (shadowed \/ Guesses(phys', kb, kb'))
        /\ early' = early \cap kb'.pressed
        /\ UNCHANGED <<board, platform, focused>>
    BY <1>3 DEF KeyUp
  <2>2. e \in Events
    <3>1. c \in AllKeys /\ FlagsOf(phys') \in SUBSET Modifiers /\ kb \in Keyboards
      BY <1>b, FlagsAreModifiers DEF Agrees
    <3> QED
      BY <3>1, EventsAre
  <2> HIDE DEF e
  <2>3. /\ Agrees(kb') /\ Waiting(kb'.log) /\ kb'.prevented = FALSE
        /\ kb'.pressed \subseteq kb'.implicit => kb'.pressed = {}
    BY <2>1, <2>2, DoneAgrees
  <2>4. shadowed' \in BOOLEAN
    BY <2>1, Zenon DEF Guesses
  <2>5. Agrees(kb)'
    BY <2>1, <2>3, AgreesStill
  <2> QED
    BY <2>1, <2>3, <2>4, <2>5
<1>4. ASSUME NEW c \in board, KeyUpLost(c)
      PROVE  KeyInv'
  <2>1. Agrees(kb)'
    BY <1>4, AgreesStill DEF KeyUpLost
  <2> QED
    BY <1>4, <2>1 DEF KeyUpLost
<1>5. ASSUME NEW c \in board, KeyElsewhere(c)
      PROVE  KeyInv'
  <2>1. Agrees(kb)'
    BY <1>5, AgreesStill DEF KeyElsewhere
  <2> QED
    BY <1>5, <2>1 DEF KeyElsewhere
<1>6. CASE RepeatStarts
  <2> DEFINE rep == [kb.repeat EXCEPT !.running = TRUE]
  <2>1. /\ kb.repeat.key # None /\ kb' = [kb EXCEPT !.repeat = rep]
        /\ UNCHANGED <<env, shadowed, early>>
    BY <1>6 DEF RepeatStarts, Agrees, Keyboards
  <2>2. /\ rep \in [key : Keysyms \cup {None}, running : BOOLEAN]
        /\ rep.key = kb.repeat.key /\ kb.repeat.key \in kb.pressed
    <3>1. kb.repeat \in [key : Keysyms \cup {None}, running : BOOLEAN]
      BY DEF Agrees, Keyboards
    <3>2. kb.repeat.key \in kb.pressed
      <4>1. NoRepeat.key = None
        BY DEF NoRepeat
      <4> QED
        BY <2>1, <4>1, Zenon DEF Agrees
    <3> QED
      BY <3>1, <3>2
  <2> HIDE DEF rep
  <2>3. /\ kb' \in Keyboards /\ kb'.log = kb.log /\ kb'.pressed = kb.pressed
        /\ kb'.remote = kb.remote /\ kb'.implicit = kb.implicit /\ kb'.repeat = rep
        /\ kb'.prevented = kb.prevented
    BY <2>1, <2>2 DEF Agrees, Keyboards
  <2>4. Agrees(kb')
    BY <2>2, <2>3 DEF Agrees
  <2>5. Agrees(kb)'
    BY <2>1, <2>4, AgreesStill
  <2> QED
    BY <2>1, <2>3, <2>5 DEF env
<1>7. CASE RepeatTicks
  <2> DEFINE key == kb.repeat.key
             R == sendKeyEvent(TRUE, {key}, sendKeyEvent(FALSE, {key}, kb.remote))
  <2>1. /\ kb.repeat.running /\ kb' = [kb EXCEPT !.remote = R]
        /\ UNCHANGED <<env, shadowed, early>>
    BY <1>7 DEF RepeatTicks, Agrees, Keyboards
  <2>2. key \in kb.pressed /\ kb.pressed \in SUBSET Keysyms /\ Told(kb.remote, kb.pressed)
    BY <2>1 DEF Agrees, NoRepeat, Keyboards
  <2>3. Told(R, kb.pressed) /\ R \in SUBSET Keysyms
    <3> DEFINE Q == sendKeyEvent(FALSE, {key}, kb.remote)
               P == kb.pressed \ {key}
    <3>1. P \in SUBSET Keysyms /\ Told(Q, P)
      BY <2>2, ToldSent
    <3>3. P \cup {key} = kb.pressed
      BY <2>2
    <3> HIDE DEF Q, P
    <3>2. /\ Told(sendKeyEvent(TRUE, {key}, Q), P \cup {key})
          /\ sendKeyEvent(TRUE, {key}, Q) \subseteq P \cup {key}
      <4> HIDE DEF key, KeyInv
      <4> QED
        BY ONLY <3>1, ToldSent, Zenon
    <3>4. R = sendKeyEvent(TRUE, {key}, Q)
      BY DEF Q
    <3> HIDE DEF R
    <3> QED
      BY <2>2, <3>2, <3>3, <3>4
  <2> HIDE DEF R
  <2>4. /\ kb' \in Keyboards /\ kb'.log = kb.log /\ kb'.pressed = kb.pressed
        /\ kb'.remote = R /\ kb'.implicit = kb.implicit /\ kb'.repeat = kb.repeat
        /\ kb'.prevented = kb.prevented
    BY <2>1, <2>3 DEF Agrees, Keyboards
  <2>5. Agrees(kb')
    BY <2>3, <2>4 DEF Agrees
  <2>6. Agrees(kb)'
    BY <2>1, <2>5, AgreesStill
  <2> QED
    BY <2>1, <2>4, <2>6 DEF env
<1>8. CASE Blur
  <2>1. /\ kb' = Reset(kb) /\ focused' = FALSE /\ due' = None /\ early' = {}
        /\ UNCHANGED <<board, platform, phys, silent, shadowed>>
    BY <1>8 DEF Blur
  <2>2. Agrees(kb') /\ kb'.log = <<>> /\ kb'.pressed = {}
    BY <2>1, ResetAgrees
  <2>3. kb'.prevented = FALSE
    BY <2>1 DEF Reset, Release, Agrees, Keyboards
  <2>4. Agrees(kb)'
    BY <2>1, <2>2, AgreesStill
  <2> QED
    BY <2>1, <2>2, <2>3, <2>4 DEF Waiting
<1>9. CASE Focus
  <2>1. Agrees(kb)'
    BY <1>9, AgreesStill DEF Focus
  <2> QED
    BY <1>9, <2>1 DEF Focus
<1> QED
  BY <1>1, <1>2, <1>3, <1>4, <1>5, <1>6, <1>7, <1>8, <1>9 DEF Next

(* The mouse does not touch it; when the tunnel opens, the host has been     *)
(* told nothing, and what is held is held since before.                      *)
LEMMA KeyInvariant == InputSpec => []KeyInv
<1>1. InputInit => KeyInv
  BY KeyStarts
<1>2. KeyInv /\ [InputNext]_<<vars, mouseVars>> => KeyInv'
  <2> SUFFICES ASSUME KeyInv, [InputNext]_<<vars, mouseVars>>
               PROVE  KeyInv'
    OBVIOUS
  <2>1. ASSUME UNCHANGED vars, open' = open
        PROVE  KeyInv'
    <3>1. Agrees(kb)'
      BY <2>1, AgreesStill DEF vars, KeyInv
    <3> QED
      BY <2>1, <3>1 DEF vars, env, KeyInv
  <2>2. CASE Opens
    <3>1. /\ ~open /\ open' = TRUE /\ early' = kb.pressed /\ UNCHANGED <<kb, env, shadowed>>
      BY <2>2 DEF Opens, TunnelOpens
    <3>2. Agrees(kb)'
      BY <3>1 DEF KeyInv, Agrees, Told
    <3> QED
      BY <3>1, <3>2 DEF env, KeyInv
  <2>3. \/ Next /\ open' = open
        \/ UNCHANGED vars /\ open' = open
        \/ Opens
    <3>1. MouseNext => open' = open
      BY DEF MouseNext, MouseMove, MouseDown, MouseUp, MouseOut,
             ignorePendingMouseEvents, Wheel, MoveElsewhere, ButtonElsewhere, Resize
    <3> QED
      BY <3>1 DEF InputNext, mouseVars
  <2> QED
    BY <2>1, <2>2, <2>3, KeyStep
<1> QED
  BY <1>1, <1>2, PTL DEF InputSpec

(* Every variable of the keyboard has its type; a handler leaves at most one *)
(* event in the log, and none that could have been acted on                  *)
(* (interpret_events).                                                       *)
THEOREM KeyTypeCorrect == InputSpec => []TypeOK
<1>1. KeyInv => TypeOK
  <2> SUFFICES ASSUME KeyInv PROVE TypeOK
    OBVIOUS
  <2>1. interpret_event(kb) = kb
    BY WaitingWaits DEF KeyInv
  <2>2. Len(kb.log) <= 1
    <3>1. Len(<<>>) = 0
      OBVIOUS
    <3>2. Len(kb.log) = 0 \/ Len(kb.log) = 1
      BY <3>1, Zenon DEF KeyInv, Waiting
    <3>3. \A n : n = 0 \/ n = 1 => n <= 1
      OBVIOUS
    <3> QED
      BY <3>2, <3>3, Zenon
  <2>3. /\ kb.pressed \subseteq Keysyms /\ kb.implicit \subseteq kb.pressed
        /\ early \subseteq kb.pressed /\ kb.modifiers \subseteq Modifiers
        /\ kb.recent \in [Codes -> Keysyms \cup {None}]
        /\ kb.repeat.key \in Keysyms \cup {None}
    BY DEF KeyInv, Agrees, Keyboards
  <2> QED
    BY <2>1, <2>2, <2>3 DEF KeyInv, TypeOK
<1> QED
  BY <1>1, KeyInvariant, PTL

(* The remote host holds nothing the keyboard does not take to be held: no   *)
(* timer of a key that was let go, and no inferred modifier, escapes press   *)
(* and release.  Once the tunnel is open (sendKeyEvent) it holds all of it,  *)
(* but for the keys held since before.                                       *)
THEOREM HostAgrees == InputSpec => []RemoteHoldsWhatIsPressed
<1>1. KeyInv => RemoteHoldsWhatIsPressed
  BY DEF KeyInv, Agrees, Told, RemoteHoldsWhatIsPressed
<1> QED
  BY <1>1, KeyInvariant, PTL

(* Modifiers that were only inferred are released with the last real key     *)
(* (isStateImplicit).                                                        *)
THEOREM InferredGoToo == InputSpec => []InferredNeverAlone
<1>1. KeyInv => InferredNeverAlone
  BY DEF KeyInv, Agrees, InferredNeverAlone
<1> QED
  BY <1>1, KeyInvariant, PTL
=============================================================================
