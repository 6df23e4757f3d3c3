---------------------------- MODULE MCPageInput ----------------------------
(***************************************************************************)
(* Keyboards of up to five keys, three held at a time: for deferred Meta   *)
(* with dead keys and Shift and with Ctrl, for AltGr typed as Ctrl+Alt and *)
(* for Caps Lock, for two keys of one modifier, and for one of them with a *)
(* dead key; the last two are typed on before the tunnel is open.  The     *)
(* mouse is used beside a keyboard of one key.                             *)
(***************************************************************************)
EXTENDS PageInput

BoardsDef == {{"letter", "dead", "shift", "meta"},
              {"letter", "shift", "ctrl", "meta"},
              {"letter", "symbol", "ctrl", "alt", "caps"},
              {"letter", "shift", "rshift"},
              {"dead", "rshift"},
              {"ctrl"}}
HastyDef == {{"letter", "shift", "rshift"}, {"dead", "rshift"}}
DesksDef == {<<{"ctrl"}, "other">>}

\* Pixels that add up to a click, lines and pages.
TurnsDef == {<<0, 30>>, <<1, -5>>, <<2, 1>>}
=============================================================================
