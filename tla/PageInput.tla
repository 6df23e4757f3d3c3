----------------------------- MODULE PageInput -----------------------------
(***************************************************************************)
(* The input of the remote access page (rac/client.go): the keyboard bound *)
(* to the document and the mouse bound to the display's element.  They     *)
(* share nothing but the connection they send on, so that either may act   *)
(* at any time; the loss of the focus resets the keyboard only.            *)
(***************************************************************************)
EXTENDS Keyboard, Mouse

CONSTANTS
    Desks,    \* the keyboards and platforms the user has a mouse beside
    Hasty     \* the keyboards the user types on before the tunnel is open

ASSUME DesksAssumption == Desks \subseteq Boards \X Platforms /\ Hasty \subseteq Boards

InputInit == Init /\ MouseInit

\* The keyboard and the mouse are not told.
Opens ==
    /\ TunnelOpens
    /\ early' = kb.pressed
    /\ turn' = NoTurn
    /\ UNCHANGED <<kb, env, shadowed, mouse, far, hand, missed, at, seen, size>>

InputNext ==
    \/ (open \/ board \in Hasty) /\ Next /\ UNCHANGED mouseVars
    \/ <<board, platform>> \in Desks /\ MouseNext /\ UNCHANGED vars
    \/ Opens

InputSpec == InputInit /\ [][InputNext]_<<vars, mouseVars>>
=============================================================================
