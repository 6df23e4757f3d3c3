----------------------------- MODULE PageTunnel -----------------------------
(***************************************************************************)
(* The tunnel under the keyboard and the mouse of the remote access page.  *)
(* The page listens for input from the start; Client.sendKeyEvent and      *)
(* sendMouseState hand it to tunnel.sendMessage, which drops it until the  *)
(* first message has come from the server.                                 *)
(***************************************************************************)

VARIABLE open    \* whether the tunnel passes messages on

\* The tunnel opens; it is not opened again once it is closed.
TunnelOpens ==
    /\ ~open
    /\ open' = TRUE
=============================================================================
