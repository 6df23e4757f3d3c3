-------------------------- MODULE MCRemoteSession --------------------------
(***************************************************************************)
(* guacd sends one burst, which ReadFrame may cut in two: a desktop that   *)
(* stays or fails, and an end with instructions still behind it.  One of   *)
(* the handler's writes to the database fails, or both of the audit's.     *)
(***************************************************************************)
EXTENDS RemoteSession

BurstsDef == {<<"sync">>, <<"sync", "error">>, <<"disconnect", "sync">>}
FailingDef == {{"requested"}, {"start"}, {"row"}, {"ended"}, {"requested", "ended"}}
=============================================================================
