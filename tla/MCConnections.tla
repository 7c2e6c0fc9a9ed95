--------------------------- MODULE MCConnections ---------------------------
(***************************************************************************)
(* Three clients for two slots and two users; one of them logs in twice.   *)
(***************************************************************************)
EXTENDS Sessions, TLC

CONSTANTS a, b, c, alice, bob

MCMaxLogins == a :> 2 @@ b :> 1 @@ c :> 0
=============================================================================
