----------------------------- MODULE MCWatchLoop -----------------------------
(***************************************************************************)
(* The instances of WatchLoop that TLC checks.                             *)
(***************************************************************************)
EXTENDS WatchLoop, TLC

CONSTANTS sub \* a folder

Alone   == (sub :> {})
Periods  == [g \in Gates |-> CASE g = "signedOut" -> 1 [] g = "keyring" -> 2 [] g = "open" -> 3]
=============================================================================
