------------------------------ MODULE MCRemote ------------------------------
(***************************************************************************)
(* A remote of two folders, one in the other, with two files.               *)
(***************************************************************************)
EXTENDS RemoteAdapter

Limbs ==
    [n \in Nodes |-> CASE n = "e" -> "d" [] n = "f" -> "d" [] n = "g" -> "e" [] OTHER -> Trunk]
=============================================================================
