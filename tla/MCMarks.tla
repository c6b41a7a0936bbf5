------------------------------- MODULE MCMarks -------------------------------
(***************************************************************************)
(* One pair with a folder d, a folder s in that, a file f in s, and an      *)
(* excluded folder x.                                                       *)
(***************************************************************************)
EXTENDS FolderMarks

Branches ==
    [p \in Within |-> CASE p = "f" -> <<"R", "d", "s">> [] p = "s" -> <<"R", "d">>
                        [] OTHER -> <<"R">>]
ByName == <<"R", "d", "s", "f", "x">>
=============================================================================
