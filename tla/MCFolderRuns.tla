---------------------------- MODULE MCFolderRuns ----------------------------
(***************************************************************************)
(* The instances of FolderRuns that TLC checks.                            *)
(***************************************************************************)
EXTENDS FolderRuns, TLC

CONSTANTS f, g, D, E, X,  \* D/f, D/X and E/g
          w1, w2, b1     \* threads: two of the walk's, one of a burst's

Distinct == [v \in Versions |-> v]
Skip     == [compare |-> "size_mtime", conflict |-> "skip", propagate |-> TRUE]

Branches == (f :> D) @@ (g :> E) @@ (D :> Root) @@ (E :> Root) @@ (X :> D)
Both     == (f :> 1) @@ (g :> 2)
Alone    == (f :> D) @@ (D :> Root)
OnlyF    == (f :> 1)

Everything == ({"delete", "edit", "restore"} \X Sides)
                  \cup ({"exclude", "freeUp", "include"} \X {"here"})
Regret     == {"delete", "restore"} \X {"here"}
FreeSpace  == {"exclude", "freeUp", "include"} \X {"here"}

Threads == Permutations({w1, w2})

Crews == (w1 :> "walk") @@ (w2 :> "walk") @@ (b1 :> "burst")
One   == (w1 :> "walk") @@ (b1 :> "burst")
=============================================================================
