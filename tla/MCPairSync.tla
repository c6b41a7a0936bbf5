----------------------------- MODULE MCPairSync -----------------------------
(***************************************************************************)
(* The instances of PairSync that TLC checks.                              *)
(***************************************************************************)
EXTENDS PairSync

CONSTANTS a, b, copy \* paths

Distinct == [v \in Versions |-> v]  \* no two contents of one size
Equal    == [v \in Versions |-> 1]  \* every content of the same size

KeepBoth     == [compare |-> "size_mtime", conflict |-> "keep_both", propagate |-> TRUE]

StartNone == [p \in Paths |-> Nil]
\* An earlier run has synced `a`, or `a` and `b`.
StartA  == [p \in Paths |-> IF p = a THEN 1 ELSE Nil]
StartAB == [p \in Paths |-> IF p = a THEN 1 ELSE IF p = b THEN 2 ELSE Nil]
=============================================================================
