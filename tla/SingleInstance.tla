--------------------------- MODULE SingleInstance ---------------------------
(***************************************************************************)
(* What the single-instance lock promises its callers: one holder at a time *)
(* and, for whoever only looks, its name - shown from the moment it holds   *)
(* and gone from the moment it does not.                                    *)
(***************************************************************************)
CONSTANTS Processes, Nobody

VARIABLES holder, \* who holds
          shown   \* whom a look at the file names

\* An older version, which looks at other records, may be holding.
Init == holder \in Processes \cup {Nobody} /\ shown = Nobody

Take(p) == holder = Nobody /\ holder' = p /\ shown' = p

\* It lets go, or dies, or the machine does.
Leave == holder # Nobody /\ holder' = Nobody /\ shown' = Nobody

Next == Leave \/ \E p \in Processes : Take(p)

OneAtATime == Init /\ [][Next]_<<holder, shown>>
=============================================================================
