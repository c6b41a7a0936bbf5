---------------------------- MODULE AtomicBudget ----------------------------
(***************************************************************************)
(* What a budget of deletions promises: every request is decided at one     *)
(* instant, against all that the run has been granted by then.              *)
(***************************************************************************)
EXTENDS Naturals

CONSTANTS Runs, Allowed, MaxAsk

VARIABLES used,   \* of each run: the files it was granted
          tripped \* of each run: whether something was refused

Init == used = [r \in Runs |-> 0] /\ tripped = [r \in Runs |-> FALSE]

\* A run begins, with a budget that may refuse everything from the start.
Open(r, closed) ==
    used' = [used EXCEPT ![r] = 0] /\ tripped' = [tripped EXCEPT ![r] = closed]

Lost == used' = [r \in Runs |-> 0] /\ tripped' = [r \in Runs |-> FALSE]

\* Granted in full, while it fits; even after a trip, to one who asked before it.
Grant(r, files) ==
    /\ used[r] + files <= Allowed
    /\ used' = [used EXCEPT ![r] = @ + files] /\ UNCHANGED tripped

\* Nothing trips the budget but a request that does not fit at that instant.
Refuse(r, files) ==
    /\ used[r] + files > Allowed
    /\ tripped' = [tripped EXCEPT ![r] = TRUE] /\ UNCHANGED used

Next ==
    \/ Lost
    \/ \E r \in Runs : \/ \E closed \in BOOLEAN : Open(r, closed)
                       \/ \E n \in 1..MaxAsk : Grant(r, n) \/ Refuse(r, n)

AtomicSpec == Init /\ [][Next]_<<used, tripped>>
=============================================================================
