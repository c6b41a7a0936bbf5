---------------------------- MODULE DeleteBudget ----------------------------
(***************************************************************************)
(* The allowance of deletions a run may make (src/engine.rs, DeleteBudget):*)
(* the workers of the run reserve from it at once, without a lock - two    *)
(* atomics, read one after the other, and a compare-exchange.  Each run    *)
(* has a budget of its own.  FolderRuns composes it with the runs.         *)
(***************************************************************************)
EXTENDS Naturals

CONSTANTS Runs,    \* the runs that may be in flight at once
          Workers, \* their threads
          RunOf,   \* the run each thread works for
          Allowed, \* files a run may delete
          MaxAsk   \* bound on the files of one request

ASSUME BudgetAssumption ==
    Allowed \in Nat /\ MaxAsk \in Nat /\ RunOf \in [Workers -> Runs]

VARIABLES
    used, tripped,  \* of each run: the shared atomics
    pc, ask, read,  \* of each worker: where it is, files asked for, last value loaded
    answer,         \* of each worker: its last answer
    granted,        \* history: files granted so far to the workers of the run
    late            \* history: whether the worker asked after the budget had tripped

budget == <<used, tripped, pc, ask, read, answer, granted, late>>

BudgetInit ==
    /\ used = [r \in Runs |-> 0] /\ tripped = [r \in Runs |-> FALSE]
    /\ pc = [w \in Workers |-> "idle"]
    /\ ask = [w \in Workers |-> 0] /\ read = [w \in Workers |-> 0]
    /\ answer = [w \in Workers |-> "none"]
    /\ granted = [r \in Runs |-> 0] /\ late = [w \in Workers |-> FALSE]

Goto(w, from, to) == pc[w] = from /\ pc' = [pc EXCEPT ![w] = to]
Reply(w, word) == /\ answer' = [answer EXCEPT ![w] = word]
                  /\ ask' = [ask EXCEPT ![w] = 0] /\ read' = [read EXCEPT ![w] = 0]
Fits(w) == read[w] + ask[w] <= Allowed

\* A run makes its budget; when a census has found too many files missing (trip()), one
\* that refuses everything.
New(r, missing) ==
    /\ \A w \in Workers : RunOf[w] = r => pc[w] = "idle"
    /\ used' = [used EXCEPT ![r] = 0]
    /\ tripped' = [tripped EXCEPT ![r] = missing > Allowed]
    /\ granted' = [granted EXCEPT ![r] = 0]
    /\ answer' = [w \in Workers |-> IF RunOf[w] = r THEN "none" ELSE answer[w]]
    /\ late' = [w \in Workers |-> RunOf[w] # r /\ late[w]]
    /\ UNCHANGED <<pc, ask, read>>

\* The process is killed.
Lost ==
    /\ used' = [r \in Runs |-> 0] /\ tripped' = [r \in Runs |-> FALSE]
    /\ pc' = [w \in Workers |-> "idle"]
    /\ ask' = [w \in Workers |-> 0] /\ read' = [w \in Workers |-> 0]
    /\ answer' = [w \in Workers |-> "none"]
    /\ granted' = [r \in Runs |-> 0] /\ late' = [w \in Workers |-> FALSE]

\* reserve(files); a request for no file is granted without a look at the budget.
Reserve(w, files) ==
    /\ Goto(w, "idle", "start")
    /\ ask' = [ask EXCEPT ![w] = files]
    /\ late' = [late EXCEPT ![w] = tripped[RunOf[w]]]
    /\ answer' = [answer EXCEPT ![w] = "none"]
    /\ UNCHANGED <<used, tripped, read, granted>>

GoOn(w) ==
    /\ ~tripped[RunOf[w]]
    /\ Goto(w, "start", "load")
    /\ UNCHANGED <<used, tripped, ask, read, answer, granted, late>>

RefuseTripped(w) ==
    /\ tripped[RunOf[w]]
    /\ Goto(w, "start", "idle") /\ Reply(w, "refused")
    /\ UNCHANGED <<used, tripped, granted, late>>

LoadUsed(w) ==
    /\ Goto(w, "load", "try")
    /\ read' = [read EXCEPT ![w] = used[RunOf[w]]]
    /\ UNCHANGED <<used, tripped, ask, answer, granted, late>>

\* Over budget, as far as this worker knows: trip and refuse.
Trip(w) ==
    /\ ~Fits(w)
    /\ Goto(w, "try", "idle") /\ Reply(w, "refused")
    /\ tripped' = [tripped EXCEPT ![RunOf[w]] = TRUE]
    /\ UNCHANGED <<used, granted, late>>

Grant(w) ==
    /\ Goto(w, "try", "idle") /\ Reply(w, "granted")
    /\ granted' = [granted EXCEPT ![RunOf[w]] = @ + ask[w]]
    /\ UNCHANGED <<tripped, late>>

\* (Slips) A plain store in place of the exchange; one file too many let through.
TakeByStore(w) == Fits(w) /\ Grant(w) /\ used' = [used EXCEPT ![RunOf[w]] = read[w] + ask[w]]
TakeOneOver(w) == /\ read[w] + ask[w] <= Allowed + 1 /\ used[RunOf[w]] = read[w]
                  /\ Grant(w) /\ used' = [used EXCEPT ![RunOf[w]] = @ + ask[w]]

\* compare_exchange takes the files ...
Take(w) == /\ Fits(w) /\ used[RunOf[w]] = read[w]
           /\ Grant(w) /\ used' = [used EXCEPT ![RunOf[w]] = @ + ask[w]]

\* ... or tells what the others have used.
Retry(w) ==
    /\ pc[w] = "try" /\ Fits(w) /\ used[RunOf[w]] # read[w]
    /\ read' = [read EXCEPT ![w] = used[RunOf[w]]]
    /\ UNCHANGED <<used, tripped, pc, ask, answer, granted, late>>

Answer(w) == GoOn(w) \/ RefuseTripped(w) \/ LoadUsed(w) \/ Trip(w) \/ Take(w) \/ Retry(w)

BudgetNext ==
    \/ Lost
    \/ \E r \in Runs : New(r, 0) \/ New(r, Allowed + 1)
    \/ \E w \in Workers : (\E n \in 1..MaxAsk : Reserve(w, n)) \/ Answer(w)

BudgetSpec == BudgetInit /\ [][BudgetNext]_budget

-----------------------------------------------------------------------------
BudgetTypeOK ==
    /\ used \in [Runs -> 0..Allowed] /\ granted \in [Runs -> Nat]
    /\ tripped \in [Runs -> BOOLEAN]
    /\ pc \in [Workers -> {"idle", "start", "load", "try"}]
    /\ ask \in [Workers -> Nat] /\ read \in [Workers -> Nat]
    /\ answer \in [Workers -> {"none", "granted", "refused"}]
    /\ late \in [Workers -> BOOLEAN]

\* However the workers interleave, the files granted to all those of one run together
\* never exceed the allowance: a walk that reconciles many folders at once spends one
\* budget.
WithinAllowed == \A r \in Runs : granted[r] <= Allowed

\* A request made once the budget has tripped is never granted, even one that would
\* still fit: "it and every later one in the run is refused".
LateIsRefused == \A w \in Workers : late[w] => answer[w] # "granted"

\* However loads, exchanges and the flag interleave, the budget is as good as one that
\* decides each request at a single instant: a grant counts all grants before it, and it
\* trips only when a request does not fit at that very moment ("Ask to delete `files`
\* files. All or nothing").
Atomic == INSTANCE AtomicBudget WITH used <- granted
BudgetIsAtomic == Atomic!AtomicSpec
=============================================================================
