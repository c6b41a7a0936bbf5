------------------------- MODULE DeleteBudgetProofs -------------------------
(***************************************************************************)
(* The delete budgets for any number of runs and workers, any allowance    *)
(* and requests of any size.                                               *)
(***************************************************************************)
EXTENDS DeleteBudget, TLAPS

\* A worker that asked after the trip gets no further than the flag.
LateStopsAtTheFlag ==
    \A w \in Workers : late[w] => tripped[RunOf[w]] /\ pc[w] \in {"idle", "start"}

\* The history counter is the shared one: no grant is lost or counted twice.
GrantsAreCounted == \A r \in Runs : granted[r] = used[r]

IInv == BudgetTypeOK /\ GrantsAreCounted /\ LateStopsAtTheFlag /\ LateIsRefused

LEMMA InitEstablishes == BudgetInit => IInv
<1> SUFFICES ASSUME BudgetInit PROVE IInv
  OBVIOUS
<1>1. used \in [Runs -> 0..Allowed] /\ granted \in [Runs -> Nat] /\ GrantsAreCounted
  BY BudgetAssumption DEF BudgetInit, GrantsAreCounted
<1>2. tripped \in [Runs -> BOOLEAN] /\ late \in [Workers -> BOOLEAN]
  BY Zenon DEF BudgetInit
<1>3. /\ pc \in [Workers -> {"idle", "start", "load", "try"}]
      /\ ask \in [Workers -> Nat] /\ read \in [Workers -> Nat]
      /\ answer \in [Workers -> {"none", "granted", "refused"}]
  BY DEF BudgetInit
<1>4. LateStopsAtTheFlag /\ LateIsRefused
  BY DEF BudgetInit, LateStopsAtTheFlag, LateIsRefused
<1> QED
  BY <1>1, <1>2, <1>3, <1>4 DEF IInv, BudgetTypeOK

\* A new budget leaves those of the other runs, and their workers, as they are.
LEMMA NewPreserves ==
    ASSUME IInv, NEW r \in Runs, NEW missing \in Nat, New(r, missing)
    PROVE  IInv'
<1> USE BudgetAssumption DEF IInv, BudgetTypeOK
<1>1. used' \in [Runs -> 0..Allowed] /\ granted' \in [Runs -> Nat] /\ GrantsAreCounted'
  BY DEF New, GrantsAreCounted
<1>2. tripped' \in [Runs -> BOOLEAN] /\ late' \in [Workers -> BOOLEAN]
  BY DEF New
<1>3. /\ pc' \in [Workers -> {"idle", "start", "load", "try"}]
      /\ ask' \in [Workers -> Nat] /\ read' \in [Workers -> Nat]
      /\ answer' \in [Workers -> {"none", "granted", "refused"}]
  BY DEF New
<1>4. ASSUME NEW w \in Workers, late'[w]
      PROVE  /\ tripped'[RunOf[w]] /\ pc'[w] \in {"idle", "start"}
             /\ answer'[w] # "granted"
  <2>1. RunOf[w] # r /\ late[w]
    BY <1>4 DEF New
  <2> QED
    BY <2>1 DEF New, LateStopsAtTheFlag, LateIsRefused
<1> QED
  BY <1>1, <1>2, <1>3, <1>4 DEF LateStopsAtTheFlag, LateIsRefused

\* A request changes nothing but the state of the worker that makes it.
LEMMA ReservePreserves ==
    ASSUME IInv, NEW w \in Workers, NEW n \in Nat, Reserve(w, n)
    PROVE  IInv'
<1> USE BudgetAssumption DEF IInv, BudgetTypeOK
<1>1. tripped[RunOf[w]] \in BOOLEAN
  OBVIOUS
<1>2. late' \in [Workers -> BOOLEAN] /\ tripped' \in [Runs -> BOOLEAN]
  BY <1>1 DEF Reserve
<1>3. /\ pc' \in [Workers -> {"idle", "start", "load", "try"}]
      /\ ask' \in [Workers -> Nat] /\ read' \in [Workers -> Nat]
      /\ answer' \in [Workers -> {"none", "granted", "refused"}]
  BY DEF Reserve, Goto
<1>4. used' \in [Runs -> 0..Allowed] /\ granted' \in [Runs -> Nat] /\ GrantsAreCounted'
  BY DEF Reserve, GrantsAreCounted
<1>5. LateStopsAtTheFlag' /\ LateIsRefused'
  BY DEF Reserve, Goto, LateStopsAtTheFlag, LateIsRefused
<1> QED
  BY <1>2, <1>3, <1>4, <1>5

\* Every step of a worker inside `reserve` preserves the invariant.
LEMMA AnswerPreserves ==
    ASSUME IInv, NEW w \in Workers, Answer(w)
    PROVE  IInv'
<1> USE BudgetAssumption
        DEF IInv, BudgetTypeOK, GrantsAreCounted, LateStopsAtTheFlag, LateIsRefused
<1>1. CASE GoOn(w)
  BY <1>1 DEF GoOn, Goto
<1>2. CASE RefuseTripped(w)
  BY <1>2 DEF RefuseTripped, Goto, Reply
<1>3. CASE LoadUsed(w)
  BY <1>3 DEF LoadUsed, Goto
<1>4. CASE Trip(w)
  BY <1>4 DEF Trip, Goto, Reply
<1>5. CASE Take(w)
  BY <1>5 DEF Take, Fits, Grant, Goto, Reply
<1>6. CASE Retry(w)
  BY <1>6 DEF Retry
<1> QED
  BY <1>1, <1>2, <1>3, <1>4, <1>5, <1>6 DEF Answer

\* Every step of the budgets preserves the invariant.
LEMMA StepPreserves == IInv /\ [BudgetNext]_budget => IInv'
<1> SUFFICES ASSUME IInv, [BudgetNext]_budget PROVE IInv'
  OBVIOUS
<1>1. CASE UNCHANGED budget
  BY <1>1 DEF budget, IInv, BudgetTypeOK, GrantsAreCounted, LateStopsAtTheFlag, LateIsRefused
<1>2. CASE Lost
  <2>1. used' \in [Runs -> 0..Allowed] /\ granted' \in [Runs -> Nat] /\ GrantsAreCounted'
    BY <1>2, BudgetAssumption DEF Lost, GrantsAreCounted
  <2>2. tripped' \in [Runs -> BOOLEAN] /\ late' \in [Workers -> BOOLEAN]
    BY <1>2, Zenon DEF Lost
  <2>3. /\ pc' \in [Workers -> {"idle", "start", "load", "try"}]
        /\ ask' \in [Workers -> Nat] /\ read' \in [Workers -> Nat]
        /\ answer' \in [Workers -> {"none", "granted", "refused"}]
    BY <1>2 DEF Lost
  <2>4. LateStopsAtTheFlag' /\ LateIsRefused'
    BY <1>2 DEF Lost, LateStopsAtTheFlag, LateIsRefused
  <2> QED
    BY <2>1, <2>2, <2>3, <2>4 DEF IInv, BudgetTypeOK
<1>3. ASSUME NEW r \in Runs, New(r, 0) \/ New(r, Allowed + 1) PROVE IInv'
  BY <1>3, NewPreserves, BudgetAssumption
<1>4. ASSUME NEW w \in Workers, NEW n \in 1..MaxAsk, Reserve(w, n) PROVE IInv'
  BY <1>4, ReservePreserves, BudgetAssumption
<1>5. ASSUME NEW w \in Workers, Answer(w) PROVE IInv'
  BY <1>5, AnswerPreserves
<1> QED
  BY <1>1, <1>2, <1>3, <1>4, <1>5 DEF BudgetNext

LEMMA Invariance == BudgetSpec => []IInv
  BY InitEstablishes, StepPreserves, PTL DEF BudgetSpec

\* The shared counters stay within the allowance, whatever the workers ask for.
THEOREM BudgetTypeCorrect == BudgetSpec => []BudgetTypeOK
<1>1. IInv => BudgetTypeOK
  BY DEF IInv
<1> QED
  BY <1>1, Invariance, PTL

\* All the workers of a run together are never granted more files than it may delete.
THEOREM BudgetIsNeverExceeded == BudgetSpec => []WithinAllowed
<1>1. ASSUME IInv, NEW r \in Runs PROVE granted[r] <= Allowed
  <2>1. granted[r] = used[r] /\ used[r] \in 0..Allowed
    BY <1>1 DEF IInv, BudgetTypeOK, GrantsAreCounted
  <2> QED
    BY <2>1, BudgetAssumption
<1>2. IInv => WithinAllowed
  BY <1>1 DEF WithinAllowed
<1> QED
  BY <1>2, Invariance, PTL

\* No request made after the trip is granted.
THEOREM TrippedForTheRestOfTheRun == BudgetSpec => []LateIsRefused
<1>1. IInv => LateIsRefused
  BY DEF IInv
<1> QED
  BY <1>1, Invariance, PTL

\* A worker is told no only once the budget of its run has tripped.
RefusalsTrip == \A w \in Workers : answer[w] = "refused" => tripped[RunOf[w]]

LEMMA RefusalsTripStep == IInv /\ RefusalsTrip /\ [BudgetNext]_budget => RefusalsTrip'
<1> SUFFICES ASSUME IInv, RefusalsTrip, [BudgetNext]_budget PROVE RefusalsTrip'
  OBVIOUS
<1> USE BudgetAssumption DEF IInv, BudgetTypeOK, RefusalsTrip
<1>1. CASE UNCHANGED budget
  BY <1>1 DEF budget
<1>2. CASE Lost
  BY <1>2 DEF Lost
<1>3. ASSUME NEW r \in Runs, New(r, 0) \/ New(r, Allowed + 1) PROVE RefusalsTrip'
  <2>1. /\ \A w \in Workers : RunOf[w] = r => answer'[w] = "none"
        /\ \A w \in Workers : RunOf[w] # r => answer'[w] = answer[w]
        /\ \A q \in Runs : q # r => tripped'[q] = tripped[q]
    BY <1>3 DEF New
  <2> QED
    BY <2>1
<1>4. ASSUME NEW w \in Workers, NEW n, Reserve(w, n) PROVE RefusalsTrip'
  BY <1>4 DEF Reserve
<1>5. ASSUME NEW w \in Workers, Answer(w) PROVE RefusalsTrip'
  <2>1. CASE GoOn(w) \/ LoadUsed(w) \/ Retry(w)
    BY <2>1 DEF GoOn, LoadUsed, Retry
  <2>2. CASE RefuseTripped(w)
    BY <2>2 DEF RefuseTripped, Reply
  <2>3. CASE Trip(w)
    BY <2>3 DEF Trip, Reply
  <2>4. CASE Take(w)
    BY <2>4 DEF Take, Grant, Reply
  <2> QED
    BY <1>5, <2>1, <2>2, <2>3, <2>4 DEF Answer
<1> QED
  BY <1>1, <1>2, <1>3, <1>4, <1>5 DEF BudgetNext

-----------------------------------------------------------------------------
\* A value loaded is never above the counter, which only grows while a request is pending;
\* so what did not fit when it was loaded does not fit when the budget trips.
LoadsAreLow == \A w \in Workers : pc[w] = "try" => read[w] <= used[RunOf[w]]

AsksAreBounded == \A w \in Workers : pc[w] # "idle" => ask[w] \in 1..MaxAsk

AInv == IInv /\ LoadsAreLow /\ AsksAreBounded

LEMMA PendingInit == BudgetInit => LoadsAreLow /\ AsksAreBounded
  BY DEF BudgetInit, LoadsAreLow, AsksAreBounded

\* The steps of one worker keep both facts.
LEMMA PendingAnswer ==
    ASSUME AInv, NEW w \in Workers, Answer(w)
    PROVE  (LoadsAreLow /\ AsksAreBounded)'
<1> USE BudgetAssumption DEF AInv, IInv, BudgetTypeOK, LoadsAreLow, AsksAreBounded
<1>1. CASE GoOn(w)
  BY <1>1 DEF GoOn, Goto
<1>2. CASE RefuseTripped(w)
  BY <1>2 DEF RefuseTripped, Goto, Reply
<1>3. CASE LoadUsed(w)
  BY <1>3 DEF LoadUsed, Goto
<1>4. CASE Trip(w)
  BY <1>4 DEF Trip, Goto, Reply
<1>5. CASE Take(w)
  <2>1. \A r \in Runs : used'[r] >= used[r]
    BY <1>5 DEF Take, Fits, Grant, Goto, Reply
  <2>2. \A v \in Workers : pc'[v] = "try" => v # w /\ pc[v] = "try" /\ read'[v] = read[v]
    BY <1>5 DEF Take, Grant, Goto, Reply
  <2>3. \A v \in Workers : pc'[v] # "idle" => v # w /\ pc'[v] = pc[v] /\ ask'[v] = ask[v]
    BY <1>5 DEF Take, Grant, Goto, Reply
  <2>4. /\ \A v \in Workers : RunOf[v] \in Runs /\ read[v] \in Nat
        /\ \A r \in Runs : used[r] \in Nat /\ used'[r] \in Nat
    BY <1>5 DEF Take, Fits, Grant, Goto, Reply
  <2> QED
    BY <2>1, <2>2, <2>3, <2>4
<1>6. CASE Retry(w)
  BY <1>6 DEF Retry
<1> QED
  BY <1>1, <1>2, <1>3, <1>4, <1>5, <1>6 DEF Answer

LEMMA PendingStep == AInv /\ [BudgetNext]_budget => (LoadsAreLow /\ AsksAreBounded)'
<1> SUFFICES ASSUME AInv, [BudgetNext]_budget PROVE (LoadsAreLow /\ AsksAreBounded)'
  OBVIOUS
<1> USE BudgetAssumption DEF AInv, IInv, BudgetTypeOK, LoadsAreLow, AsksAreBounded
<1>1. CASE UNCHANGED budget
  BY <1>1 DEF budget
<1>2. CASE Lost
  BY <1>2 DEF Lost
<1>3. ASSUME NEW r \in Runs, New(r, 0) \/ New(r, Allowed + 1)
      PROVE  (LoadsAreLow /\ AsksAreBounded)'
  <2>1. /\ \A w \in Workers : RunOf[w] = r => pc[w] = "idle"
        /\ used' = [used EXCEPT ![r] = 0] /\ UNCHANGED <<pc, ask, read>>
    BY <1>3 DEF New
  <2> QED
    BY <2>1
<1>4. ASSUME NEW w \in Workers, NEW n \in 1..MaxAsk, Reserve(w, n)
      PROVE  (LoadsAreLow /\ AsksAreBounded)'
  BY <1>4 DEF Reserve, Goto
<1>5. ASSUME NEW w \in Workers, Answer(w) PROVE (LoadsAreLow /\ AsksAreBounded)'
  BY <1>5, PendingAnswer
<1> QED
  BY <1>1, <1>2, <1>3, <1>4, <1>5 DEF BudgetNext

\* A step of a worker is a decision, taken at the exchange or as it trips, or nothing.
LEMMA AnswerIsAtomic ==
    ASSUME AInv, NEW w \in Workers, Answer(w)
    PROVE  Atomic!Next \/ UNCHANGED <<granted, tripped>>
<1> USE BudgetAssumption DEF AInv, IInv, BudgetTypeOK
<1> DEFINE r == RunOf[w]
           n == ask[w]
<1>1. r \in Runs /\ granted[r] \in Nat /\ granted[r] = used[r] /\ read[w] \in Nat
  BY DEF GrantsAreCounted
<1>2. CASE GoOn(w) \/ RefuseTripped(w) \/ LoadUsed(w) \/ Retry(w)
  BY <1>2 DEF GoOn, RefuseTripped, LoadUsed, Retry
<1>3. CASE Trip(w)
  <2>1. n \in 1..MaxAsk /\ read[w] <= used[r] /\ ~(read[w] + n <= Allowed)
    BY <1>3 DEF Trip, Fits, Goto, LoadsAreLow, AsksAreBounded
  <2>2. granted[r] + n > Allowed
    BY <1>1, <2>1
  <2>3. Atomic!Refuse(r, n)
    BY <1>3, <2>2 DEF Trip, Atomic!Refuse
  <2> QED
    BY <1>1, <2>1, <2>3 DEF Atomic!Next
<1>4. CASE Take(w)
  <2>1. n \in 1..MaxAsk /\ granted[r] + n <= Allowed
    BY <1>1, <1>4 DEF Take, Fits, Grant, Goto, AsksAreBounded
  <2>2. Atomic!Grant(r, n)
    BY <1>4, <2>1 DEF Take, Grant, Atomic!Grant
  <2> QED
    BY <1>1, <2>1, <2>2 DEF Atomic!Next
<1> QED
  BY <1>2, <1>3, <1>4 DEF Answer

LEMMA StepIsAtomic == AInv /\ [BudgetNext]_budget => [Atomic!Next]_<<granted, tripped>>
<1> SUFFICES ASSUME AInv, [BudgetNext]_budget
             PROVE  Atomic!Next \/ UNCHANGED <<granted, tripped>>
  OBVIOUS
<1>1. CASE UNCHANGED budget
  BY <1>1 DEF budget
<1>2. CASE Lost
  BY <1>2 DEF Lost, Atomic!Lost, Atomic!Next
<1>3. ASSUME NEW r \in Runs, NEW missing, New(r, missing) PROVE Atomic!Next
  <2>1. (missing > Allowed) \in BOOLEAN
    OBVIOUS
  <2>2. Atomic!Open(r, missing > Allowed)
    BY <1>3 DEF New, Atomic!Open
  <2> QED
    BY <2>1, <2>2 DEF Atomic!Next
<1>4. ASSUME NEW w \in Workers, NEW n \in 1..MaxAsk, Reserve(w, n)
      PROVE  UNCHANGED <<granted, tripped>>
  BY <1>4 DEF Reserve
<1>5. ASSUME NEW w \in Workers, Answer(w)
      PROVE  Atomic!Next \/ UNCHANGED <<granted, tripped>>
  BY <1>5, AnswerIsAtomic
<1> QED
  BY <1>1, <1>2, <1>3, <1>4, <1>5 DEF BudgetNext

\* The budget implements the atomic one, for any runs, threads, allowance and requests:
\* loads and exchanges that interleave come to a decision at one instant.
THEOREM TheBudgetIsAtomic == BudgetSpec => BudgetIsAtomic
<1>1. BudgetInit => Atomic!Init
  BY DEF BudgetInit, Atomic!Init
<1>2. BudgetInit => AInv
  BY InitEstablishes, PendingInit DEF AInv
<1>3. AInv /\ [BudgetNext]_budget => AInv'
  BY StepPreserves, PendingStep DEF AInv
<1> QED
  BY <1>1, <1>2, <1>3, StepIsAtomic, PTL DEF BudgetSpec, BudgetIsAtomic, Atomic!AtomicSpec
=============================================================================
