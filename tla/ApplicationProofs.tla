------------------------- MODULE ApplicationProofs -------------------------
(***************************************************************************)
(* What holds of the program around its runs: the runs the frontends are    *)
(* told of, what the database keeps of a pair and what the tray announces,  *)
(* for any pairs, threads, settings and times.                              *)
(***************************************************************************)
EXTENDS Controller, PairDatabase, Notices, FiniteSetTheorems, WellFoundedInduction, TLAPS

(***************************************************************************)
(* The Controller's runs.                                                   *)
(***************************************************************************)
\* What a thread's record says of it: it is past its start and short of its end, and the
\* pairs it has or will come to.
Works(x) == x.stage \notin {"off", "over"}
Attends(x, p) == Works(x) /\ p \in x.queue \cup x.on

\* Where a thread stands says what it is on: a pair while it works, none between two, and
\* the watcher's runs have no other waiting.
InOrder(t, x) ==
    /\ x.stage = "off" => x = Gone
    /\ x.stage = "over" => x = [Gone EXCEPT !.stage = "over"]
    /\ x.stage = "between" => x.on = {}
    /\ x.stage \in {"planning", "applying", "reporting", "finishing"} =>
          \E p \in Pairs : x.on = {p}
    /\ t \notin Manual => x.queue = {} /\ x.stage \notin {"between", "planning", "over"}
    /\ t = Burst => ~x.whole
ThreadsInOrder == \A t \in Threads : InOrder(t, thread[t])

\* At most one manual run is past its start and short of its end, and `busy` says so.
OneBody ==
    /\ \A t, u \in Manual : Works(thread[t]) /\ Works(thread[u]) => t = u
    /\ busy <=> \E t \in Manual : Works(thread[t])

\* What the frontends show of a pair while a run attends to it, and after.
ShownTruly(p) ==
    LET attended == \E t \in Threads : Attends(thread[t], p) IN
    /\ phase[p] \in {"scanning", "syncing"} => attended \/ p \in abandoned
    /\ ~attended /\ p \notin abandoned =>
          /\ held[p] => phase[p] = "error"
          /\ phase[p] = "synced" => failure[p] = "none"

CtlInv ==
    /\ ControllerTypeOK
    /\ ThreadsInOrder
    /\ OneBody
    /\ \A p \in Pairs : ShownTruly(p)

-----------------------------------------------------------------------------
LEMMA GoneIsTyped ==
  /\ Gone \in ThreadStates
  /\ \A s \in ThreadStages : /\ [Gone EXCEPT !.stage = s] \in ThreadStates
                             /\ [Gone EXCEPT !.stage = s].stage = s
                             /\ [Gone EXCEPT !.stage = s].queue = {}
                             /\ [Gone EXCEPT !.stage = s].on = {}
                             /\ [Gone EXCEPT !.stage = s].whole = FALSE
  /\ Gone.stage = "off" /\ Gone.queue = {} /\ Gone.on = {} /\ ~Gone.whole
  BY DEF Gone, ThreadStates, ThreadStages

\* What an event writes of some pairs.
LEMMA SetIsTyped ==
  ASSUME NEW S, NEW f \in [Pairs -> S], NEW ps, NEW x \in S
  PROVE  /\ Set(f, ps, x) \in [Pairs -> S]
         /\ \A p \in Pairs : Set(f, ps, x)[p] = IF p \in ps THEN x ELSE f[p]
  BY DEF Set

\* A step of one thread leaves the others where they are.
LEMMA OneThreadSteps ==
  ASSUME ControllerTypeOK, ThreadsInOrder, NEW t \in Threads, NEW x \in ThreadStates,
         InOrder(t, x), thread' = [thread EXCEPT ![t] = x]
  PROVE  /\ thread' \in [Threads -> ThreadStates]
         /\ thread'[t] = x /\ \A u \in Threads \ {t} : thread'[u] = thread[u]
         /\ ThreadsInOrder'
<1>1. thread' \in [Threads -> ThreadStates]
  BY DEF ControllerTypeOK
<1>2. thread'[t] = x /\ \A u \in Threads \ {t} : thread'[u] = thread[u]
  BY DEF ControllerTypeOK
<1>3. ThreadsInOrder'
  BY <1>2 DEF ThreadsInOrder
<1> QED
  BY <1>1, <1>2, <1>3

\* A thread that neither begins nor ends leaves the count of manual runs alone.
LEMMA BodyStays ==
  ASSUME OneBody, NEW t \in Threads, Works(thread'[t]) <=> Works(thread[t]),
         \A u \in Threads \ {t} : thread'[u] = thread[u], busy' = busy
  PROVE  OneBody'
<1>1. \A u \in Manual : Works(thread'[u]) <=> Works(thread[u])
  BY DEF Threads
<1> QED
  BY <1>1 DEF OneBody

LEMMA BodyStaysForWatcher ==
  ASSUME OneBody, NEW t \in Threads \ Manual,
         \A u \in Threads \ {t} : thread'[u] = thread[u], busy' = busy
  PROVE  OneBody'
  BY DEF OneBody, Threads

\* A pair of which nothing changes is shown as truly as before ...
LEMMA OthersStayTrue ==
  ASSUME NEW p \in Pairs, ShownTruly(p), NEW t \in Threads,
         \A u \in Threads \ {t} : thread'[u] = thread[u],
         Attends(thread'[t], p) <=> Attends(thread[t], p),
         phase'[p] = phase[p], failure'[p] = failure[p], held'[p] = held[p],
         p \in abandoned' <=> p \in abandoned
  PROVE  ShownTruly(p)'
<1>1. (\E u \in Threads : Attends(thread'[u], p)) <=> (\E u \in Threads : Attends(thread[u], p))
  OBVIOUS
<1> QED
  BY <1>1 DEF ShownTruly

\* ... and so is one that a run attends to.
LEMMA AttendedIsTrue ==
  ASSUME NEW p \in Pairs, NEW t \in Threads, Attends(thread'[t], p)
  PROVE  ShownTruly(p)'
  BY DEF ShownTruly

LEMMA CtlInitOk == ControllerInit => CtlInv
<1> SUFFICES ASSUME ControllerInit PROVE CtlInv
  OBVIOUS
<1> USE DEF ControllerInit
<1>1. \A t \in Threads : thread[t] = Gone
  OBVIOUS
<1>2. thread \in [Threads -> ThreadStates]
  BY GoneIsTyped
<1>3. ControllerTypeOK
  <2>1. {busy, shownBusy, cancel, quit} \subseteq BOOLEAN
    OBVIOUS
  <2>2. begun \in 0..MaxRuns
    BY ControllerAssumption
  <2> QED
    BY <1>2, <2>1, <2>2 DEF ControllerTypeOK, Phases, Failures
<1>4. ThreadsInOrder
  BY <1>1, GoneIsTyped DEF ThreadsInOrder, InOrder
<1>5. OneBody
  BY <1>1, GoneIsTyped DEF OneBody, Works, Threads
<1>6. \A p \in Pairs : ShownTruly(p)
  BY DEF ShownTruly
<1> QED
  BY <1>3, <1>4, <1>5, <1>6 DEF CtlInv

LEMMA RunKeeps ==
  ASSUME CtlInv, NEW t \in Manual, NEW guarded \in BOOLEAN, NEW names \in SUBSET Pairs,
         Run(t, guarded, names)
  PROVE  CtlInv'
<1> DEFINE x == [Gone EXCEPT !.stage = "between", !.guarded = guarded, !.queue = names]
<1> USE DEF CtlInv
<1>1. /\ x \in ThreadStates /\ x.stage = "between" /\ x.queue = names /\ x.on = {}
      /\ ~x.whole
  BY DEF Gone, ThreadStates, ThreadStages
<1>2. t \in Threads /\ thread[t].stage = "off" /\ t # Burst
  BY ControllerAssumption DEF Threads, Run, At
<1>3. InOrder(t, x)
  BY <1>1, <1>2 DEF InOrder
<1>4. thread' = [thread EXCEPT ![t] = x]
  BY DEF Run
<1> HIDE DEF x
<1>5. /\ thread' \in [Threads -> ThreadStates]
      /\ thread'[t] = x /\ \A u \in Threads \ {t} : thread'[u] = thread[u]
      /\ ThreadsInOrder'
  BY <1>1, <1>2, <1>3, <1>4, OneThreadSteps
<1>6. phase' \in [Pairs -> Phases] /\ failure' \in [Pairs -> Failures]
  BY DEF Run, ControllerTypeOK, Set, Phases, Failures
<1>7. ControllerTypeOK'
  <2>1. {busy', shownBusy', cancel', quit'} \subseteq BOOLEAN
    BY DEF Run, TakeBusy, ControllerTypeOK
  <2>2. begun' \in 0..MaxRuns
    BY ControllerAssumption DEF Run, ControllerTypeOK
  <2> QED
    BY <1>5, <1>6, <2>1, <2>2 DEF Run, ControllerTypeOK
<1>8. OneBody'
  <2>1. Works(thread'[t]) /\ busy' /\ \A u \in Manual : ~Works(thread[u])
    BY <1>1, <1>5 DEF Run, TakeBusy, OneBody, Works
  <2> QED
    BY <2>1, <1>5 DEF OneBody, Threads
<1>9. \A p \in Pairs : ShownTruly(p)'
  <2> TAKE p \in Pairs
  <2>1. CASE p \in names
    BY <2>1, <1>1, <1>2, <1>5, AttendedIsTrue DEF Attends, Works
  <2>2. CASE p \notin names
    <3>1. ~Attends(x, p) /\ ~Attends(thread[t], p)
      BY <2>2, <1>1, <1>2 DEF Attends, Works
    <3>2. /\ phase'[p] = phase[p] /\ failure'[p] = failure[p] /\ held'[p] = held[p]
          /\ p \in abandoned' <=> p \in abandoned
      BY <2>2 DEF Run, Set
    <3> QED
      BY <3>1, <3>2, <1>2, <1>5, OthersStayTrue
  <2> QED
    BY <2>1, <2>2
<1> QED
  BY <1>5, <1>7, <1>8, <1>9

LEMMA CancelKeeps == ASSUME CtlInv, Cancel PROVE CtlInv'
<1>1. ControllerTypeOK'
  BY DEF CtlInv, ControllerTypeOK, Cancel, Notes
<1>2. ThreadsInOrder' /\ OneBody' /\ \A p \in Pairs : ShownTruly(p)'
  BY DEF CtlInv, ThreadsInOrder, OneBody, ShownTruly, Cancel, Notes
<1> QED
  BY <1>1, <1>2 DEF CtlInv

LEMMA QuitWalkKeeps == ASSUME CtlInv, QuitWalk PROVE CtlInv'
<1>1. ControllerTypeOK'
  BY DEF CtlInv, ControllerTypeOK, QuitWalk, Notes
<1>2. ThreadsInOrder' /\ OneBody' /\ \A p \in Pairs : ShownTruly(p)'
  BY DEF CtlInv, ThreadsInOrder, OneBody, ShownTruly, QuitWalk, Notes
<1> QED
  BY <1>1, <1>2 DEF CtlInv

LEMMA WatcherRunKeeps ==
  ASSUME CtlInv, NEW t \in {Walk, Burst}, NEW p \in Pairs, WatcherRun(t, p)
  PROVE  CtlInv'
<1> DEFINE x == [Gone EXCEPT !.stage = "applying", !.on = {p}, !.whole = (t = Walk)]
<1> USE DEF CtlInv
<1>1. /\ x \in ThreadStates /\ x.stage = "applying" /\ x.queue = {} /\ x.on = {p}
      /\ x.whole = (t = Walk)
  BY DEF Gone, ThreadStates, ThreadStages
<1>2. t \in Threads \ Manual /\ thread[t].stage = "off" /\ (t = Burst => t # Walk)
  BY ControllerAssumption DEF Threads, WatcherRun, At
<1>3. InOrder(t, x)
  BY <1>1, <1>2 DEF InOrder
<1>4. thread' = [thread EXCEPT ![t] = x]
  BY DEF WatcherRun
<1> HIDE DEF x
<1>5. /\ thread' \in [Threads -> ThreadStates]
      /\ thread'[t] = x /\ \A u \in Threads \ {t} : thread'[u] = thread[u]
      /\ ThreadsInOrder'
  BY <1>1, <1>2, <1>3, <1>4, OneThreadSteps
<1>6. phase' \in [Pairs -> Phases]
  BY DEF WatcherRun, ControllerTypeOK, Set, Phases
<1>7. ControllerTypeOK'
  <2>1. {busy', shownBusy', cancel', quit'} \subseteq BOOLEAN
    BY DEF WatcherRun, ControllerTypeOK
  <2>2. begun' \in 0..MaxRuns
    BY ControllerAssumption DEF WatcherRun, ControllerTypeOK
  <2> QED
    BY <1>5, <1>6, <2>1, <2>2 DEF WatcherRun, ControllerTypeOK
<1>8. OneBody'
  BY <1>2, <1>5, BodyStaysForWatcher DEF WatcherRun
<1>9. \A q \in Pairs : ShownTruly(q)'
  <2> TAKE q \in Pairs
  <2>1. CASE q = p
    BY <2>1, <1>1, <1>2, <1>5, AttendedIsTrue DEF Attends, Works
  <2>2. CASE q # p
    <3>1. ~Attends(x, q) /\ ~Attends(thread[t], q)
      BY <2>2, <1>1, <1>2 DEF Attends, Works
    <3>2. /\ phase'[q] = phase[q] /\ failure'[q] = failure[q] /\ held'[q] = held[q]
          /\ q \in abandoned' <=> q \in abandoned
      BY <2>2 DEF WatcherRun, Set
    <3> QED
      BY <3>1, <3>2, <1>2, <1>5, OthersStayTrue
  <2> QED
    BY <2>1, <2>2
<1> QED
  BY <1>5, <1>7, <1>8, <1>9

LEMMA WalkRefusedKeeps ==
  ASSUME CtlInv, NEW p \in Pairs, WalkRefused(p)
  PROVE  CtlInv'
<1> USE DEF CtlInv
<1>1. phase' \in [Pairs -> Phases] /\ failure' \in [Pairs -> Failures]
  BY DEF WalkRefused, ControllerTypeOK, Set, Phases, Failures
<1>2. ControllerTypeOK'
  <2>1. begun' \in 0..MaxRuns /\ abandoned' \subseteq Pairs
    BY ControllerAssumption DEF WalkRefused, ControllerTypeOK
  <2>2. UNCHANGED <<held, busy, shownBusy, cancel, quit, thread>>
    BY DEF WalkRefused, Flags
  <2> QED
    BY <1>1, <2>1, <2>2 DEF ControllerTypeOK
<1>3. ThreadsInOrder' /\ OneBody'
  BY DEF WalkRefused, ThreadsInOrder, OneBody, Flags
<1>4. \A q \in Pairs : ShownTruly(q)'
  BY DEF WalkRefused, ShownTruly, Set
<1> QED
  BY <1>2, <1>3, <1>4

LEMMA NextPairKeeps ==
  ASSUME CtlInv, NEW t \in Threads, NextPair(t)
  PROVE  CtlInv'
<1> USE DEF CtlInv
<1>1. PICK p \in thread[t].queue :
         /\ phase' = Set(phase, {p}, "scanning")
         /\ failure' = Set(failure, {p}, "none")
         /\ thread' = [thread EXCEPT ![t].stage = "planning", ![t].on = {p},
                                     ![t].queue = @ \ {p}, ![t].errors = FALSE]
  BY DEF NextPair
<1> DEFINE x == [thread[t] EXCEPT !.stage = "planning", !.on = {p}, !.queue = @ \ {p},
                                  !.errors = FALSE]
<1>2. /\ thread[t] \in ThreadStates /\ thread[t].stage = "between" /\ thread[t].on = {}
      /\ InOrder(t, thread[t]) /\ t \in Manual /\ p \in Pairs
  BY <1>1 DEF NextPair, At, ControllerTypeOK, ThreadsInOrder, InOrder, ThreadStates
<1>3. /\ x \in ThreadStates /\ x.stage = "planning" /\ x.on = {p}
      /\ x.queue = thread[t].queue \ {p} /\ x.whole = thread[t].whole
  BY <1>2 DEF ThreadStates, ThreadStages
<1>4. InOrder(t, x)
  BY <1>2, <1>3 DEF InOrder
<1>5. thread' = [thread EXCEPT ![t] = x]
  BY <1>1
<1> HIDE DEF x
<1>6. /\ thread' \in [Threads -> ThreadStates]
      /\ thread'[t] = x /\ \A u \in Threads \ {t} : thread'[u] = thread[u]
      /\ ThreadsInOrder'
  BY <1>3, <1>4, <1>5, OneThreadSteps
<1>7. phase' \in [Pairs -> Phases] /\ failure' \in [Pairs -> Failures]
  BY <1>1 DEF ControllerTypeOK, Set, Phases, Failures
<1>8. ControllerTypeOK'
  BY <1>6, <1>7 DEF NextPair, ControllerTypeOK, Flags, Notes
<1>9. OneBody'
  BY <1>2, <1>3, <1>6, BodyStays DEF NextPair, Works, Flags
<1>10. \A q \in Pairs : ShownTruly(q)'
  <2> TAKE q \in Pairs
  <2>1. CASE q = p
    BY <2>1, <1>3, <1>6, AttendedIsTrue DEF Attends, Works
  <2>2. CASE q # p
    <3>1. Attends(x, q) <=> Attends(thread[t], q)
      BY <2>2, <1>2, <1>3 DEF Attends, Works
    <3>2. /\ phase'[q] = phase[q] /\ failure'[q] = failure[q] /\ held'[q] = held[q]
          /\ q \in abandoned' <=> q \in abandoned
      BY <2>2, <1>1 DEF NextPair, Set, Notes
    <3> QED
      BY <3>1, <3>2, <1>6, OthersStayTrue
  <2> QED
    BY <2>1, <2>2
<1> QED
  BY <1>6, <1>8, <1>9, <1>10

LEMMA PlanFailsKeeps ==
  ASSUME CtlInv, NEW t \in Threads, PlanFails(t)
  PROVE  CtlInv'
<1> USE DEF CtlInv
<1> DEFINE x == [thread[t] EXCEPT !.stage = "between", !.on = {}]
<1>1. /\ thread[t] \in ThreadStates /\ thread[t].stage = "planning"
      /\ InOrder(t, thread[t]) /\ t \in Manual
  BY DEF PlanFails, At, ControllerTypeOK, ThreadsInOrder, InOrder
<1>2. PICK p \in Pairs : thread[t].on = {p}
  BY <1>1 DEF InOrder
<1>3. /\ x \in ThreadStates /\ x.stage = "between" /\ x.on = {}
      /\ x.queue = thread[t].queue /\ x.whole = thread[t].whole
  BY <1>1 DEF ThreadStates, ThreadStages
<1>4. InOrder(t, x)
  BY <1>1, <1>3 DEF InOrder
<1>5. thread' = [thread EXCEPT ![t] = x]
  BY DEF PlanFails
<1> HIDE DEF x
<1>6. /\ thread' \in [Threads -> ThreadStates]
      /\ thread'[t] = x /\ \A u \in Threads \ {t} : thread'[u] = thread[u]
      /\ ThreadsInOrder'
  BY <1>3, <1>4, <1>5, OneThreadSteps
<1>7. phase' \in [Pairs -> Phases] /\ failure' \in [Pairs -> Failures]
  BY DEF PlanFails, ControllerTypeOK, Set, Phases, Failures
<1>8. ControllerTypeOK'
  BY <1>6, <1>7 DEF PlanFails, ControllerTypeOK, Flags, Notes
<1>9. OneBody'
  BY <1>1, <1>3, <1>6, BodyStays DEF PlanFails, Works, Flags
<1>10. \A q \in Pairs : ShownTruly(q)'
  <2> TAKE q \in Pairs
  <2>1. CASE q = p
    <3>1. phase'[q] = "error"
      BY <2>1, <1>2 DEF PlanFails, Set
    <3> QED
      BY <3>1 DEF ShownTruly
  <2>2. CASE q # p
    <3>1. Attends(x, q) <=> Attends(thread[t], q)
      BY <2>2, <1>1, <1>2, <1>3 DEF Attends, Works
    <3>2. /\ phase'[q] = phase[q] /\ failure'[q] = failure[q] /\ held'[q] = held[q]
          /\ q \in abandoned' <=> q \in abandoned
      BY <2>2, <1>2 DEF PlanFails, Set, Notes
    <3> QED
      BY <3>1, <3>2, <1>6, OthersStayTrue
  <2> QED
    BY <2>1, <2>2
<1> QED
  BY <1>6, <1>8, <1>9, <1>10

LEMMA LeaveLoopKeeps ==
  ASSUME CtlInv, NEW t \in Threads, LeaveLoop(t)
  PROVE  CtlInv'
<1> USE DEF CtlInv
<1> DEFINE x == [Gone EXCEPT !.stage = "over"]
<1>1. /\ thread[t] \in ThreadStates /\ thread[t].stage = "between" /\ thread[t].on = {}
      /\ InOrder(t, thread[t]) /\ t \in Manual /\ t # Burst
  BY ControllerAssumption DEF LeaveLoop, At, ControllerTypeOK, ThreadsInOrder, InOrder
<1>2. x \in ThreadStates /\ x.stage = "over" /\ x.on = {} /\ x.queue = {} /\ ~x.whole
  BY GoneIsTyped DEF ThreadStages
<1>3. InOrder(t, x)
  BY <1>1, <1>2 DEF InOrder
<1>4. thread' = [thread EXCEPT ![t] = x]
  BY DEF LeaveLoop
<1> HIDE DEF x
<1>5. /\ thread' \in [Threads -> ThreadStates]
      /\ thread'[t] = x /\ \A u \in Threads \ {t} : thread'[u] = thread[u]
      /\ ThreadsInOrder'
  BY <1>2, <1>3, <1>4, OneThreadSteps
<1>6. ControllerTypeOK'
  <2>1. {busy', shownBusy', cancel', quit'} \subseteq BOOLEAN
    BY DEF LeaveLoop, ControllerTypeOK
  <2>2. abandoned' \subseteq Pairs
    BY <1>1 DEF LeaveLoop, ControllerTypeOK, ThreadStates
  <2> QED
    BY <1>5, <2>1, <2>2 DEF LeaveLoop, ControllerTypeOK
<1>7. OneBody'
  <2>1. \A u \in Manual : ~Works(thread'[u])
    <3>1. Works(thread[t]) /\ ~Works(thread'[t])
      BY <1>1, <1>2, <1>5 DEF Works
    <3>2. \A u \in Manual \ {t} : ~Works(thread'[u])
      BY <1>1, <1>5, <3>1 DEF OneBody, Threads
    <3> QED
      BY <3>1, <3>2
  <2> QED
    BY <2>1 DEF LeaveLoop, OneBody
<1>8. \A q \in Pairs : ShownTruly(q)'
  <2> TAKE q \in Pairs
  <2>1. phase' = phase /\ failure' = failure /\ held' = held
    BY DEF LeaveLoop
  <2>2. CASE q \in thread[t].queue
    <3>1. q \in abandoned'
      BY <2>2 DEF LeaveLoop
    <3> QED
      BY <3>1 DEF ShownTruly
  <2>3. CASE q \notin thread[t].queue
    <3>1. ~Attends(x, q) /\ ~Attends(thread[t], q)
      BY <2>3, <1>1, <1>2 DEF Attends, Works
    <3>2. q \in abandoned' <=> q \in abandoned
      BY <2>3 DEF LeaveLoop
    <3> QED
      BY <2>1, <3>1, <3>2, <1>5, OthersStayTrue
  <2> QED
    BY <2>2, <2>3
<1> QED
  BY <1>5, <1>6, <1>7, <1>8

LEMMA WindUpKeeps ==
  ASSUME CtlInv, NEW t \in Threads, WindUp(t)
  PROVE  CtlInv'
<1> USE DEF CtlInv
<1>1. thread[t] = [Gone EXCEPT !.stage = "over"] /\ thread[t].stage = "over"
  BY DEF WindUp, At, ThreadsInOrder, InOrder
<1>2. thread' = [thread EXCEPT ![t] = Gone]
  <2>1. [[Gone EXCEPT !.stage = "over"] EXCEPT !.stage = "off"] = Gone
    <3> DEFINE over == [Gone EXCEPT !.stage = "over"]
               back == [over EXCEPT !.stage = "off"]
    <3>1. over \in ThreadStates
      BY GoneIsTyped DEF ThreadStages
    <3>2. back \in ThreadStates /\ Gone \in ThreadStates
      BY <3>1, GoneIsTyped DEF ThreadStates, ThreadStages
    <3>3. /\ over.guarded = Gone.guarded /\ over.queue = Gone.queue /\ over.on = Gone.on
          /\ over.whole = Gone.whole /\ over.seen = Gone.seen /\ over.errors = Gone.errors
      BY GoneIsTyped DEF ThreadStates
    <3>4. /\ back.stage = Gone.stage /\ back.guarded = Gone.guarded
          /\ back.queue = Gone.queue /\ back.on = Gone.on /\ back.whole = Gone.whole
          /\ back.seen = Gone.seen /\ back.errors = Gone.errors
      BY <3>1, <3>3, GoneIsTyped DEF ThreadStates
    <3> HIDE DEF over, back
    <3>5. back = Gone
      BY <3>2, <3>4 DEF ThreadStates
    <3> QED
      BY <3>5 DEF over, back
  <2>2. thread' = [thread EXCEPT ![t] = [thread[t] EXCEPT !.stage = "off"]]
    BY DEF WindUp, Moves
  <2> QED
    BY <2>1, <2>2, <1>1
<1>3. InOrder(t, Gone)
  BY GoneIsTyped DEF InOrder
<1>4. /\ thread' \in [Threads -> ThreadStates]
      /\ thread'[t] = Gone /\ \A u \in Threads \ {t} : thread'[u] = thread[u]
      /\ ThreadsInOrder'
  BY <1>2, <1>3, GoneIsTyped, OneThreadSteps
<1>5. ControllerTypeOK'
  <2>1. {busy', shownBusy', cancel', quit'} \subseteq BOOLEAN
    BY DEF WindUp, ControllerTypeOK
  <2> QED
    BY <1>4, <2>1 DEF WindUp, ControllerTypeOK, Notes
<1>6. ~Works(thread[t]) /\ ~Works(thread'[t])
  BY <1>1, <1>4, GoneIsTyped DEF Works
<1>7. OneBody'
  BY <1>4, <1>6, BodyStays DEF WindUp
<1>8. \A q \in Pairs : ShownTruly(q)'
  BY <1>4, <1>6, OthersStayTrue DEF WindUp, Attends, Notes
<1> QED
  BY <1>4, <1>5, <1>7, <1>8

\* While a run applies its plan and reports, only the pair it is on is told of, and it stays
\* attended to.
LEMMA AtWorkKeeps ==
  ASSUME CtlInv, NEW t \in Threads, NEW x \in ThreadStates,
         Works(thread[t]), x.stage \in {"applying", "reporting", "finishing"},
         x.on = thread[t].on, x.queue = thread[t].queue,
         thread[t].stage \in {"planning", "applying", "reporting"},
         t = Burst => ~x.whole,
         thread' = [thread EXCEPT ![t] = x],
         phase' \in [Pairs -> Phases], failure' \in [Pairs -> Failures],
         held' \in [Pairs -> BOOLEAN],
         \A p \in Pairs \ thread[t].on :
             phase'[p] = phase[p] /\ failure'[p] = failure[p] /\ held'[p] = held[p],
         UNCHANGED <<Flags, Notes>>
  PROVE  CtlInv'
<1> USE DEF CtlInv
<1>1. InOrder(t, thread[t]) /\ thread[t] \in ThreadStates
  BY DEF ThreadsInOrder, ControllerTypeOK
<1>2. InOrder(t, x)
  BY <1>1 DEF InOrder
<1>3. /\ thread' \in [Threads -> ThreadStates]
      /\ thread'[t] = x /\ \A u \in Threads \ {t} : thread'[u] = thread[u]
      /\ ThreadsInOrder'
  BY <1>2, OneThreadSteps
<1>4. ControllerTypeOK'
  BY <1>3 DEF ControllerTypeOK, Flags, Notes
<1>5. OneBody'
  BY <1>3, BodyStays DEF Works, Flags
<1>6. \A q \in Pairs : ShownTruly(q)'
  <2> TAKE q \in Pairs
  <2>1. CASE q \in thread[t].on
    BY <2>1, <1>3, AttendedIsTrue DEF Attends, Works
  <2>2. CASE q \notin thread[t].on
    <3>1. Attends(x, q) <=> Attends(thread[t], q)
      BY DEF Attends, Works
    <3> QED
      BY <3>1, <2>2, <1>3, OthersStayTrue DEF Notes
  <2> QED
    BY <2>1, <2>2
<1> QED
  BY <1>3, <1>4, <1>5, <1>6

LEMMA PlansKeeps ==
  ASSUME CtlInv, NEW t \in Threads, Plans(t)
  PROVE  CtlInv'
<1> USE DEF CtlInv
<1>1. PICK doing \in {"synced", "syncing"} : phase' = Set(phase, thread[t].on, doing)
  BY DEF Plans
<1>2. PICK complete \in BOOLEAN :
         thread' = [thread EXCEPT ![t].stage = "applying", ![t].whole = complete,
                                  ![t].seen = complete]
  BY DEF Plans
<1> DEFINE x == [thread[t] EXCEPT !.stage = "applying", !.whole = complete, !.seen = complete]
<1>3. /\ thread[t] \in ThreadStates /\ thread[t].stage = "planning"
      /\ InOrder(t, thread[t]) /\ t \in Manual /\ t # Burst
  BY ControllerAssumption DEF Plans, At, ControllerTypeOK, ThreadsInOrder, InOrder
<1>4. /\ x \in ThreadStates /\ x.stage = "applying" /\ x.on = thread[t].on
      /\ x.queue = thread[t].queue
  BY <1>3 DEF ThreadStates, ThreadStages
<1>5. thread' = [thread EXCEPT ![t] = x]
  BY <1>2
<1> HIDE DEF x
<1>6. phase' \in [Pairs -> Phases]
  BY <1>1 DEF ControllerTypeOK, Set, Phases
<1>7. \A p \in Pairs \ thread[t].on : phase'[p] = phase[p]
  BY <1>1 DEF Set
<1> QED
  BY <1>3, <1>4, <1>5, <1>6, <1>7, AtWorkKeeps DEF Plans, ControllerTypeOK, Works

LEMMA OpFailsKeeps ==
  ASSUME CtlInv, NEW t \in Threads, OpFails(t)
  PROVE  CtlInv'
<1> USE DEF CtlInv
<1> DEFINE x == [thread[t] EXCEPT !.errors = TRUE]
<1>1. /\ thread[t] \in ThreadStates /\ thread[t].stage = "applying" /\ InOrder(t, thread[t])
  BY DEF OpFails, At, ControllerTypeOK, ThreadsInOrder
<1>2. /\ x \in ThreadStates /\ x.stage = "applying" /\ x.on = thread[t].on
      /\ x.queue = thread[t].queue /\ x.whole = thread[t].whole
  BY <1>1 DEF ThreadStates, ThreadStages
<1>3. thread' = [thread EXCEPT ![t] = x]
  BY DEF OpFails
<1> HIDE DEF x
<1>4. failure' \in [Pairs -> Failures]
  BY DEF OpFails, ControllerTypeOK, Set, Failures
<1>5. \A p \in Pairs \ thread[t].on : failure'[p] = failure[p]
  BY DEF OpFails, Set
<1>6. Works(thread[t]) /\ (t = Burst => ~x.whole) /\ UNCHANGED <<Flags, Notes>>
  BY <1>1, <1>2 DEF OpFails, Works, InOrder
<1>7. phase' \in [Pairs -> Phases] /\ phase' = phase /\ held' \in [Pairs -> BOOLEAN] /\ held' = held
  BY <1>4 DEF OpFails, ControllerTypeOK
<1> QED
  BY <1>1, <1>2, <1>3, <1>4, <1>5, <1>6, <1>7, AtWorkKeeps

LEMMA FolderUnseenKeeps ==
  ASSUME CtlInv, NEW t \in Threads, FolderUnseen(t)
  PROVE  CtlInv'
<1> USE DEF CtlInv
<1> DEFINE x == [thread[t] EXCEPT !.seen = FALSE]
<1>1. /\ thread[t] \in ThreadStates /\ thread[t].stage = "applying" /\ InOrder(t, thread[t])
  BY DEF FolderUnseen, At, ControllerTypeOK, ThreadsInOrder
<1>2. /\ x \in ThreadStates /\ x.stage = "applying" /\ x.on = thread[t].on
      /\ x.queue = thread[t].queue /\ x.whole = thread[t].whole
  BY <1>1 DEF ThreadStates, ThreadStages
<1>3. thread' = [thread EXCEPT ![t] = x]
  BY DEF FolderUnseen
<1> HIDE DEF x
<1> QED
  BY <1>1, <1>2, <1>3, AtWorkKeeps DEF FolderUnseen, ControllerTypeOK, Works, InOrder

LEMMA AppliedKeeps ==
  ASSUME CtlInv, NEW t \in Threads, Applied(t)
  PROVE  CtlInv'
<1> USE DEF CtlInv
<1> DEFINE x == [thread[t] EXCEPT !.stage = "reporting"]
<1>1. /\ thread[t] \in ThreadStates /\ thread[t].stage = "applying" /\ InOrder(t, thread[t])
  BY DEF Applied, At, ControllerTypeOK, ThreadsInOrder
<1>2. /\ x \in ThreadStates /\ x.stage = "reporting" /\ x.on = thread[t].on
      /\ x.queue = thread[t].queue /\ x.whole = thread[t].whole
  BY <1>1 DEF ThreadStates, ThreadStages
<1>3. thread' = [thread EXCEPT ![t] = x]
  BY DEF Applied, Moves
<1> HIDE DEF x
<1> QED
  BY <1>1, <1>2, <1>3, AtWorkKeeps DEF Applied, ControllerTypeOK, Works, InOrder

LEMMA ReportHeldKeeps ==
  ASSUME CtlInv, NEW t \in Threads, ReportHeld(t)
  PROVE  CtlInv'
<1> USE DEF CtlInv
<1> DEFINE x == [thread[t] EXCEPT !.stage = "finishing", !.errors = TRUE]
<1>1. /\ thread[t] \in ThreadStates /\ thread[t].stage = "reporting" /\ InOrder(t, thread[t])
  BY DEF ReportHeld, At, ControllerTypeOK, ThreadsInOrder
<1>2. /\ x \in ThreadStates /\ x.stage = "finishing" /\ x.on = thread[t].on
      /\ x.queue = thread[t].queue /\ x.whole = thread[t].whole
  BY <1>1 DEF ThreadStates, ThreadStages
<1>3. thread' = [thread EXCEPT ![t] = x]
  BY DEF ReportHeld
<1> HIDE DEF x
<1>4. /\ phase' \in [Pairs -> Phases] /\ failure' \in [Pairs -> Failures]
      /\ held' \in [Pairs -> BOOLEAN]
  BY DEF ReportHeld, ControllerTypeOK, Set, Phases, Failures
<1>5. \A p \in Pairs \ thread[t].on :
          phase'[p] = phase[p] /\ failure'[p] = failure[p] /\ held'[p] = held[p]
  BY DEF ReportHeld, Set
<1>6. Works(thread[t]) /\ (t = Burst => ~x.whole) /\ UNCHANGED <<Flags, Notes>>
  BY <1>1, <1>2 DEF ReportHeld, Works, InOrder
<1>7. held' \in [Pairs -> BOOLEAN]
  BY <1>4 DEF ReportHeld, ControllerTypeOK
<1> QED
  BY <1>1, <1>2, <1>3, <1>4, <1>5, <1>6, <1>7, AtWorkKeeps

LEMMA HoldsNothingKeeps ==
  ASSUME CtlInv, NEW t \in Threads, HoldsNothing(t)
  PROVE  CtlInv'
<1> USE DEF CtlInv
<1> DEFINE x == [thread[t] EXCEPT !.stage = "finishing"]
<1>1. /\ thread[t] \in ThreadStates /\ thread[t].stage = "reporting" /\ InOrder(t, thread[t])
  BY DEF HoldsNothing, At, ControllerTypeOK, ThreadsInOrder
<1>2. /\ x \in ThreadStates /\ x.stage = "finishing" /\ x.on = thread[t].on
      /\ x.queue = thread[t].queue /\ x.whole = thread[t].whole
  BY <1>1 DEF ThreadStates, ThreadStages
<1>3. thread' = [thread EXCEPT ![t] = x]
  BY DEF HoldsNothing, Moves
<1> HIDE DEF x
<1>4. failure' \in [Pairs -> Failures] /\ held' \in [Pairs -> BOOLEAN]
  BY DEF HoldsNothing, ControllerTypeOK, Set, Failures
<1>5. \A p \in Pairs \ thread[t].on : failure'[p] = failure[p] /\ held'[p] = held[p]
  BY DEF HoldsNothing, Set
<1> QED
  BY <1>1, <1>2, <1>3, <1>4, <1>5, AtWorkKeeps
     DEF HoldsNothing, ControllerTypeOK, Works, InOrder

LEMMA PairFinishedKeeps ==
  ASSUME CtlInv, NEW t \in Threads, PairFinished(t)
  PROVE  CtlInv'
<1> USE DEF CtlInv
<1> DEFINE x == IF t \in Manual THEN [thread[t] EXCEPT !.stage = "between", !.on = {}]
                ELSE Gone
<1>1. /\ thread[t] \in ThreadStates /\ thread[t].stage = "finishing"
      /\ InOrder(t, thread[t])
  BY DEF PairFinished, At, ControllerTypeOK, ThreadsInOrder
<1>2. PICK p \in Pairs : thread[t].on = {p}
  BY <1>1 DEF InOrder
<1>3. /\ x \in ThreadStates /\ x.on = {} /\ x.queue = thread[t].queue
      /\ x.stage = IF t \in Manual THEN "between" ELSE "off"
      /\ t = Burst => ~x.whole
  BY <1>1, ControllerAssumption, GoneIsTyped DEF ThreadStates, ThreadStages, InOrder
<1>4. InOrder(t, x)
  BY <1>1, <1>3 DEF InOrder
<1>5. thread' = [thread EXCEPT ![t] = x]
  BY DEF PairFinished
<1>6. t \notin Manual => x = Gone
  OBVIOUS
<1> HIDE DEF x
<1>7. /\ thread' \in [Threads -> ThreadStates]
      /\ thread'[t] = x /\ \A u \in Threads \ {t} : thread'[u] = thread[u]
      /\ ThreadsInOrder'
  BY <1>3, <1>4, <1>5, OneThreadSteps
<1>8. /\ phase' = Set(phase, {p}, IF EndsClean(t, p) THEN "synced" ELSE "error")
      /\ failure' = IF EndsClean(t, p) THEN Set(failure, {p}, "none") ELSE failure
      /\ UNCHANGED <<held, Flags, Notes>>
  BY <1>2 DEF PairFinished
<1>9. phase' \in [Pairs -> Phases] /\ failure' \in [Pairs -> Failures]
  BY <1>8 DEF ControllerTypeOK, Set, Phases, Failures
<1>10. ControllerTypeOK'
  BY <1>7, <1>8, <1>9 DEF ControllerTypeOK, Flags, Notes
<1>11. OneBody'
  <2>1. CASE t \in Manual
    BY <2>1, <1>1, <1>3, <1>7, <1>8, BodyStays DEF Works, Flags
  <2>2. CASE t \notin Manual
    BY <2>2, <1>7, <1>8, BodyStaysForWatcher DEF Flags
  <2> QED
    BY <2>1, <2>2
<1>12. \A q \in Pairs : ShownTruly(q)'
  <2> TAKE q \in Pairs
  <2>1. CASE q = p
    <3>1. CASE EndsClean(t, p)
      <4>1. phase'[q] = "synced" /\ failure'[q] = "none" /\ ~held'[q]
        BY <3>1, <2>1, <1>8 DEF Set, EndsClean
      <4> QED
        BY <4>1 DEF ShownTruly
    <3>2. CASE ~EndsClean(t, p)
      <4>1. phase'[q] = "error"
        BY <3>2, <2>1, <1>8 DEF Set
      <4> QED
        BY <4>1 DEF ShownTruly
    <3> QED
      BY <3>1, <3>2
  <2>2. CASE q # p
    <3>1. Attends(x, q) <=> Attends(thread[t], q)
      BY <2>2, <1>1, <1>2, <1>3 DEF Attends, Works, InOrder
    <3>2. /\ phase'[q] = phase[q] /\ failure'[q] = failure[q] /\ held'[q] = held[q]
          /\ q \in abandoned' <=> q \in abandoned
      BY <2>2, <1>8 DEF Set, Notes
    <3> QED
      BY <3>1, <3>2, <1>7, OthersStayTrue
  <2> QED
    BY <2>1, <2>2
<1> QED
  BY <1>7, <1>10, <1>11, <1>12

LEMMA CtlStep == CtlInv /\ [ControllerNext]_ctlVars => CtlInv'
<1> SUFFICES ASSUME CtlInv, [ControllerNext]_ctlVars PROVE CtlInv'
  OBVIOUS
<1>1. CASE UNCHANGED ctlVars
  BY <1>1 DEF ctlVars, CtlInv, ControllerTypeOK, ThreadsInOrder, OneBody, ShownTruly
<1>2. CASE ControllerNext
  BY <1>2, RunKeeps, CancelKeeps, QuitWalkKeeps, WatcherRunKeeps, WalkRefusedKeeps, NextPairKeeps,
     PlanFailsKeeps, LeaveLoopKeeps, WindUpKeeps, PlansKeeps, OpFailsKeeps, FolderUnseenKeeps,
     AppliedKeeps, ReportHeldKeeps, HoldsNothingKeeps, PairFinishedKeeps
     DEF ControllerNext, ThreadStep
<1> QED
  BY <1>1, <1>2

LEMMA CtlInvariant == ControllerSpec => []CtlInv
  BY CtlInitOk, CtlStep, PTL DEF ControllerSpec

\* The typing of the Controller's state, for any pairs and threads.
THEOREM ControllerTypeCorrect == ControllerSpec => []ControllerTypeOK
<1>1. CtlInv => ControllerTypeOK
  BY DEF CtlInv
<1> QED
  BY <1>1, CtlInvariant, PTL

\* However runs overlap, fail and are cancelled: one manual run at a time, nothing shown as
\* at work that is not, and what is shown once a pair's runs are over is how they ended.
THEOREM TheFrontendsSeeTheTruth == ControllerSpec => []PhaseIsTrue
<1>1. CtlInv => PhaseIsTrue
  <2> SUFFICES ASSUME CtlInv PROVE PhaseIsTrue
    OBVIOUS
  <2>1. OneManualRun
    <3>1. \A t \in Threads : InBody(t) <=> Works(thread[t])
      BY DEF InBody, Works
    <3> DEFINE S == {t \in Manual : InBody(t)}
    <3>2. S = {} \/ \E t \in S : S = {t}
      BY <3>1 DEF CtlInv, OneBody, Threads
    <3>3. CASE S = {}
      <4>1. Cardinality(S) = 0
        BY <3>3, FS_EmptySet
      <4> QED
        BY <4>1, <3>1 DEF OneManualRun, CtlInv, OneBody, Threads
    <3>4. ASSUME NEW t \in S, S = {t} PROVE OneManualRun
      <4>1. Cardinality(S) = 1
        BY <3>4, FS_Singleton
      <4> QED
        BY <4>1, <3>1 DEF OneManualRun, CtlInv, OneBody, Threads
    <3> QED
      BY <3>2, <3>3, <3>4
  <2>2. \A p \in Pairs : Attended(p) <=> \E t \in Threads : Attends(thread[t], p)
    BY DEF Attended, Attends, InBody, Works
  <2>3. WorkingMeansWork /\ RestIsTold
    BY <2>2 DEF CtlInv, ShownTruly, WorkingMeansWork, RestIsTold
  <2> QED
    BY <2>1, <2>3 DEF PhaseIsTrue
<1> QED
  BY <1>1, CtlInvariant, PTL

\* A cancellation stands until the run it was meant for is over, and the notice of deletions
\* held back until a whole run has settled them: bursts and partial plans never take it down.
THEOREM NoticesStandUntilSettled == ControllerSpec => NothingIsDroppedEarly
<1>1. CtlInv /\ [ControllerNext]_ctlVars =>
         [cancel /\ ~cancel' => \A t \in Manual : ~InBody(t)]_ctlVars
  <2> SUFFICES ASSUME CtlInv, ControllerNext, cancel, ~cancel'
               PROVE  \A t \in Manual : ~InBody(t)
    OBVIOUS
  <2>1. ~busy
    BY DEF ControllerNext, ThreadStep, Run, TakeBusy, Cancel, WatcherRun, WalkRefused, QuitWalk,
           NextPair, PlanFails, Plans, LeaveLoop, WindUp, Applied, HoldsNothing, PairFinished,
           OpFails, FolderUnseen, ReportHeld, Flags
  <2> QED
    BY <2>1 DEF CtlInv, OneBody, InBody, Works
<1>2. CtlInv /\ [ControllerNext]_ctlVars =>
         [\A p \in Pairs : held[p] /\ ~held'[p] =>
             \E t \in Threads : /\ At(t, "reporting") /\ p \in thread[t].on
                                /\ t # Burst /\ thread[t].whole /\ ~Flag(t)]_ctlVars
  <2> SUFFICES ASSUME CtlInv, ControllerNext, NEW p \in Pairs, held[p], ~held'[p]
               PROVE  \E t \in Threads : /\ At(t, "reporting") /\ p \in thread[t].on
                                         /\ t # Burst /\ thread[t].whole /\ ~Flag(t)
    OBVIOUS
  <2>1. \A t \in Threads : ReportHeld(t) => held'[p]
    BY DEF ReportHeld, Set
  <2>2. PICK t \in Threads : HoldsNothing(t)
    BY <2>1 DEF ControllerNext, ThreadStep, Run, Cancel, WatcherRun, WalkRefused, QuitWalk,
           NextPair, PlanFails, Plans, LeaveLoop, WindUp, Applied, PairFinished, OpFails,
           FolderUnseen
  <2>3. At(t, "reporting") /\ Releases(t) /\ p \in thread[t].on
    BY <2>2 DEF HoldsNothing, Set
  <2>4. t # Burst
    BY <2>3 DEF Releases, CtlInv, ThreadsInOrder, InOrder
  <2> QED
    BY <2>3, <2>4 DEF Releases
<1> QED
  BY <1>1, <1>2, CtlInvariant, PTL
     DEF ControllerSpec, NothingIsDroppedEarly, CancelIsHeard, HoldIsSettledWhole

-----------------------------------------------------------------------------
(***************************************************************************)
(* What the database keeps of a pair.                                       *)
(***************************************************************************)
\* Of a table: every row was taken at `root`.
TakenAt(table, root) == \A p \in Rels : table[p] \in {root, Nowhere}

\* A run works where the configuration says, and no removal is under way beside it.
RunsAreAtHome ==
    \A r \in Runs : dbRuns[r].stage # "off" =>
        dbRuns[r].root = dbConfig /\ dbConfig # Nowhere /\ dbForget = 0

\* From its pin on it works on a record pinned to its place, and what it read was taken there.
RunsArePinned ==
    \A r \in Runs :
        /\ dbRuns[r].stage \in {"pinned", "imported", "loaded"} => dbPinned = dbRuns[r].root
        /\ dbRuns[r].stage \in {"imported", "loaded"} => TakenAt(dbRuns[r].base, dbRuns[r].root)

\* Where nothing is pinned no failure is on record, and rows are those of an older build, of
\* the place the pair has had all along.
UnpinnedRecord ==
    dbPinned = Nowhere => dbRetries = NoRows /\ TakenAt(dbRows, dbConfig)

\* The file of a still older build is of that place too, and no removal has begun.
LegacyIsOwn == dbLegacy # Nowhere => dbLegacy = dbConfig /\ dbForget = 0

\* A removal empties the tables in its order, the pin last.
RemovalIsOrdered ==
    /\ dbForget >= 1 => dbRows = NoRows
    /\ dbForget >= 2 => dbRetries = NoRows

DbInv ==
    /\ DbTypeOK
    /\ RunsAreAtHome
    /\ RunsArePinned
    /\ PinnedRecord
    /\ UnpinnedRecord
    /\ LegacyIsOwn
    /\ RemovalIsOrdered

LEMMA ForgetsThree ==
  /\ Len(ForgetOrder) = 3
  /\ ForgetOrder[1] = "baseline" /\ ForgetOrder[2] = "retry_state"
  /\ ForgetOrder[3] = "pair_roots"
  BY DEF ForgetOrder

LEMMA TablesAreTyped ==
  /\ NoRows \in [Rels -> Places]
  /\ \A root \in Places : AllFrom(root) \in [Rels -> Places]
  /\ \A table \in [Rels -> Places], root \in Places :
        \A paths : Put(table, paths, root) \in [Rels -> Places]
  BY DEF NoRows, AllFrom, Put, Places

\* What the operations on a table leave of where its rows were taken.
LEMMA TablesTakenAt ==
  /\ \A root : TakenAt(NoRows, root)
  /\ \A root : TakenAt(AllFrom(root), root)
  /\ \A table, root, paths : TakenAt(table, root) => TakenAt(Put(table, paths, root), root)
  /\ \A table, root, paths : TakenAt(table, root) => TakenAt(Put(table, paths, Nowhere), root)
  BY DEF TakenAt, NoRows, AllFrom, Put

LEMMA OpenedKeeps ==
  /\ DbTypeOK => Opened \in [Rels -> Places]
  /\ \A root : TakenAt(dbRows, root) => TakenAt(Opened, root)
  BY TablesAreTyped, TablesTakenAt DEF DbTypeOK, Opened, Places

LEMMA PinnedMeans ==
  /\ PinnedRecord <=>
        (dbPinned # Nowhere => TakenAt(dbRows, dbPinned) /\ TakenAt(dbRetries, dbPinned))
  /\ PinnedRecord' <=>
        (dbPinned' # Nowhere => TakenAt(dbRows', dbPinned') /\ TakenAt(dbRetries', dbPinned'))
  BY DEF PinnedRecord, TakenAt

LEMMA DbInitOk == DbInit => DbInv
<1> SUFFICES ASSUME DbInit PROVE DbInv
  OBVIOUS
<1>1. dbConfig \in Places /\ Nowhere \in Places /\ dbConfig # Nowhere
  BY DbAssumption DEF DbInit, Places
<1>2. Off \in RunStates /\ Off.stage = "off"
  BY TablesAreTyped DEF Off, RunStates, Places
<1>3. dbRows \in [Rels -> Places] /\ TakenAt(dbRows, dbConfig)
  BY <1>1, TablesAreTyped, TablesTakenAt DEF DbInit
<1>4. DbTypeOK
  <2>1. dbPending \in SUBSET Rels
    BY DEF DbInit
  <2>2. dbForget \in 0..Len(ForgetOrder) /\ dbChanges \in 0..MaxChanges
    BY ForgetsThree, DbAssumption DEF DbInit
  <2> QED
    BY <2>1, <2>2, <1>1, <1>2, <1>3, TablesAreTyped DEF DbInit, DbTypeOK
<1>5. RunsAreAtHome /\ RunsArePinned
  BY <1>2 DEF DbInit, RunsAreAtHome, RunsArePinned
<1>6. PinnedRecord /\ UnpinnedRecord /\ LegacyIsOwn /\ RemovalIsOrdered
  BY <1>1, <1>3 DEF DbInit, PinnedRecord, UnpinnedRecord, LegacyIsOwn, RemovalIsOrdered
<1> QED
  BY <1>4, <1>5, <1>6 DEF DbInv

\* A run that goes on to another stage, with what it has read.
LEMMA DbRunSteps ==
  ASSUME dbRuns \in [Runs -> RunStates], NEW r \in Runs, NEW x \in RunStates,
         dbRuns' = [dbRuns EXCEPT ![r] = x]
  PROVE  /\ dbRuns' \in [Runs -> RunStates]
         /\ dbRuns'[r] = x /\ \A q \in Runs \ {r} : dbRuns'[q] = dbRuns[q]
  OBVIOUS

LEMMA BeginDbRunKeeps ==
  ASSUME Overlap = {}, DbInv, NEW r \in Runs, BeginDbRun(r) PROVE DbInv'
<1> USE DEF DbInv
<1> DEFINE x == [Off EXCEPT !.stage = "started", !.root = dbConfig]
<1>1. x \in RunStates /\ x.stage = "started" /\ x.root = dbConfig
  BY TablesAreTyped DEF Off, RunStates, DbTypeOK
<1>2. dbRuns' = [dbRuns EXCEPT ![r] = x]
  BY DEF BeginDbRun
<1> HIDE DEF x
<1>3. /\ dbRuns' \in [Runs -> RunStates]
      /\ dbRuns'[r] = x /\ \A q \in Runs \ {r} : dbRuns'[q] = dbRuns[q]
  BY <1>1, <1>2, DbRunSteps DEF DbTypeOK
<1>4. /\ dbForget = 0 /\ dbConfig # Nowhere
      /\ UNCHANGED <<dbRows, dbPending, dbRetries, dbPinned, dbLegacy, RunVars>>
  BY DEF BeginDbRun
<1>5. DbTypeOK'
  BY <1>3, <1>4 DEF DbTypeOK, RunVars
<1>6. RunsAreAtHome' /\ RunsArePinned'
  BY <1>1, <1>3, <1>4 DEF RunsAreAtHome, RunsArePinned, RunVars
<1>7. PinnedRecord' /\ UnpinnedRecord' /\ LegacyIsOwn' /\ RemovalIsOrdered'
  BY <1>4 DEF PinnedRecord, UnpinnedRecord, LegacyIsOwn, RemovalIsOrdered, RunVars
<1> QED
  BY <1>5, <1>6, <1>7

LEMMA EndDbRunKeeps ==
  ASSUME DbInv, NEW r \in Runs, EndDbRun(r) PROVE DbInv'
<1> USE DEF DbInv
<1>1. Off \in RunStates /\ Off.stage = "off"
  BY TablesAreTyped DEF Off, RunStates, Places
<1>2. dbRuns' = [dbRuns EXCEPT ![r] = Off]
      /\ UNCHANGED <<dbRows, dbPending, dbRetries, dbPinned, dbLegacy, RunVars>>
  BY DEF EndDbRun
<1>3. /\ dbRuns' \in [Runs -> RunStates]
      /\ dbRuns'[r] = Off /\ \A q \in Runs \ {r} : dbRuns'[q] = dbRuns[q]
  BY <1>1, <1>2, DbRunSteps DEF DbTypeOK
<1>4. DbTypeOK'
  BY <1>2, <1>3 DEF DbTypeOK, RunVars
<1>5. RunsAreAtHome' /\ RunsArePinned'
  BY <1>1, <1>2, <1>3 DEF RunsAreAtHome, RunsArePinned, RunVars
<1>6. PinnedRecord' /\ UnpinnedRecord' /\ LegacyIsOwn' /\ RemovalIsOrdered'
  BY <1>2 DEF PinnedRecord, UnpinnedRecord, LegacyIsOwn, RemovalIsOrdered, RunVars
<1> QED
  BY <1>4, <1>5, <1>6

\* A step of a run that writes rows and failures of its own place under its pin.
LEMMA WritesKeep ==
  ASSUME DbInv, NEW r \in Runs, dbRuns[r].stage # "off",
         NEW x \in RunStates, dbRuns' = [dbRuns EXCEPT ![r] = x],
         x.root = dbRuns[r].root, x.stage \in {"pinned", "imported", "loaded"},
         x.stage \in {"imported", "loaded"} => TakenAt(x.base, x.root),
         dbPinned' = x.root,
         dbRows' \in [Rels -> Places], TakenAt(dbRows', x.root),
         dbRetries' \in [Rels -> Places], TakenAt(dbRetries', x.root),
         dbPending' \in SUBSET Rels, dbLegacy' \in {Nowhere, dbLegacy},
         UNCHANGED RunVars
  PROVE  DbInv'
<1> USE DEF DbInv
<1>1. /\ dbRuns' \in [Runs -> RunStates]
      /\ dbRuns'[r] = x /\ \A q \in Runs \ {r} : dbRuns'[q] = dbRuns[q]
  BY DbRunSteps DEF DbTypeOK
<1>2. dbConfig # Nowhere /\ x.root = dbConfig /\ dbForget = 0
  BY DEF RunsAreAtHome
<1>3. DbTypeOK'
  BY <1>1, <1>2, DbAssumption DEF DbTypeOK, RunVars, Places
<1>4. RunsAreAtHome'
  BY <1>1, <1>2 DEF RunsAreAtHome, RunVars
<1>5. RunsArePinned'
  <2> SUFFICES ASSUME NEW q \in Runs
               PROVE  /\ dbRuns'[q].stage \in {"pinned", "imported", "loaded"} =>
                             dbPinned' = dbRuns'[q].root
                      /\ dbRuns'[q].stage \in {"imported", "loaded"} =>
                             TakenAt(dbRuns'[q].base, dbRuns'[q].root)
    BY DEF RunsArePinned
  <2>1. CASE q = r
    BY <2>1, <1>1
  <2>2. CASE q # r
    <3>1. dbRuns[q].stage # "off" => dbRuns[q].root = x.root
      BY <1>2 DEF RunsAreAtHome
    <3> QED
      BY <2>2, <3>1, <1>1 DEF RunsArePinned
  <2> QED
    BY <2>1, <2>2
<1>6. PinnedRecord'
  BY PinnedMeans
<1>7. UnpinnedRecord' /\ LegacyIsOwn' /\ RemovalIsOrdered'
  BY <1>2 DEF UnpinnedRecord, LegacyIsOwn, RemovalIsOrdered, RunVars
<1> QED
  BY <1>3, <1>4, <1>5, <1>6, <1>7

LEMMA PinKeeps ==
  ASSUME DbInv, NEW r \in Runs, Pin(r) PROVE DbInv'
<1> USE DEF DbInv
<1> DEFINE root == dbRuns[r].root
           x == [dbRuns[r] EXCEPT !.stage = "pinned"]
<1>1. dbRuns[r] \in RunStates /\ dbRuns[r].stage = "started"
  BY DEF Pin, DbTypeOK
<1>2. x \in RunStates /\ x.stage = "pinned" /\ x.root = root
  BY <1>1 DEF RunStates
<1>3. /\ dbRuns' = [dbRuns EXCEPT ![r] = x]
      /\ dbRows' = AfterPin(Opened, root) /\ dbRetries' = AfterPin(dbRetries, root)
      /\ dbPinned' = root /\ dbPending' = {} /\ dbLegacy' = dbLegacy /\ UNCHANGED RunVars
  BY DEF Pin
<1>4. root = dbConfig /\ root # Nowhere
  BY <1>1 DEF RunsAreAtHome
<1> HIDE DEF x
<1>5. dbPinned \in {Nowhere, root} => TakenAt(dbRows, root) /\ TakenAt(dbRetries, root)
  BY <1>4, PinnedMeans, TablesTakenAt DEF UnpinnedRecord
<1>6. dbRows' \in [Rels -> Places] /\ dbRetries' \in [Rels -> Places]
  BY <1>3, OpenedKeeps, TablesAreTyped DEF AfterPin, DbTypeOK
<1>7. TakenAt(dbRows', root) /\ TakenAt(dbRetries', root)
  BY <1>3, <1>5, OpenedKeeps, TablesTakenAt DEF AfterPin
<1> QED
  BY <1>1, <1>2, <1>3, <1>6, <1>7, WritesKeep

\* What a run finds once it has pinned: everything was taken at its place.
LEMMA PinnedFinds ==
  ASSUME DbInv, NEW r \in Runs, dbRuns[r].stage \in {"pinned", "imported", "loaded"}
  PROVE  /\ dbPinned = dbRuns[r].root /\ dbRuns[r].root = dbConfig /\ dbConfig # Nowhere
         /\ TakenAt(dbRows, dbRuns[r].root) /\ TakenAt(Opened, dbRuns[r].root)
         /\ TakenAt(dbRetries, dbRuns[r].root)
<1>1. dbPinned = dbRuns[r].root /\ dbRuns[r].root = dbConfig /\ dbConfig # Nowhere
  BY DEF DbInv, RunsAreAtHome, RunsArePinned
<1>2. TakenAt(dbRows, dbPinned) /\ TakenAt(dbRetries, dbPinned)
  BY <1>1, PinnedMeans DEF DbInv
<1> QED
  BY <1>1, <1>2, OpenedKeeps

LEMMA LoadKeeps ==
  ASSUME DbInv, NEW r \in Runs, Load(r) PROVE DbInv'
<1> USE DEF DbInv
<1> DEFINE x == [dbRuns[r] EXCEPT !.stage = "loaded", !.base = Opened]
<1>1. dbRuns[r] \in RunStates /\ dbRuns[r].stage = "pinned"
  BY DEF Load, DbTypeOK
<1>2. x \in RunStates /\ x.stage = "loaded" /\ x.root = dbRuns[r].root /\ x.base = Opened
  BY <1>1, OpenedKeeps DEF RunStates
<1>3. /\ dbRuns' = [dbRuns EXCEPT ![r] = x]
      /\ dbRows' = Opened /\ dbPending' = {}
      /\ UNCHANGED <<dbRetries, dbPinned, dbLegacy, RunVars>>
  BY DEF Load
<1> HIDE DEF x
<1>4. Opened \in [Rels -> Places] /\ dbRetries \in [Rels -> Places]
  BY OpenedKeeps DEF DbTypeOK
<1> QED
  BY <1>1, <1>2, <1>3, <1>4, PinnedFinds, WritesKeep

LEMMA ImportKeeps ==
  ASSUME DbInv, NEW r \in Runs, Import(r) PROVE DbInv'
<1> USE DEF DbInv
<1> DEFINE x == [dbRuns[r] EXCEPT !.stage = "imported", !.base = AllFrom(dbLegacy)]
<1>1. dbRuns[r] \in RunStates /\ dbRuns[r].stage = "pinned" /\ dbLegacy \in Places
  BY DEF Import, DbTypeOK
<1>2. /\ x \in RunStates /\ x.stage = "imported" /\ x.root = dbRuns[r].root
      /\ x.base = AllFrom(dbLegacy)
  BY <1>1, TablesAreTyped DEF RunStates
<1>3. /\ dbRuns' = [dbRuns EXCEPT ![r] = x]
      /\ dbRows' = AllFrom(dbLegacy) /\ dbPending' = {}
      /\ UNCHANGED <<dbRetries, dbPinned, dbLegacy, RunVars>>
  BY DEF Import
<1> HIDE DEF x
<1>4. dbLegacy = dbRuns[r].root
  BY <1>1, PinnedFinds DEF Import, LegacyIsOwn
<1>5. TakenAt(AllFrom(dbLegacy), dbRuns[r].root) /\ AllFrom(dbLegacy) \in [Rels -> Places]
  BY <1>1, <1>4, TablesAreTyped, TablesTakenAt
<1>6. dbRetries \in [Rels -> Places]
  BY DEF DbTypeOK
<1> QED
  BY <1>1, <1>2, <1>3, <1>5, <1>6, PinnedFinds, WritesKeep

LEMMA SetAsideKeeps ==
  ASSUME DbInv, NEW r \in Runs, SetAside(r) PROVE DbInv'
<1> USE DEF DbInv
<1> DEFINE x == [dbRuns[r] EXCEPT !.stage = "loaded"]
<1>1. dbRuns[r] \in RunStates /\ dbRuns[r].stage = "imported"
  BY DEF SetAside, DbTypeOK
<1>2. x \in RunStates /\ x.stage = "loaded" /\ x.root = dbRuns[r].root /\ x.base = dbRuns[r].base
  BY <1>1 DEF RunStates
<1>3. /\ dbRuns' = [dbRuns EXCEPT ![r] = x] /\ dbLegacy' \in {Nowhere, dbLegacy}
      /\ UNCHANGED <<dbRows, dbPending, dbRetries, dbPinned, RunVars>>
  BY DEF SetAside
<1> HIDE DEF x
<1>4. TakenAt(x.base, x.root)
  BY <1>1, <1>2 DEF RunsArePinned
<1>5. /\ dbRows \in [Rels -> Places] /\ dbRetries \in [Rels -> Places]
      /\ dbPending \in SUBSET Rels
  BY DEF DbTypeOK
<1> QED
  BY <1>1, <1>2, <1>3, <1>4, <1>5, PinnedFinds, WritesKeep

LEMMA CommitKeeps ==
  ASSUME DbInv, NEW r \in Runs, Commit(r) \/ NoteFailures(r) PROVE DbInv'
<1> USE DEF DbInv
<1>1. dbRuns[r] \in RunStates /\ dbRuns[r].stage = "loaded" /\ dbRuns[r].root \in Places
  BY DEF Commit, NoteFailures, DbTypeOK, RunStates
<1>2. dbRuns' = [dbRuns EXCEPT ![r] = dbRuns[r]]
  BY DEF Commit, NoteFailures, DbTypeOK
<1>3. TakenAt(dbRuns[r].base, dbRuns[r].root)
  BY <1>1 DEF RunsArePinned
<1>4. /\ dbRows \in [Rels -> Places] /\ dbRetries \in [Rels -> Places]
      /\ dbPending \in SUBSET Rels /\ Opened \in [Rels -> Places] /\ Nowhere \in Places
  BY OpenedKeeps DEF DbTypeOK, Places
<1>5. CASE Commit(r)
  <2>1. PICK entries \in SUBSET Rels, removed \in SUBSET Rels :
           dbRows' = Put(Put(Opened, entries, dbRuns[r].root), removed, Nowhere)
    BY <1>5 DEF Commit
  <2>2. dbRows' \in [Rels -> Places]
    BY <2>1, <1>1, <1>4, TablesAreTyped
  <2>3. TakenAt(dbRows', dbRuns[r].root)
    BY <2>1, <1>1, PinnedFinds, TablesTakenAt
  <2> QED
    BY <2>2, <2>3, <1>1, <1>2, <1>3, <1>4, <1>5, PinnedFinds, WritesKeep DEF Commit
<1>6. CASE NoteFailures(r)
  <2>1. PICK upserts \in SUBSET Rels, clears \in SUBSET Rels :
           dbRetries' = Put(Put(dbRetries, upserts, dbRuns[r].root), clears, Nowhere)
    BY <1>6 DEF NoteFailures
  <2>2. dbRetries' \in [Rels -> Places]
    BY <2>1, <1>1, <1>4, TablesAreTyped
  <2>3. TakenAt(dbRetries', dbRuns[r].root)
    BY <2>1, <1>1, PinnedFinds, TablesTakenAt
  <2> QED
    BY <2>2, <2>3, <1>1, <1>2, <1>3, <1>4, <1>6, PinnedFinds, WritesKeep DEF NoteFailures
<1> QED
  BY <1>5, <1>6

LEMMA ForgetKeeps ==
  ASSUME Overlap = {}, DbInv, Forget PROVE DbInv'
<1> USE DEF DbInv
<1>1. /\ dbForget \in 0..2 /\ dbForget' = dbForget + 1
      /\ Empty(ForgetOrder[dbForget + 1])
      /\ UNCHANGED <<dbConfig, dbPending, dbLegacy, dbRuns>>
  BY ForgetsThree DEF Forget, DbKept, DbTypeOK
<1>2. \A r \in Runs : dbRuns[r].stage = "off"
  <2>1. CASE dbForget = 0
    BY <2>1 DEF Forget, MayChange
  <2>2. CASE dbForget # 0
    BY <2>2 DEF RunsAreAtHome
  <2> QED
    BY <2>1, <2>2
<1>3. dbLegacy = Nowhere
  <2>1. CASE dbForget = 0
    BY <2>1 DEF Forget, MayChange, Settled
  <2>2. CASE dbForget # 0
    BY <2>2 DEF LegacyIsOwn
  <2> QED
    BY <2>1, <2>2
<1>4. dbChanges' \in 0..MaxChanges
  BY DbAssumption DEF Forget, MayChange, Change, DbTypeOK
<1>5. /\ dbForget = 0 => /\ dbRows' = NoRows /\ dbRetries' = dbRetries
                         /\ dbPinned' = dbPinned
      /\ dbForget = 1 => /\ dbRows' = dbRows /\ dbRetries' = NoRows /\ dbPinned' = dbPinned
      /\ dbForget = 2 => /\ dbRows' = dbRows /\ dbRetries' = dbRetries
                         /\ dbPinned' = Nowhere
  BY <1>1, ForgetsThree DEF Empty
<1>6. DbTypeOK'
  BY <1>1, <1>4, <1>5, ForgetsThree, TablesAreTyped DEF DbTypeOK, Places
<1>7. RunsAreAtHome' /\ RunsArePinned' /\ LegacyIsOwn'
  BY <1>1, <1>2, <1>3 DEF RunsAreAtHome, RunsArePinned, LegacyIsOwn
<1>8. RemovalIsOrdered'
  BY <1>1, <1>5 DEF RemovalIsOrdered
<1>9. PinnedRecord'
  BY <1>1, <1>5, PinnedMeans, TablesTakenAt
<1>10. UnpinnedRecord'
  BY <1>1, <1>5, TablesTakenAt DEF UnpinnedRecord, RemovalIsOrdered
<1> QED
  BY <1>6, <1>7, <1>8, <1>9, <1>10

LEMMA RemovedKeeps ==
  ASSUME DbInv, Removed \/ RemovalDies PROVE DbInv'
<1> USE DEF DbInv
<1>1. /\ dbForget \in 1..3 /\ dbForget' = 0 /\ dbConfig' \in {Nowhere, dbConfig}
      /\ UNCHANGED <<dbRows, dbRetries, dbPinned, dbChanges, dbPending, dbLegacy, dbRuns>>
  BY ForgetsThree DEF Removed, RemovalDies, DbKept, DbTypeOK
<1>2. \A r \in Runs : dbRuns[r].stage = "off"
  BY <1>1 DEF RunsAreAtHome
<1>3. dbLegacy = Nowhere /\ dbRows = NoRows
  BY <1>1 DEF LegacyIsOwn, RemovalIsOrdered
<1>4. DbTypeOK'
  BY <1>1, ForgetsThree DEF DbTypeOK, Places
<1>5. RunsAreAtHome' /\ RunsArePinned' /\ LegacyIsOwn' /\ RemovalIsOrdered'
  BY <1>1, <1>2, <1>3 DEF RunsAreAtHome, RunsArePinned, LegacyIsOwn, RemovalIsOrdered
<1>6. PinnedRecord' /\ UnpinnedRecord'
  BY <1>1, <1>3, TablesTakenAt DEF PinnedRecord, UnpinnedRecord
<1> QED
  BY <1>4, <1>5, <1>6

LEMMA ConfigureKeeps ==
  ASSUME Overlap = {}, DbInv, Configure PROVE DbInv'
<1> USE DEF DbInv
<1>1. /\ \A r \in Runs : dbRuns[r].stage = "off"
      /\ dbLegacy = Nowhere /\ (dbRows = NoRows \/ dbPinned # Nowhere)
      /\ dbForget = 0 /\ dbConfig' \in Places
      /\ UNCHANGED <<dbRows, dbRetries, dbPinned, dbForget, dbPending, dbLegacy, dbRuns>>
  BY DEF Configure, MayChange, Settled, DbKept
<1>2. dbChanges' \in 0..MaxChanges
  BY DbAssumption DEF Configure, MayChange, Change, DbTypeOK
<1>3. DbTypeOK'
  BY <1>1, <1>2 DEF DbTypeOK
<1>4. RunsAreAtHome' /\ RunsArePinned' /\ LegacyIsOwn' /\ RemovalIsOrdered'
  BY <1>1 DEF RunsAreAtHome, RunsArePinned, LegacyIsOwn, RemovalIsOrdered
<1>5. PinnedRecord' /\ UnpinnedRecord'
  BY <1>1, TablesTakenAt DEF PinnedRecord, UnpinnedRecord
<1> QED
  BY <1>3, <1>4, <1>5

\* The typing of the record, whatever overlaps a run.
THEOREM DbTypeCorrect == DbSpec => []DbTypeOK
<1>1. DbInit => DbTypeOK
  BY DbInitOk DEF DbInv
<1>2. ASSUME DbTypeOK, [DbNext]_dbVars PROVE DbTypeOK'
  <2>0. /\ dbConfig \in Places /\ dbRows \in [Rels -> Places] /\ dbPending \in SUBSET Rels
        /\ dbRetries \in [Rels -> Places] /\ dbPinned \in Places /\ dbLegacy \in Places
        /\ dbRuns \in [Runs -> RunStates] /\ dbForget \in 0..3 /\ dbChanges \in 0..MaxChanges
        /\ Nowhere \in Places /\ NoRows \in [Rels -> Places] /\ MaxChanges \in Nat
    BY <1>2, ForgetsThree, DbAssumption DEF DbTypeOK, Places, NoRows
  <2>1. Opened \in [Rels -> Places]
    BY <2>0 DEF Opened, Put
  <2>2. ASSUME NEW r \in Runs, BeginDbRun(r) \/ EndDbRun(r) PROVE DbTypeOK'
    <3> DEFINE x == [Off EXCEPT !.stage = "started", !.root = dbConfig]
    <3>1. x \in RunStates /\ Off \in RunStates
      BY <2>0 DEF Off, RunStates
    <3>2. dbRuns' = [dbRuns EXCEPT ![r] = x] \/ dbRuns' = [dbRuns EXCEPT ![r] = Off]
      BY <2>2 DEF BeginDbRun, EndDbRun
    <3> HIDE DEF x
    <3>3. dbRuns' \in [Runs -> RunStates]
      BY <2>0, <3>1, <3>2
    <3> QED BY <2>0, <2>2, <3>3, ForgetsThree DEF BeginDbRun, EndDbRun, RunVars, DbTypeOK
  <2>3. ASSUME NEW r \in Runs, Pin(r) PROVE DbTypeOK'
    <3> DEFINE x == [dbRuns[r] EXCEPT !.stage = "pinned"]
    <3>1. x \in RunStates /\ dbRuns[r].root \in Places
      BY <2>0 DEF RunStates
    <3>2. dbRuns' = [dbRuns EXCEPT ![r] = x]
      BY <2>3 DEF Pin
    <3> HIDE DEF x
    <3>3. dbRuns' \in [Runs -> RunStates]
      BY <2>0, <3>1, <3>2
    <3>4. dbRows' \in [Rels -> Places] /\ dbRetries' \in [Rels -> Places]
      BY <2>0, <2>1, <2>3 DEF Pin, AfterPin
    <3> QED BY <2>0, <2>3, <3>1, <3>3, <3>4, ForgetsThree DEF Pin, RunVars, DbTypeOK
  <2>4. ASSUME NEW r \in Runs, Load(r) \/ Import(r) \/ SetAside(r) PROVE DbTypeOK'
    <3> DEFINE x == [dbRuns[r] EXCEPT !.stage = "loaded", !.base = Opened]
               y == [dbRuns[r] EXCEPT !.stage = "imported", !.base = AllFrom(dbLegacy)]
               z == [dbRuns[r] EXCEPT !.stage = "loaded"]
    <3>1. AllFrom(dbLegacy) \in [Rels -> Places]
      BY <2>0 DEF AllFrom
    <3>2. x \in RunStates /\ y \in RunStates /\ z \in RunStates
      BY <2>0, <2>1, <3>1 DEF RunStates
    <3>3. dbRuns' \in {[dbRuns EXCEPT ![r] = x], [dbRuns EXCEPT ![r] = y],
                       [dbRuns EXCEPT ![r] = z]}
      BY <2>4 DEF Load, Import, SetAside
    <3> HIDE DEF x, y, z
    <3>4. dbRuns' \in [Runs -> RunStates]
      BY <2>0, <3>2, <3>3
    <3>5. dbRows' \in [Rels -> Places] /\ dbPending' \in SUBSET Rels /\ dbLegacy' \in Places
      BY <2>0, <2>1, <2>4, <3>1 DEF Load, Import, SetAside
    <3> QED BY <2>0, <2>4, <3>4, <3>5, ForgetsThree DEF Load, Import, SetAside, RunVars, DbTypeOK
  <2>5. ASSUME NEW r \in Runs, Commit(r) \/ NoteFailures(r) PROVE DbTypeOK'
    <3>1. dbRuns[r].root \in Places
      BY <2>0 DEF RunStates
    <3>2. \A rows \in [Rels -> Places] : \A some, others :
             Put(Put(rows, some, dbRuns[r].root), others, Nowhere) \in [Rels -> Places]
      BY <2>0, <3>1 DEF Put
    <3>3. dbRows' \in [Rels -> Places] /\ dbRetries' \in [Rels -> Places]
      BY <2>0, <2>1, <2>5, <3>2 DEF Commit, NoteFailures
    <3> QED BY <2>0, <2>5, <3>3, ForgetsThree DEF Commit, NoteFailures, RunVars, DbTypeOK
  <2>6. CASE Forget
    <3>1. dbRows' \in [Rels -> Places] /\ dbRetries' \in [Rels -> Places] /\ dbPinned' \in Places
      BY <2>0, <2>6 DEF Forget, Empty
    <3>2. dbForget' \in 0..3 /\ dbChanges' \in 0..MaxChanges
      BY <2>0, <2>6, ForgetsThree DEF Forget, MayChange, Change
    <3> QED BY <2>0, <2>6, <3>1, <3>2, ForgetsThree DEF Forget, DbKept, DbTypeOK
  <2>7. CASE Removed \/ RemovalDies \/ Configure
    <3>1. dbForget' \in 0..3 /\ dbChanges' \in 0..MaxChanges
      BY <2>0, <2>7 DEF Removed, RemovalDies, Configure, MayChange, Change
    <3> QED
      BY <2>0, <2>7, <3>1, ForgetsThree DEF Removed, RemovalDies, Configure, DbKept, DbTypeOK
  <2>8. CASE UNCHANGED dbVars
    BY <1>2, <2>8 DEF dbVars, DbTypeOK
  <2> QED BY <1>2, <2>2, <2>3, <2>4, <2>5, <2>6, <2>7, <2>8 DEF DbNext
<1> QED BY <1>1, <1>2, PTL DEF DbSpec

\* What a run reads of a pair's past was taken from the folders it works on, for any number of
\* places, paths, runs and changes of the pair, where the pair is left alone while a run of it
\* is under way and until an older build's record has been taken over.
THEOREM EveryRunReadsItsOwnRecord ==
  ASSUME Overlap = {}
  PROVE  DbSpec => []OwnRecord
<1>1. DbInv /\ [DbNext]_dbVars => DbInv'
  <2> SUFFICES ASSUME DbInv, [DbNext]_dbVars PROVE DbInv'
    OBVIOUS
  <2>1. CASE UNCHANGED dbVars
    BY <2>1
       DEF dbVars, DbInv, DbTypeOK, RunsAreAtHome, RunsArePinned, PinnedRecord, UnpinnedRecord,
           LegacyIsOwn, RemovalIsOrdered
  <2>2. CASE DbNext
    BY <2>2, BeginDbRunKeeps, PinKeeps, LoadKeeps, ImportKeeps, SetAsideKeeps, CommitKeeps,
       EndDbRunKeeps, ForgetKeeps, RemovedKeeps, ConfigureKeeps DEF DbNext
  <2> QED
    BY <2>1, <2>2
<1>2. DbInv => OwnRecord
  <2> SUFFICES ASSUME DbInv, NEW r \in Runs, dbRuns[r].stage = "loaded", NEW p \in Rels
               PROVE  {dbRuns[r].base[p], dbRetries[p]} \subseteq {dbRuns[r].root, Nowhere}
    BY DEF OwnRecord
  <2>1. TakenAt(dbRuns[r].base, dbRuns[r].root) /\ TakenAt(dbRetries, dbRuns[r].root)
    BY PinnedFinds DEF DbInv, RunsArePinned
  <2> QED
    BY <2>1 DEF TakenAt
<1> QED
  BY <1>1, <1>2, DbInitOk, PTL DEF DbSpec

-----------------------------------------------------------------------------
(***************************************************************************)
(* What the tray announces.                                                 *)
(***************************************************************************)
LEMMA NoticeConstants ==
  /\ ErrorGrace \in Nat /\ ErrorCooldown \in Nat /\ KeyringGrace \in Nat /\ HeldCooldown \in Nat
  /\ ConflictBatch \in Nat /\ ConflictCooldown \in Nat
  /\ MaxConflicts \in Nat /\ MaxSeconds \in Nat /\ PollLimit \in Nat \ {0}
  /\ Never = MaxSeconds + 1 /\ Instants = 0..(MaxSeconds + 1) /\ Never \in Instants
  BY NoticesAssumption DEF Never, Instants

\* Each of the three has a look of its own, and stays as it began in behaviours about another.
StatusTyped ==
    /\ second \in 0..MaxSeconds
    /\ status \in Statuses /\ prev \in Statuses
    /\ problem \in [since : Instants, told : BOOLEAN, last : Instants, locked : Instants,
                    asked : BOOLEAN]
    /\ lasted \in 0..second
    /\ spoken \in [Kinds -> [at : Instants, episode : BOOLEAN]]
    /\ topic # "status" => prev = "fine"

\* An error that has lasted began when it was first looked at; one that was not told of yet
\* had its last notice before it began, and so has not lasted over the grace and the pause.
ErrorsAreTimed ==
    /\ problem.last = spoken["error"].at
    /\ problem.last = Never \/ problem.last <= second
    /\ IF prev = "error"
       THEN /\ problem.since = second - lasted
            /\ problem.told <=> spoken["error"].episode
            /\ ~problem.told => /\ problem.last = Never \/ problem.last < problem.since
                                /\ lasted < ErrorGrace + ErrorCooldown
       ELSE problem.since = Never /\ ~problem.told /\ ~spoken["error"].episode

\* The same of a keyring out of reach, which has no pause, and of the end of the session.
LocksAreTimed ==
    /\ IF prev = "keyring"
       THEN /\ problem.locked = second - lasted
            /\ problem.asked <=> spoken["keyring"].episode
            /\ ~problem.asked => lasted < KeyringGrace
       ELSE problem.locked = Never /\ ~problem.asked /\ ~spoken["keyring"].episode
    /\ prev = "signedOut" => spoken["signedOut"].episode

StatusInv == StatusTyped /\ ErrorsAreTimed /\ LocksAreTimed

LEMMA StatusInitOk == NoticesInit => StatusInv
<1> SUFFICES ASSUME NoticesInit PROVE StatusInv
  OBVIOUS
<1>1. StatusTyped
  BY NoticeConstants DEF NoticesInit, StatusTyped, NoProblem, Statuses, Kinds
<1>2. ErrorsAreTimed /\ LocksAreTimed
  BY NoticeConstants DEF NoticesInit, ErrorsAreTimed, LocksAreTimed, NoProblem, Kinds
<1> QED
  BY <1>1, <1>2 DEF StatusInv

\* What a look at the status does, field by field.
LEMMA LookAtStatusDoes ==
  ASSUME NEW now, LookAtStatus(now)
  PROVE  /\ problem'.since = IF status = "error" THEN ErrorBegan(now) ELSE Never
         /\ problem'.told <=> status = "error" /\ (problem.told \/ ErrorIsNews(now))
         /\ problem'.last = IF status = "error" /\ ErrorIsNews(now) THEN now ELSE problem.last
         /\ problem'.locked = IF status = "keyring" THEN LockedSince(now) ELSE Never
         /\ problem'.asked <=> status = "keyring" /\ (problem.asked \/ KeyringIsNews(now))
         /\ spoken'["error"].at = IF status = "error" /\ ErrorIsNews(now) THEN now
                                  ELSE spoken["error"].at
         /\ spoken'["error"].episode <=>
               status = "error" /\ (ErrorIsNews(now) \/ spoken["error"].episode)
         /\ spoken'["keyring"].episode <=>
               status = "keyring" /\ (KeyringIsNews(now) \/ spoken["keyring"].episode)
         /\ spoken'["signedOut"].episode <=>
               status = "signedOut" /\ (prev # "signedOut" \/ spoken["signedOut"].episode)
         /\ prev' = status /\ status' = status
         /\ lasted' = IF prev = status THEN lasted + 1 ELSE 0
<1>1. /\ problem'.since = IF status = "error" THEN ErrorBegan(now) ELSE Never
      /\ problem'.told <=> status = "error" /\ (problem.told \/ ErrorIsNews(now))
      /\ problem'.last = IF status = "error" /\ ErrorIsNews(now) THEN now ELSE problem.last
  BY DEF LookAtStatus
<1>2. /\ problem'.locked = IF status = "keyring" THEN LockedSince(now) ELSE Never
      /\ problem'.asked <=> status = "keyring" /\ (problem.asked \/ KeyringIsNews(now))
  BY DEF LookAtStatus
<1>3. /\ spoken'["error"].at = IF status = "error" /\ ErrorIsNews(now) THEN now
                               ELSE spoken["error"].at
      /\ spoken'["error"].episode <=>
               status = "error" /\ (ErrorIsNews(now) \/ spoken["error"].episode)
  BY DEF LookAtStatus, Kinds
<1>4. /\ spoken'["keyring"].episode <=>
               status = "keyring" /\ (KeyringIsNews(now) \/ spoken["keyring"].episode)
      /\ spoken'["signedOut"].episode <=>
               status = "signedOut" /\ (prev # "signedOut" \/ spoken["signedOut"].episode)
  BY DEF LookAtStatus, Kinds
<1>5. /\ prev' = status /\ status' = status
      /\ lasted' = IF prev = status THEN lasted + 1 ELSE 0
  BY DEF LookAtStatus
<1> QED
  BY <1>1, <1>2, <1>3, <1>4, <1>5

LEMMA LookAtStatusTyped ==
  ASSUME StatusTyped, NEW now \in 0..MaxSeconds, LookAtStatus(now)
  PROVE  /\ problem' \in [since : Instants, told : BOOLEAN, last : Instants, locked : Instants,
                          asked : BOOLEAN]
         /\ spoken' \in [Kinds -> [at : Instants, episode : BOOLEAN]]
<1>1. now \in Instants /\ Never \in Instants
  BY NoticeConstants
<1>2. ErrorBegan(now) \in Instants /\ LockedSince(now) \in Instants
  BY <1>1 DEF ErrorBegan, LockedSince, StatusTyped
<1>3. problem' \in [since : Instants, told : BOOLEAN, last : Instants, locked : Instants,
                    asked : BOOLEAN]
  BY <1>1, <1>2 DEF LookAtStatus, StatusTyped
<1>4. spoken' \in [Kinds -> [at : Instants, episode : BOOLEAN]]
  BY <1>1 DEF LookAtStatus, StatusTyped
<1> QED
  BY <1>3, <1>4

LEMMA LookAtStatusKeeps ==
  ASSUME StatusInv, second < MaxSeconds, second' = second + 1, LookAtStatus(second'),
         topic = "status", topic' = topic
  PROVE  StatusInv'
<1> DEFINE now == second'
<1> USE DEF StatusInv
<1>1. now \in 0..MaxSeconds /\ now = second + 1
  BY NoticeConstants DEF StatusTyped
<1>2. StatusTyped'
  <2>1. lasted' \in 0..second'
    BY <1>1, LookAtStatusDoes DEF StatusTyped
  <2> QED
    BY <1>1, <2>1, LookAtStatusTyped, LookAtStatusDoes DEF StatusTyped
<1>3. ErrorsAreTimed'
  <2>1. problem'.last = spoken'["error"].at
    BY LookAtStatusDoes DEF ErrorsAreTimed
  <2>2. problem'.last = Never \/ problem'.last <= now
    BY <1>1, NoticeConstants, LookAtStatusDoes DEF ErrorsAreTimed, StatusTyped
  <2>3. CASE status # "error"
    BY <2>1, <2>2, <2>3, LookAtStatusDoes DEF ErrorsAreTimed
  <2>4. CASE status = "error" /\ prev # "error"
    <3>1. ErrorBegan(now) = now /\ ~problem.told /\ ~spoken["error"].episode
      BY <2>4 DEF ErrorBegan, ErrorsAreTimed
    <3>2. problem'.since = now /\ lasted' = 0
      BY <2>4, <3>1, LookAtStatusDoes
    <3>3. (problem'.told <=> ErrorIsNews(now)) /\ (spoken'["error"].episode <=> ErrorIsNews(now))
      BY <2>4, <3>1, LookAtStatusDoes
    <3>4. ~ErrorIsNews(now) => problem'.last = problem.last
      BY LookAtStatusDoes
    <3>5. problem.last = Never \/ problem.last < now
      BY <1>1, NoticeConstants DEF ErrorsAreTimed, StatusTyped
    <3>6. ~ErrorIsNews(now) => 0 < ErrorGrace + ErrorCooldown
      BY <1>1, <3>1, <3>5, NoticeConstants DEF ErrorIsNews, Past, StatusTyped
    <3> QED
      BY <1>1, <2>1, <2>2, <2>4, <3>2, <3>3, <3>4, <3>5, <3>6, LookAtStatusDoes
         DEF ErrorsAreTimed
  <2>5. CASE status = "error" /\ prev = "error"
    <3>1. /\ problem.since = second - lasted /\ problem.since # Never
          /\ ErrorBegan(now) = problem.since
      BY <2>5, NoticeConstants DEF ErrorBegan, ErrorsAreTimed, StatusTyped
    <3>2. problem'.since = now - lasted' /\ lasted' = lasted + 1
      BY <1>1, <2>5, <3>1, LookAtStatusDoes DEF StatusTyped
    <3>3. problem'.told <=> spoken'["error"].episode
      BY <2>5, LookAtStatusDoes DEF ErrorsAreTimed
    <3>4. ASSUME ~problem'.told
          PROVE  /\ problem'.last = Never \/ problem'.last < problem'.since
                 /\ lasted' < ErrorGrace + ErrorCooldown
      <4>1. ~problem.told /\ ~ErrorIsNews(now)
        BY <2>5, <3>4, LookAtStatusDoes
      <4>2. problem'.last = problem.last /\ problem'.since = problem.since
        BY <2>5, <3>1, <4>1, LookAtStatusDoes
      <4>3. problem.last = Never \/ problem.last < problem.since
        BY <2>5, <4>1 DEF ErrorsAreTimed
      <4>4. now - problem.since = lasted'
        BY <1>1, <3>1, <3>2 DEF StatusTyped
      <4>5. lasted' >= ErrorGrace + ErrorCooldown => Past(problem.last, ErrorCooldown, now)
        BY <1>1, <3>1, <4>3, <4>4, NoticeConstants DEF Past, StatusTyped
      <4>6. ~(lasted' >= ErrorGrace + ErrorCooldown)
        BY <3>1, <3>2, <4>1, <4>4, <4>5, NoticeConstants DEF ErrorIsNews, StatusTyped
      <4> QED
        BY <4>2, <4>3, <4>6, <3>2, NoticeConstants DEF StatusTyped
    <3> QED
      BY <2>1, <2>2, <2>5, <3>2, <3>3, <3>4, LookAtStatusDoes DEF ErrorsAreTimed
  <2> QED
    BY <2>3, <2>4, <2>5
<1>4. LocksAreTimed'
  <2>1. status = "signedOut" => spoken'["signedOut"].episode
    BY LookAtStatusDoes DEF LocksAreTimed
  <2>2. CASE status # "keyring"
    BY <2>1, <2>2, LookAtStatusDoes DEF LocksAreTimed
  <2>3. CASE status = "keyring" /\ prev # "keyring"
    <3>1. LockedSince(now) = now /\ ~problem.asked /\ ~spoken["keyring"].episode
      BY <2>3 DEF LockedSince, LocksAreTimed
    <3>2. /\ problem'.locked = now /\ lasted' = 0
          /\ problem'.asked <=> KeyringIsNews(now)
          /\ spoken'["keyring"].episode <=> KeyringIsNews(now)
      BY <2>3, <3>1, LookAtStatusDoes
    <3>3. ~KeyringIsNews(now) => 0 < KeyringGrace
      BY <1>1, <3>1, NoticeConstants DEF KeyringIsNews, StatusTyped
    <3> QED
      BY <1>1, <2>1, <2>3, <3>2, <3>3, LookAtStatusDoes DEF LocksAreTimed
  <2>4. CASE status = "keyring" /\ prev = "keyring"
    <3>1. /\ problem.locked = second - lasted /\ problem.locked # Never
          /\ LockedSince(now) = problem.locked
      BY <2>4, NoticeConstants DEF LockedSince, LocksAreTimed, StatusTyped
    <3>2. problem'.locked = now - lasted' /\ lasted' = lasted + 1
      BY <1>1, <2>4, <3>1, LookAtStatusDoes DEF StatusTyped
    <3>3. problem'.asked <=> spoken'["keyring"].episode
      BY <2>4, LookAtStatusDoes DEF LocksAreTimed
    <3>4. ~problem'.asked => lasted' < KeyringGrace
      <4>1. SUFFICES ASSUME ~problem'.asked PROVE lasted' < KeyringGrace
        OBVIOUS
      <4>2. ~problem.asked /\ ~KeyringIsNews(now)
        BY <2>4, <4>1, LookAtStatusDoes
      <4>3. now - LockedSince(now) = lasted'
        BY <1>1, <3>1, <3>2 DEF StatusTyped
      <4> QED
        BY <4>2, <4>3, <3>2, NoticeConstants DEF KeyringIsNews, StatusTyped
    <3> QED
      BY <2>1, <2>4, <3>2, <3>3, <3>4, LookAtStatusDoes DEF LocksAreTimed
  <2> QED
    BY <2>2, <2>3, <2>4
<1> QED
  BY <1>2, <1>3, <1>4

\* The looks of the others take time, which nothing is measured by then.
LEMMA TimeAloneKeepsStatus ==
  ASSUME StatusInv, topic # "status", second < MaxSeconds, second' = second + 1,
         UNCHANGED <<topic, statusVars>>
  PROVE  StatusInv'
<1>1. prev = "fine"
  BY DEF StatusInv, StatusTyped
<1>2. StatusTyped'
  BY <1>1, NoticeConstants DEF StatusInv, StatusTyped, statusVars
<1>3. ErrorsAreTimed' /\ LocksAreTimed'
  BY <1>1, NoticeConstants
     DEF StatusInv, StatusTyped, ErrorsAreTimed, LocksAreTimed, statusVars
<1> QED
  BY <1>2, <1>3 DEF StatusInv

LEMMA StatusStep == StatusInv /\ [NoticesNext]_noticeVars => StatusInv'
<1> SUFFICES ASSUME StatusInv, [NoticesNext]_noticeVars PROVE StatusInv'
  OBVIOUS
<1>1. ASSUME UNCHANGED <<topic, second, statusVars>> PROVE StatusInv'
  BY <1>1 DEF StatusInv, StatusTyped, ErrorsAreTimed, LocksAreTimed, statusVars
<1>2. CASE UNCHANGED noticeVars
  BY <1>1, <1>2 DEF noticeVars, statusVars
<1>3. CASE Look /\ topic' = topic
  <2>1. second < MaxSeconds /\ second' = second + 1
    BY <1>3 DEF Look
  <2>2. CASE topic = "status"
    BY <1>3, <2>1, <2>2, LookAtStatusKeeps DEF Look
  <2>3. CASE topic # "status"
    <3>1. UNCHANGED statusVars
      BY <1>3, <2>3 DEF Look, LookAtHeld, LookAtConflicts
    <3> QED
      BY <1>3, <2>1, <2>3, <3>1, TimeAloneKeepsStatus
  <2> QED
    BY <2>2, <2>3
<1>4. CASE StatusTurns /\ topic' = topic
  <2>1. /\ topic = "status" /\ status' \in Statuses
        /\ UNCHANGED <<second, prev, problem, lasted, spoken>>
    BY <1>4 DEF StatusTurns
  <2> QED
    BY <1>4, <2>1 DEF StatusInv, StatusTyped, ErrorsAreTimed, LocksAreTimed
<1>5. ASSUME NoticesNext, ~Look, ~StatusTurns PROVE StatusInv'
  <2>1. UNCHANGED <<topic, second, statusVars>>
    BY <1>5
       DEF NoticesNext, HoldTurns, RecordSettled, LookUp, RecordSkipped, DismissConflicts,
           PruneConflicts, StartFeed, InboxOnly
  <2> QED
    BY <2>1, <1>1
<1> QED
  BY <1>2, <1>3, <1>4, <1>5 DEF NoticesNext


\* A pair whose deletions were told of is one that held some back at the last look.
HeldInv ==
    /\ heldBack \in [Folders -> 0..2] /\ foundNone \subseteq Folders
    /\ toldHeld \in [Folders -> [count : 0..2, at : Instants]]
    /\ \A p \in Folders : p \in foundNone <=> toldHeld[p] = Nothing

LEMMA LookAtHeldDoes ==
  ASSUME HeldInv, NEW now \in Instants, LookAtHeld(now), NEW p \in Folders
  PROVE  /\ p \in foundNone' <=> heldBack[p] = 0
         /\ toldHeld'[p] = IF heldBack[p] = 0 THEN Nothing
                           ELSE IF HeldIsNews(p, now) THEN [count |-> heldBack[p], at |-> now]
                           ELSE toldHeld[p]
         /\ toldHeld'[p] \in [count : 0..2, at : Instants]
         /\ p \in foundNone' <=> toldHeld'[p] = Nothing
<1>1. p \in foundNone' <=> heldBack[p] = 0
  BY DEF LookAtHeld
<1>2. toldHeld'[p] = IF heldBack[p] = 0 THEN Nothing
                     ELSE IF HeldIsNews(p, now) THEN [count |-> heldBack[p], at |-> now]
                     ELSE toldHeld[p]
  BY DEF LookAtHeld, Forgotten
<1>3. Nothing \in [count : 0..2, at : Instants] /\ Nothing.count = 0
  BY NoticeConstants DEF Nothing
<1>4. toldHeld'[p] \in [count : 0..2, at : Instants]
  BY <1>2, <1>3 DEF HeldInv
<1>5. CASE heldBack[p] = 0
  BY <1>1, <1>2, <1>4, <1>5
<1>6. CASE heldBack[p] # 0 /\ HeldIsNews(p, now)
  <2>1. toldHeld'[p].count = heldBack[p]
    BY <1>2, <1>6
  <2> QED
    BY <1>1, <1>2, <1>3, <1>4, <1>6, <2>1
<1>7. CASE heldBack[p] # 0 /\ ~HeldIsNews(p, now)
  BY <1>1, <1>2, <1>4, <1>7 DEF HeldIsNews
<1> QED
  BY <1>5, <1>6, <1>7

LEMMA HeldStep == StatusInv /\ HeldInv /\ [NoticesNext]_noticeVars => HeldInv'
<1> SUFFICES ASSUME StatusInv, HeldInv, [NoticesNext]_noticeVars PROVE HeldInv'
  OBVIOUS
<1>1. ASSUME UNCHANGED heldVars PROVE HeldInv'
  BY <1>1 DEF HeldInv, heldVars
<1>2. CASE Look /\ topic = "held"
  <2>1. second' \in Instants /\ LookAtHeld(second')
    BY <1>2, NoticeConstants DEF Look, StatusInv, StatusTyped
  <2>2. UNCHANGED heldBack /\ foundNone' \subseteq Folders
    BY <2>1 DEF LookAtHeld
  <2>3. toldHeld' = [p \in Folders |-> toldHeld'[p]]
    BY <2>1 DEF LookAtHeld
  <2>4. \A p \in Folders : /\ toldHeld'[p] \in [count : 0..2, at : Instants]
                           /\ p \in foundNone' <=> toldHeld'[p] = Nothing
    BY <2>1, LookAtHeldDoes
  <2>5. toldHeld' \in [Folders -> [count : 0..2, at : Instants]]
    BY <2>3, <2>4
  <2> QED
    BY <2>2, <2>4, <2>5 DEF HeldInv
<1>3. CASE Look /\ topic # "held"
  BY <1>1, <1>3 DEF Look, LookAtStatus, LookAtConflicts
<1>4. CASE HoldTurns
  BY <1>4 DEF HoldTurns, HeldInv
<1>5. CASE NoticesNext /\ ~Look /\ ~HoldTurns
  BY <1>1, <1>5
     DEF NoticesNext, StatusTurns, RecordSettled, LookUp, RecordSkipped, DismissConflicts,
         PruneConflicts, StartFeed, InboxOnly
<1>6. CASE UNCHANGED noticeVars
  BY <1>1, <1>6 DEF noticeVars, heldVars
<1> QED
  BY <1>2, <1>3, <1>4, <1>5, <1>6 DEF NoticesNext

\* Only a look takes time, and only a look at the status tells of a problem.
LEMMA OnlyLooksTell ==
  ASSUME [NoticesNext]_noticeVars
  PROVE  \/ Look
         \/ UNCHANGED <<second, spoken>>
<1>1. ASSUME ~Look, NoticesNext PROVE UNCHANGED <<second, spoken>>
  <2>1. CASE StatusTurns \/ HoldTurns \/ StartFeed
    BY <2>1 DEF StatusTurns, HoldTurns, StartFeed, statusVars
  <2>2. CASE InboxOnly
    BY <2>2 DEF InboxOnly, statusVars
  <2>3. CASE DismissConflicts \/ PruneConflicts
    BY <2>2, <2>3 DEF DismissConflicts, PruneConflicts
  <2>4. ASSUME NEW f \in Clashing, RecordSettled(f) \/ \E r \in Recorders : LookUp(r, f)
        PROVE  InboxOnly
    BY <2>4 DEF RecordSettled, LookUp
  <2>5. ASSUME NEW r \in Recorders, RecordSkipped(r) PROVE InboxOnly
    BY <2>5 DEF RecordSkipped
  <2> QED
    BY <1>1, <2>1, <2>2, <2>3, <2>4, <2>5 DEF NoticesNext
<1> QED
  BY <1>1 DEF noticeVars

\* Two notices of sync problems are a pause apart, and deletions held back are told of at
\* the first look that finds them, and again only in another number and after a pause
\* (`Notifier::tick` and `Notifier::held` of notify.rs).
THEOREM NoticesKeepTheirPauses == NoticesSpec => NoticesArePaced
<1>1. NoticesInit => StatusInv /\ HeldInv
  <2>1. NoticesInit => HeldInv
    BY NoticeConstants DEF NoticesInit, HeldInv, Nothing
  <2> QED
    BY <2>1, StatusInitOk
<1>2. StatusInv /\ HeldInv /\ [NoticesNext]_noticeVars => StatusInv' /\ HeldInv'
  BY StatusStep, HeldStep
<1>3. ASSUME StatusInv, [NoticesNext]_noticeVars,
             spoken'["error"].at # spoken["error"].at, spoken["error"].at # Never
      PROVE  spoken'["error"].at - spoken["error"].at >= ErrorCooldown
  <2>1. LookAtStatus(second') /\ second' \in Instants
    <3>1. Look
      BY <1>3, OnlyLooksTell
    <3> QED
      BY <1>3, <3>1, NoticeConstants
         DEF Look, LookAtHeld, LookAtConflicts, statusVars, StatusInv, StatusTyped
  <2>2. ErrorIsNews(second') /\ spoken'["error"].at = second'
    BY <1>3, <2>1, LookAtStatusDoes
  <2>3. Past(problem.last, ErrorCooldown, second') /\ problem.last = spoken["error"].at
    BY <1>3, <2>2 DEF ErrorIsNews, StatusInv, ErrorsAreTimed
  <2> QED
    BY <1>3, <2>2, <2>3 DEF Past
<1>4. ASSUME StatusInv, HeldInv, [NoticesNext]_noticeVars, NEW p \in Folders,
             second' # second, topic = "held", heldBack[p] # 0
      PROVE  IF p \in foundNone THEN toldHeld'[p] = [count |-> heldBack[p], at |-> second']
             ELSE toldHeld'[p] # toldHeld[p] =>
                      /\ toldHeld'[p].count # toldHeld[p].count
                      /\ second' - toldHeld[p].at >= HeldCooldown
  <2>1. LookAtHeld(second') /\ second' \in Instants
    <3>1. Look
      BY <1>4, OnlyLooksTell
    <3> QED
      BY <1>4, <3>1, NoticeConstants DEF Look, StatusInv, StatusTyped
  <2>2. toldHeld'[p] = IF HeldIsNews(p, second') THEN [count |-> heldBack[p], at |-> second']
                       ELSE toldHeld[p]
    BY <1>4, <2>1, LookAtHeldDoes
  <2> QED
    BY <1>4, <2>2 DEF HeldInv, HeldIsNews
<1>5. StatusInv /\ [NoticesNext]_noticeVars =>
        [LET was == spoken["error"].at IN
         spoken'["error"].at # was /\ was # Never =>
             spoken'["error"].at - was >= ErrorCooldown]_noticeVars
  BY <1>3
<1>6. StatusInv /\ HeldInv /\ [NoticesNext]_noticeVars =>
        [\A p \in Folders : second' # second /\ topic = "held" /\ heldBack[p] # 0 =>
            IF p \in foundNone THEN toldHeld'[p] = [count |-> heldBack[p], at |-> second']
            ELSE toldHeld'[p] # toldHeld[p] =>
                     /\ toldHeld'[p].count # toldHeld[p].count
                     /\ second' - toldHeld[p].at >= HeldCooldown]_noticeVars
  BY <1>4
<1> QED
  BY <1>1, <1>2, <1>5, <1>6, PTL DEF NoticesSpec, NoticesArePaced, ProblemsAreSpaced, HeldIsTold

(***************************************************************************)
(* The inbox.                                                               *)
(***************************************************************************)
\* A set of numbers up to a bound that is not empty has a greatest one.
LEMMA BoundedHasGreatest ==
  ASSUME NEW N \in Nat, NEW T \in SUBSET (0..N), T # {}
  PROVE  \E m \in T : \A i \in T : i <= m
<1> DEFINE U == {u \in Nat : \A j \in T : j <= u}
           Less == {ss \in Nat \X Nat : ss[1] < ss[2]}
<1>1. IsWellFoundedOn(Less, Nat)
  BY NatLessThanWellFounded DEF OpToRel
<1>2. U \subseteq Nat /\ U # {}
  <2>1. N \in U
    OBVIOUS
  <2> QED
    BY <2>1
<1>3. PICK m \in U : \A y \in U : <<y, m>> \notin Less
  <2> HIDE DEF U, Less
  <2> QED
    BY <1>1, <1>2, WFMin
<1>4. \A j \in T : j <= m /\ j \in Nat
  BY <1>3
<1>5. ASSUME m \notin T PROVE FALSE
  <2>1. \A j \in T : j <= m - 1
    BY <1>3, <1>4, <1>5
  <2>2. m - 1 \in Nat
    <3>1. PICK j \in T : TRUE
      OBVIOUS
    <3> QED
      BY <1>3, <1>4, <2>1, <3>1
  <2>3. m - 1 \in U
    BY <2>1, <2>2
  <2>4. <<m - 1, m>> \in Less
    BY <1>3, <2>2
  <2> QED
    BY <1>3, <2>3, <2>4
<1> QED
  BY <1>4, <1>5

Rows == [id : Ids, nth : Ids, file : Clashing, skipped : BOOLEAN, open : BOOLEAN]

LEMMA NewestIs ==
  ASSUME NEW rows \in SUBSET Rows, rows # {}
  PROVE  /\ \E c \in rows : c.id = Newest(rows)
         /\ \A c \in rows : c.id <= Newest(rows)
<1> DEFINE Of == {c.id : c \in rows}
<1>1. Of \in SUBSET (0..MaxConflicts) /\ Of # {}
  BY NoticeConstants DEF Rows, Ids
<1>2. \E i \in Of : \A j \in Of : j <= i
  BY <1>1, NoticeConstants, BoundedHasGreatest
<1>3. \E i \in Of : \A c \in rows : c.id <= i
  BY <1>2
<1>4. Newest(rows) \in Of /\ \A c \in rows : c.id <= Newest(rows)
  BY <1>3 DEF Newest
<1> QED
  BY <1>4

\* The entry of a conflict that is closed is the same entry but for that.
LEMMA ClosedIs ==
  ASSUME NEW c \in Rows
  PROVE  /\ [c EXCEPT !.open = FALSE] \in Rows
         /\ [c EXCEPT !.open = FALSE].id = c.id
         /\ [c EXCEPT !.open = FALSE].nth = c.nth
         /\ [c EXCEPT !.open = FALSE].file = c.file
         /\ [c EXCEPT !.open = FALSE].open = FALSE
  BY DEF Rows

\* Entries have the number they were inserted with, none has one that is yet to be given.
InboxTyped ==
    /\ inbox \subseteq Rows /\ IsFiniteSet(inbox)
    /\ lastId \in 0..MaxConflicts
    /\ recorder \in [Recorders -> SUBSET Clashing]
    /\ \A c \in inbox : c.id = c.nth /\ c.id <= lastId

\* What the tray has read is behind it, what it has announced is not in its batch and will
\* not be read again.
FeedIsTrue ==
    /\ feed.read \in 0..lastId
    /\ feed.batch \subseteq 1..feed.read
    /\ announced \in [Ids -> 0..1] /\ unread \subseteq Ids
    /\ \A i \in Ids : announced[i] = 1 =>
          /\ i \notin feed.batch /\ i <= lastId
          /\ \A c \in News : c.nth # i
    /\ \A i \in unread : announced[i] = 1 \/ i \in feed.batch \/ \E c \in News : c.nth = i

\* For every file, the entries that are open and those that are about to be.
Waiting(f) == {r \in Recorders : f \in recorder[r]}
PilesAreBounded ==
    \A f \in Clashing :
        Cardinality(OpenSkips(f)) + Cardinality(Waiting(f)) <= Cardinality(Recorders)

InboxInv == InboxTyped /\ FeedIsTrue /\ PilesAreBounded

LEMMA InboxInitOk == NoticesInit => InboxInv
<1> SUFFICES ASSUME NoticesInit PROVE InboxInv
  OBVIOUS
<1>1. InboxTyped
  BY NoticeConstants, FS_EmptySet DEF NoticesInit, InboxTyped
<1>2. FeedIsTrue
  BY NoticeConstants DEF NoticesInit, FeedIsTrue, Untold, News, Ids
<1>3. PilesAreBounded
  <2>1. \A f \in Clashing : OpenSkips(f) = {} /\ Waiting(f) = {}
    BY DEF NoticesInit, OpenSkips, Waiting
  <2>2. Cardinality(Recorders) \in Nat
    BY NoticesAssumption, FS_CardinalityType DEF NoticesAssumption
  <2> QED
    BY <2>1, <2>2, FS_EmptySet DEF PilesAreBounded
<1> QED
  BY <1>1, <1>2, <1>3 DEF InboxInv

\* The sizes the piles are measured by are numbers.
LEMMA PilesAreFinite ==
  ASSUME InboxTyped, NEW f \in Clashing
  PROVE  /\ IsFiniteSet(OpenSkips(f)) /\ Cardinality(OpenSkips(f)) \in Nat
         /\ IsFiniteSet(Waiting(f)) /\ Cardinality(Waiting(f)) \in Nat
         /\ Cardinality(Waiting(f)) <= Cardinality(Recorders)
         /\ IsFiniteSet(Recorders) /\ Cardinality(Recorders) \in Nat
<1>1. OpenSkips(f) \in SUBSET inbox /\ Waiting(f) \in SUBSET Recorders
  BY DEF OpenSkips, Waiting
<1>2. IsFiniteSet(inbox) /\ IsFiniteSet(Recorders)
  BY NoticesAssumption DEF InboxTyped, NoticesAssumption
<1> QED
  BY <1>1, <1>2, FS_Subset, FS_CardinalityType

(***************************************************************************)
(* A look at the conflicts.                                                 *)
(***************************************************************************)
\* What is read is behind the tray, and every row that is not read is before it.
LEMMA ReadingIsInOrder ==
  ASSUME InboxTyped, feed.read \in 0..lastId
  PROVE  /\ ReadUpTo \in feed.read..lastId
         /\ \A c \in Read : c \in News /\ c.id <= ReadUpTo
         /\ \A c \in News : c.id <= ReadUpTo => c \in Read
<1>1. News \in SUBSET Rows /\ News \in SUBSET inbox /\ Read \in SUBSET News
  BY DEF InboxTyped, News, Read
<1>2. CASE Read = {}
  <2>1. ReadUpTo = feed.read
    BY <1>2 DEF ReadUpTo
  <2> QED
    BY <1>2, <2>1, NoticeConstants DEF News, InboxTyped, Rows, Ids
<1>3. CASE Read # {}
  <2>1. ReadUpTo = Newest(Read)
    BY <1>3 DEF ReadUpTo
  <2>2. PICK top \in Read : top.id = ReadUpTo
    BY <1>1, <1>3, <2>1, NewestIs
  <2>3. \A c \in Read : c.id <= ReadUpTo
    BY <1>1, <1>3, <2>1, NewestIs
  <2>4. ReadUpTo \in feed.read..lastId
    BY <1>1, <2>2, NoticeConstants DEF News, InboxTyped, Rows, Ids
  <2>5. ASSUME NEW c \in News, c.id <= ReadUpTo PROVE c \in Read
    <3> DEFINE Before(i) == {e \in News : e.id < i}
    <3>1. IsFiniteSet(Before(top.id)) /\ Before(c.id) \in SUBSET Before(top.id)
      <4>1. c.id \in Nat /\ top.id \in Nat /\ \A e \in News : e.id \in Nat
        BY <1>1, <2>2 DEF Rows, Ids
      <4>2. Before(c.id) \in SUBSET Before(top.id)
        BY <2>2, <2>5, <4>1
      <4>3. Before(top.id) \in SUBSET inbox
        BY <1>1
      <4> QED
        BY <4>2, <4>3, FS_Subset DEF InboxTyped
    <3>2. Cardinality(Before(top.id)) < PollLimit
      BY <2>2 DEF Read
    <3>3. /\ Cardinality(Before(c.id)) <= Cardinality(Before(top.id))
          /\ Cardinality(Before(c.id)) \in Nat /\ Cardinality(Before(top.id)) \in Nat
      BY <3>1, FS_Subset, FS_CardinalityType
    <3>4. Cardinality(Before(c.id)) < PollLimit
      BY <3>2, <3>3, NoticeConstants
    <3> QED
      BY <2>5, <3>4 DEF Read
  <2> QED
    BY <1>1, <2>3, <2>4, <2>5
<1> QED
  BY <1>2, <1>3

LEMMA LookAtConflictsKeeps ==
  ASSUME InboxTyped, FeedIsTrue, NEW now, LookAtConflicts(now)
  PROVE  FeedIsTrue'
<1> DEFINE batch == feed.batch \cup {c.nth : c \in Read}
           since == IF feed.batch = {} /\ Read # {} THEN now ELSE feed.since
           tell == /\ since # Never /\ now - since >= ConflictBatch
                   /\ Past(feed.last, ConflictCooldown, now)
<1>1. /\ feed'.read = ReadUpTo
      /\ feed'.batch = IF tell THEN {} ELSE batch
      /\ announced' = [i \in Ids |-> announced[i] + IF tell /\ i \in batch THEN 1 ELSE 0]
      /\ UNCHANGED <<unread, inbox, lastId, recorder>>
  BY DEF LookAtConflicts, inboxVars
<1>2. /\ feed.read \in 0..lastId /\ lastId \in 0..MaxConflicts
      /\ feed.batch \subseteq 1..feed.read
  BY DEF FeedIsTrue, InboxTyped
<1>3. /\ ReadUpTo \in feed.read..lastId
      /\ \A c \in Read : c \in News /\ c.id <= ReadUpTo
      /\ \A c \in News : c.id <= ReadUpTo => c \in Read
  BY <1>2, ReadingIsInOrder
<1>4. \A c \in News : c \in inbox /\ c.id = c.nth /\ c.id \in Ids /\ c.id > feed.read
  BY DEF News, InboxTyped, Rows
<1>5. batch \subseteq 1..ReadUpTo /\ batch \subseteq Ids
  BY <1>2, <1>3, <1>4, NoticeConstants DEF Ids
<1>6. \A c : c \in News' <=> c \in News /\ c.id > ReadUpTo
  BY <1>1, <1>2, <1>3, <1>4 DEF News, InboxTyped, Rows, Ids
<1>7. \A i \in batch : announced[i] = 0
  <2>1. \A i \in feed.batch : announced[i] = 0
    BY <1>5 DEF FeedIsTrue
  <2>2. \A c \in Read : announced[c.nth] = 0
    BY <1>3, <1>4 DEF FeedIsTrue
  <2> QED
    BY <2>1, <2>2
<1> HIDE DEF batch, since, tell
<1>8. /\ announced' \in [Ids -> 0..1]
      /\ \A i \in Ids : announced'[i] = 1 <=> announced[i] = 1 \/ (tell /\ i \in batch)
  BY <1>1, <1>5, <1>7 DEF FeedIsTrue
<1>9. ASSUME NEW i \in Ids, announced'[i] = 1
      PROVE  i \notin feed'.batch /\ i <= lastId' /\ \A c \in News' : c.nth # i
  <2>1. CASE tell /\ i \in batch
    BY <1>1, <1>2, <1>3, <1>4, <1>5, <1>6, <2>1 DEF Ids
  <2>2. CASE announced[i] = 1
    <3>1. i \notin batch
      BY <1>7, <2>2
    <3> QED
      BY <1>1, <1>6, <2>2, <3>1 DEF FeedIsTrue
  <2> QED
    BY <1>8, <1>9, <2>1, <2>2
<1>10. ASSUME NEW i \in unread'
       PROVE  announced'[i] = 1 \/ i \in feed'.batch \/ \E c \in News' : c.nth = i
  <2>1. i \in unread /\ i \in Ids
    BY <1>1, <1>10 DEF FeedIsTrue
  <2>2. CASE i \in batch
    BY <1>1, <1>8, <2>1, <2>2
  <2>3. CASE announced[i] = 1
    BY <1>8, <2>1, <2>3
  <2>4. CASE \E c \in News : c.nth = i
    <3>1. PICK c \in News : c.nth = i
      BY <2>4
    <3>2. CASE c.id <= ReadUpTo
      <4>1. i \in batch
        BY <1>3, <3>1, <3>2 DEF batch
      <4> QED
        BY <2>2, <4>1
    <3>3. CASE c.id > ReadUpTo
      BY <1>6, <3>1, <3>3
    <3>4. c.id <= ReadUpTo \/ c.id > ReadUpTo
      BY <1>2, <1>3, <1>4 DEF Ids
    <3> QED
      BY <3>2, <3>3, <3>4
  <2>5. feed.batch \subseteq batch
    BY DEF batch
  <2> QED
    BY <2>1, <2>2, <2>3, <2>4, <2>5 DEF FeedIsTrue
<1>11. feed'.read \in 0..lastId' /\ feed'.batch \subseteq 1..feed'.read /\ unread' \subseteq Ids
  <2>1. feed'.read \in 0..lastId' /\ unread' \subseteq Ids
    BY <1>1, <1>2, <1>3, NoticeConstants DEF FeedIsTrue
  <2>2. feed'.batch \subseteq 1..feed'.read
    <3>1. feed'.read = ReadUpTo /\ (feed'.batch = {} \/ feed'.batch = batch)
      BY <1>1
    <3> QED
      BY <1>5, <3>1
  <2> QED
    BY <2>1, <2>2
<1> QED
  BY <1>8, <1>9, <1>10, <1>11 DEF FeedIsTrue

(***************************************************************************)
(* The processes that write the inbox.                                      *)
(***************************************************************************)
\* What is true of the entries stays true when every unread entry keeps one of its number,
\* no number comes back and what is forgotten unread is not waited for.
LEMMA FeedKeptOver ==
  ASSUME InboxTyped, FeedIsTrue, InboxTyped', UNCHANGED <<feed, announced>>,
         lastId <= lastId', unread' \subseteq Ids,
         \A d \in inbox' : \/ \E c \in inbox : c.id = d.id /\ c.nth = d.nth
                           \/ d.id > lastId,
         \A i \in unread' : \/ i \in unread /\ (\A c \in News : c.nth = i =>
                                                  \E d \in inbox' : d.id = c.id /\ d.nth = i)
                            \/ \E d \in inbox' : d.id > feed.read /\ d.nth = i
  PROVE  FeedIsTrue'
<1>1. lastId \in 0..MaxConflicts /\ lastId' \in 0..MaxConflicts /\ feed.read \in 0..lastId
  BY DEF FeedIsTrue, InboxTyped
<1>2. /\ \A d : d \in News' <=> d \in inbox' /\ d.id > feed.read
      /\ \A c : c \in News <=> c \in inbox /\ c.id > feed.read
  BY DEF News
<1>3. /\ feed'.read \in 0..lastId' /\ feed'.batch \subseteq 1..feed'.read
      /\ announced' \in [Ids -> 0..1] /\ unread' \subseteq Ids
  BY <1>1, NoticeConstants DEF FeedIsTrue
<1>4. ASSUME NEW i \in Ids, announced'[i] = 1
      PROVE  i \notin feed'.batch /\ i <= lastId' /\ \A d \in News' : d.nth # i
  <2>1. i \notin feed.batch /\ i <= lastId /\ \A c \in News : c.nth # i
    BY <1>4 DEF FeedIsTrue
  <2>2. i <= lastId'
    BY <1>1, <2>1, NoticeConstants DEF Ids
  <2>3. ASSUME NEW d \in News' PROVE d.nth # i
    <3>1. d \in inbox' /\ d.id > feed.read /\ d.id = d.nth
      BY <1>2, <2>3 DEF InboxTyped
    <3>2. CASE \E c \in inbox : c.id = d.id /\ c.nth = d.nth
      BY <1>2, <2>1, <3>1, <3>2
    <3>3. CASE d.id > lastId
      BY <1>1, <2>1, <3>1, <3>3, NoticeConstants DEF Ids
    <3> QED
      BY <3>1, <3>2, <3>3
  <2> QED
    BY <2>1, <2>2, <2>3
<1>5. ASSUME NEW i \in unread'
      PROVE  announced'[i] = 1 \/ i \in feed'.batch \/ \E d \in News' : d.nth = i
  <2>1. CASE \E d \in inbox' : d.id > feed.read /\ d.nth = i
    BY <1>2, <2>1
  <2>2. CASE i \in unread /\ (\A c \in News : c.nth = i =>
                                \E d \in inbox' : d.id = c.id /\ d.nth = i)
    <3>1. announced[i] = 1 \/ i \in feed.batch \/ \E c \in News : c.nth = i
      BY <2>2 DEF FeedIsTrue
    <3>2. ASSUME NEW c \in News, c.nth = i PROVE \E d \in News' : d.nth = i
      BY <1>2, <2>2, <3>2
    <3> QED
      BY <3>1, <3>2
  <2> QED
    BY <1>5, <2>1, <2>2
<1> QED
  BY <1>3, <1>4, <1>5 DEF FeedIsTrue

NewRow(f, skipped) ==
    [id |-> NextId, nth |-> lastId + 1, file |-> f, skipped |-> skipped, open |-> TRUE]

LEMMA InsertDoes ==
  ASSUME InboxTyped, FeedIsTrue, NEW f \in Clashing, NEW skipped \in BOOLEAN,
         Insert(f, skipped), UNCHANGED <<feed, announced>>,
         recorder' \in [Recorders -> SUBSET Clashing]
  PROVE  InboxTyped' /\ FeedIsTrue'
<1> DEFINE row == NewRow(f, skipped)
<1>1. lastId < MaxConflicts /\ lastId' = lastId + 1 /\ lastId \in 0..MaxConflicts
  BY DEF Insert, InboxTyped
<1>2. /\ inbox' = inbox \cup {row}
      /\ unread' = unread \cup {lastId + 1}
  BY DEF Insert, NewRow
<1>3. row \in Rows /\ row.id = lastId + 1 /\ row.nth = lastId + 1
  BY <1>1, NoticeConstants DEF NewRow, Rows, NextId, Ids
<1> HIDE DEF row
<1>4. InboxTyped'
  <2>1. inbox' \subseteq Rows /\ IsFiniteSet(inbox')
    BY <1>2, <1>3, FS_AddElement DEF InboxTyped
  <2>2. lastId' \in 0..MaxConflicts
    BY <1>1, NoticeConstants
  <2>3. \A c \in inbox' : c.id = c.nth /\ c.id <= lastId'
    BY <1>1, <1>2, <1>3 DEF InboxTyped, Rows, Ids
  <2> QED
    BY <2>1, <2>2, <2>3 DEF InboxTyped
<1>5. lastId <= lastId' /\ unread' \subseteq Ids
  <2>1. lastId <= lastId' /\ lastId + 1 \in Ids
    BY <1>1, NoticeConstants DEF Ids
  <2>2. unread \subseteq Ids
    BY DEF FeedIsTrue
  <2> QED
    BY <1>2, <2>1, <2>2
<1>6. \A d \in inbox' : \/ \E c \in inbox : c.id = d.id /\ c.nth = d.nth
                        \/ d.id > lastId
  BY <1>1, <1>2, <1>3
<1>7. feed.read \in 0..lastId
  BY DEF FeedIsTrue
<1>8. row \in inbox' /\ row.id > feed.read
  BY <1>1, <1>2, <1>3, <1>7
<1>9. \A i \in unread' : \/ i \in unread /\ (\A c \in News : c.nth = i =>
                                               \E d \in inbox' : d.id = c.id /\ d.nth = i)
                         \/ \E d \in inbox' : d.id > feed.read /\ d.nth = i
  <2>1. \A c \in News : c \in inbox'
    BY <1>2 DEF News
  <2> QED
    BY <1>2, <1>3, <1>8, <2>1
<1> QED
  BY <1>4, <1>5, <1>6, <1>9, FeedKeptOver

LEMMA RecordSettledKeeps ==
  ASSUME InboxInv, NEW g \in Clashing, RecordSettled(g)
  PROVE  InboxInv'
<1>1. Insert(g, FALSE) /\ UNCHANGED <<recorder, feed, announced>>
  BY DEF RecordSettled, InboxOnly
<1>2. InboxTyped' /\ FeedIsTrue'
  BY <1>1, InsertDoes DEF InboxInv, InboxTyped
<1>3. ASSUME NEW f \in Clashing PROVE OpenSkips(f)' = OpenSkips(f) /\ Waiting(f)' = Waiting(f)
  <2>1. inbox' = inbox \cup {NewRow(g, FALSE)} /\ ~NewRow(g, FALSE).skipped
    BY <1>1 DEF Insert, NewRow
  <2> QED
    BY <1>1, <2>1 DEF OpenSkips, Waiting
<1>4. PilesAreBounded'
  BY <1>3 DEF InboxInv, PilesAreBounded
<1> QED
  BY <1>2, <1>4 DEF InboxInv

\* A process that has looked a file up and found it settled is one of those.
LEMMA LookUpKeeps ==
  ASSUME InboxInv, NEW r \in Recorders, NEW g \in Clashing, LookUp(r, g)
  PROVE  InboxInv'
<1>1. /\ OpenSkips(g) = {} /\ recorder[r] = {}
      /\ recorder' = [recorder EXCEPT ![r] = {g}]
      /\ UNCHANGED <<inbox, lastId, unread, feed, announced>>
  BY DEF LookUp, NoneOpen, InboxOnly
<1>2. InboxTyped'
  BY <1>1 DEF InboxInv, InboxTyped
<1>3. FeedIsTrue'
  BY <1>1 DEF InboxInv, FeedIsTrue, News
<1>4. ASSUME NEW f \in Clashing
      PROVE  Cardinality(OpenSkips(f)') + Cardinality(Waiting(f)') <= Cardinality(Recorders)
  <2>1. OpenSkips(f)' = OpenSkips(f)
    BY <1>1 DEF OpenSkips
  <2>2. CASE f = g
    <3>1. Cardinality(Waiting(f)') <= Cardinality(Recorders) /\ Cardinality(Waiting(f)') \in Nat
      <4>1. Waiting(f)' \in SUBSET Recorders /\ IsFiniteSet(Recorders)
        BY NoticesAssumption DEF Waiting, NoticesAssumption
      <4> QED
        BY <4>1, FS_Subset, FS_CardinalityType
    <3>2. Cardinality(OpenSkips(f)') = 0
      BY <1>1, <2>1, <2>2, FS_EmptySet
    <3>3. Cardinality(Recorders) \in Nat
      BY NoticesAssumption, FS_CardinalityType DEF NoticesAssumption
    <3> QED
      BY <3>1, <3>2, <3>3
  <2>3. CASE f # g
    <3>1. Waiting(f)' = Waiting(f)
      BY <1>1, <2>3 DEF Waiting, InboxInv, InboxTyped
    <3> QED
      BY <2>1, <3>1 DEF InboxInv, PilesAreBounded
  <2> QED
    BY <2>2, <2>3
<1>5. PilesAreBounded'
  BY <1>4 DEF PilesAreBounded
<1> QED
  BY <1>2, <1>3, <1>5 DEF InboxInv

\* What it goes on to insert, it was counted for.
LEMMA RecordSkippedKeeps ==
  ASSUME InboxInv, NEW r \in Recorders, RecordSkipped(r)
  PROVE  InboxInv'
<1>1. PICK g \in recorder[r] : Insert(g, TRUE)
  BY DEF RecordSkipped
<1>2. recorder' = [recorder EXCEPT ![r] = {}] /\ UNCHANGED <<feed, announced>>
  BY DEF RecordSkipped, InboxOnly
<1>3. g \in Clashing /\ recorder' \in [Recorders -> SUBSET Clashing]
  BY <1>2 DEF InboxInv, InboxTyped
<1>4. InboxTyped' /\ FeedIsTrue'
  BY <1>1, <1>2, <1>3, InsertDoes DEF InboxInv
<1>5. ASSUME NEW f \in Clashing
      PROVE  Cardinality(OpenSkips(f)') + Cardinality(Waiting(f)') <= Cardinality(Recorders)
  <2> DEFINE row == NewRow(g, TRUE)
  <2>1. inbox' = inbox \cup {row} /\ row.file = g
    BY <1>1 DEF Insert, NewRow
  <2>2. Waiting(f)' = Waiting(f) \ {r}
    BY <1>2 DEF Waiting, InboxInv, InboxTyped
  <2>3. /\ IsFiniteSet(OpenSkips(f)) /\ Cardinality(OpenSkips(f)) \in Nat
        /\ IsFiniteSet(Waiting(f)) /\ Cardinality(Waiting(f)) \in Nat
        /\ Cardinality(Recorders) \in Nat
        /\ Cardinality(OpenSkips(f)) + Cardinality(Waiting(f)) <= Cardinality(Recorders)
    BY PilesAreFinite DEF InboxInv, PilesAreBounded
  <2> HIDE DEF row
  <2>4. CASE f = g
    <3>1. OpenSkips(f)' \in SUBSET (OpenSkips(f) \cup {row})
      BY <2>1 DEF OpenSkips
    <3>2. /\ IsFiniteSet(OpenSkips(f) \cup {row})
          /\ Cardinality(OpenSkips(f) \cup {row}) <= Cardinality(OpenSkips(f)) + 1
      <4>1. /\ IsFiniteSet(OpenSkips(f) \cup {row})
            /\ Cardinality(OpenSkips(f) \cup {row}) =
                  IF row \in OpenSkips(f) THEN Cardinality(OpenSkips(f))
                  ELSE Cardinality(OpenSkips(f)) + 1
        BY <2>3, FS_AddElement
      <4> QED
        BY <2>3, <4>1
    <3>3. /\ Cardinality(OpenSkips(f)') <= Cardinality(OpenSkips(f)) + 1
          /\ Cardinality(OpenSkips(f)') \in Nat
      <4>1. /\ Cardinality(OpenSkips(f) \cup {row}) \in Nat /\ IsFiniteSet(OpenSkips(f)')
            /\ Cardinality(OpenSkips(f)') <= Cardinality(OpenSkips(f) \cup {row})
        BY <3>1, <3>2, FS_Subset, FS_CardinalityType
      <4>2. Cardinality(OpenSkips(f)') \in Nat
        BY <4>1, FS_CardinalityType
      <4> QED
        BY <2>3, <3>2, <4>1, <4>2
    <3>4. r \in Waiting(f)
      BY <1>1, <2>4 DEF Waiting
    <3>5. Cardinality(Waiting(f)') = Cardinality(Waiting(f)) - 1
      BY <2>2, <2>3, <3>4, FS_RemoveElement
    <3> QED
      BY <2>3, <3>3, <3>5
  <2>5. CASE f # g
    <3>1. OpenSkips(f)' = OpenSkips(f)
      BY <2>1, <2>5 DEF OpenSkips
    <3>2. Cardinality(Waiting(f)') <= Cardinality(Waiting(f)) /\ Cardinality(Waiting(f)') \in Nat
      <4>1. Waiting(f)' \in SUBSET Waiting(f)
        BY <2>2
      <4> QED
        BY <2>3, <4>1, FS_Subset, FS_CardinalityType
    <3> QED
      BY <2>3, <3>1, <3>2
  <2> QED
    BY <2>4, <2>5
<1>6. PilesAreBounded'
  BY <1>5 DEF PilesAreBounded
<1> QED
  BY <1>4, <1>6 DEF InboxInv

\* The piles only shrink where no entry is opened.
LEMMA PilesKeptOver ==
  ASSUME InboxInv, UNCHANGED recorder,
         \A f \in Clashing : OpenSkips(f)' \subseteq OpenSkips(f)
  PROVE  PilesAreBounded'
<1> SUFFICES ASSUME NEW f \in Clashing
    PROVE  Cardinality(OpenSkips(f)') + Cardinality(Waiting(f)') <= Cardinality(Recorders)
  BY DEF PilesAreBounded
<1>1. Waiting(f)' = Waiting(f)
  BY DEF Waiting
<1>2. /\ IsFiniteSet(OpenSkips(f)) /\ Cardinality(OpenSkips(f)) \in Nat
      /\ Cardinality(Waiting(f)) \in Nat /\ Cardinality(Recorders) \in Nat
      /\ Cardinality(OpenSkips(f)) + Cardinality(Waiting(f)) <= Cardinality(Recorders)
  BY PilesAreFinite DEF InboxInv, PilesAreBounded
<1>3. /\ Cardinality(OpenSkips(f)') <= Cardinality(OpenSkips(f))
      /\ Cardinality(OpenSkips(f)') \in Nat
  BY <1>2, FS_Subset, FS_CardinalityType
<1> QED
  BY <1>1, <1>2, <1>3

\* An entry that is closed keeps its number.
LEMMA DismissKeeps == InboxInv /\ DismissConflicts => InboxInv'
<1> SUFFICES ASSUME InboxInv, DismissConflicts PROVE InboxInv'
  OBVIOUS
<1> DEFINE Closed(c) == [c EXCEPT !.open = FALSE]
<1>1. PICK which \in SUBSET {c \in inbox : c.open} :
          inbox' = (inbox \ which) \cup {Closed(c) : c \in which}
  BY DEF DismissConflicts
<1>2. UNCHANGED <<lastId, recorder, unread, feed, announced>>
  BY DEF DismissConflicts, InboxOnly
<1>3. inbox \subseteq Rows /\ which \subseteq inbox /\ which \subseteq Rows /\ IsFiniteSet(which)
  <2>1. inbox \subseteq Rows /\ IsFiniteSet(inbox)
    BY DEF InboxInv, InboxTyped
  <2>2. which \in SUBSET inbox
    BY <1>1
  <2> QED
    BY <2>1, <2>2, FS_Subset
<1>4. \A c \in which : /\ Closed(c) \in Rows /\ Closed(c).id = c.id /\ Closed(c).nth = c.nth
                       /\ Closed(c).open = FALSE
  BY <1>3, ClosedIs
<1>5. IsFiniteSet({Closed(c) : c \in which})
  <2> DEFINE image == {Closed(c) : c \in which}
             f == [c \in which |-> Closed(c)]
  <2>1. f \in Surjection(which, image)
    <3>1. f \in [which -> image]
      OBVIOUS
    <3>2. \A t \in image : \E c \in which : f[c] = t
      OBVIOUS
    <3> QED
      BY <3>1, <3>2 DEF Surjection
  <2> HIDE DEF f
  <2> QED
    BY <1>3, <2>1, FS_Surjection
<1> HIDE DEF Closed
<1>6. \A d \in inbox' : d \in inbox \/ \E c \in which : d = Closed(c)
  BY <1>1
<1>7. InboxTyped'
  <2>1. inbox' \subseteq Rows
    BY <1>3, <1>4, <1>6
  <2>2. IsFiniteSet(inbox')
    <3>1. IsFiniteSet(inbox \ which)
      BY FS_Difference DEF InboxInv, InboxTyped
    <3> QED
      BY <1>1, <1>5, <3>1, FS_Union
  <2>3. \A c \in inbox' : c.id = c.nth /\ c.id <= lastId'
    <3>1. \A c \in inbox : c.id = c.nth /\ c.id <= lastId
      BY DEF InboxInv, InboxTyped
    <3> QED
      BY <1>2, <1>3, <1>4, <1>6, <3>1
  <2> QED
    BY <1>2, <2>1, <2>2, <2>3 DEF InboxInv, InboxTyped
<1>8. FeedIsTrue'
  <2>1. \A d \in inbox' : \/ \E c \in inbox : c.id = d.id /\ c.nth = d.nth
                          \/ d.id > lastId
    BY <1>3, <1>4, <1>6
  <2>2. \A c \in inbox : \E d \in inbox' : d.id = c.id /\ d.nth = c.nth
    <3>1. ASSUME NEW c \in inbox PROVE \E d \in inbox' : d.id = c.id /\ d.nth = c.nth
      <4>1. CASE c \in which
        <5>1. Closed(c) \in inbox'
          BY <1>1, <4>1
        <5> QED
          BY <1>4, <4>1, <5>1
      <4>2. CASE c \notin which
        BY <1>1, <4>2
      <4> QED
        BY <4>1, <4>2
    <3> QED
      BY <3>1
  <2>3. \A i \in unread' : i \in unread /\ \A c \in News : c.nth = i =>
                                             \E d \in inbox' : d.id = c.id /\ d.nth = i
    BY <1>2, <2>2 DEF News
  <2>4. lastId <= lastId' /\ unread' \subseteq Ids
    BY <1>2 DEF InboxInv, InboxTyped, FeedIsTrue
  <2> QED
    BY <1>2, <1>7, <2>1, <2>3, <2>4, FeedKeptOver DEF InboxInv
<1>9. PilesAreBounded'
  <2>1. ASSUME NEW f \in Clashing PROVE OpenSkips(f)' \subseteq OpenSkips(f)
    BY <1>4, <1>6 DEF OpenSkips
  <2> QED
    BY <1>2, <2>1, PilesKeptOver
<1> QED
  BY <1>7, <1>8, <1>9 DEF InboxInv

LEMMA PruneKeeps == InboxInv /\ PruneConflicts => InboxInv'
<1> SUFFICES ASSUME InboxInv, PruneConflicts PROVE InboxInv'
  OBVIOUS
<1>1. PICK gone \in SUBSET {c \in inbox : ~c.open} :
          inbox' = inbox \ gone /\ unread' = unread \ {c.nth : c \in gone \cap News}
  BY DEF PruneConflicts
<1>2. UNCHANGED <<lastId, recorder, feed, announced>>
  BY DEF PruneConflicts, InboxOnly
<1>3. InboxTyped'
  <2>1. IsFiniteSet(inbox')
    BY <1>1, FS_Difference DEF InboxInv, InboxTyped
  <2> QED
    BY <1>1, <1>2, <2>1 DEF InboxInv, InboxTyped
<1>4. FeedIsTrue'
  <2>1. \A d \in inbox' : \/ \E c \in inbox : c.id = d.id /\ c.nth = d.nth
                          \/ d.id > lastId
    BY <1>1
  <2>2. \A i \in unread' : i \in unread /\ \A c \in News : c.nth = i =>
                                             \E d \in inbox' : d.id = c.id /\ d.nth = i
    BY <1>1 DEF News
  <2>3. lastId <= lastId' /\ unread' \subseteq Ids
    BY <1>1, <1>2 DEF InboxInv, InboxTyped, FeedIsTrue
  <2> QED
    BY <1>2, <1>3, <2>1, <2>2, <2>3, FeedKeptOver DEF InboxInv
<1>5. PilesAreBounded'
  <2>1. ASSUME NEW f \in Clashing PROVE OpenSkips(f)' \subseteq OpenSkips(f)
    BY <1>1 DEF OpenSkips
  <2> QED
    BY <1>2, <2>1, PilesKeptOver
<1> QED
  BY <1>3, <1>4, <1>5 DEF InboxInv

\* A tray that starts has nothing before it.
LEMMA StartFeedKeeps == InboxInv /\ StartFeed => InboxInv'
<1> SUFFICES ASSUME InboxInv, StartFeed PROVE InboxInv'
  OBVIOUS
<1>1. /\ feed' = [Untold EXCEPT !.read = Newest(inbox)] /\ unread' = {}
      /\ UNCHANGED <<announced, inbox, lastId, recorder>>
  BY DEF StartFeed, inboxVars
<1>2. feed'.read = Newest(inbox) /\ feed'.batch = {}
  BY <1>1 DEF Untold
<1>3. Newest(inbox) \in 0..lastId /\ \A c \in inbox : ~(c.id > Newest(inbox))
  <2>1. CASE inbox = {}
    BY <2>1, NoticeConstants DEF Newest, InboxInv, InboxTyped
  <2>2. CASE inbox # {}
    <3>1. /\ \E c \in inbox : c.id = Newest(inbox)
          /\ \A c \in inbox : c.id <= Newest(inbox)
      BY <2>2, NewestIs DEF InboxInv, InboxTyped
    <3> QED
      BY <3>1, NoticeConstants DEF InboxInv, InboxTyped, Rows, Ids
  <2> QED
    BY <2>1, <2>2
<1>4. InboxTyped'
  BY <1>1 DEF InboxInv, InboxTyped
<1>5. FeedIsTrue'
  <2>1. \A c : c \notin News'
    BY <1>1, <1>2, <1>3 DEF News
  <2>2. \A i \in Ids : announced[i] = 1 => i <= lastId
    BY DEF InboxInv, FeedIsTrue
  <2> QED
    BY <1>1, <1>2, <1>3, <2>1, <2>2 DEF InboxInv, FeedIsTrue
<1>6. PilesAreBounded'
  BY <1>1, PilesKeptOver DEF OpenSkips
<1> QED
  BY <1>4, <1>5, <1>6 DEF InboxInv

LEMMA InboxStep == InboxInv /\ [NoticesNext]_noticeVars => InboxInv'
<1> SUFFICES ASSUME InboxInv, [NoticesNext]_noticeVars PROVE InboxInv'
  OBVIOUS
<1>1. ASSUME UNCHANGED <<inboxVars, feedVars>> PROVE InboxInv'
  BY <1>1 DEF InboxInv, InboxTyped, FeedIsTrue, PilesAreBounded, OpenSkips, Waiting, News,
              inboxVars, feedVars
<1>2. CASE Look
  <2>1. CASE LookAtStatus(second') \/ LookAtHeld(second')
    BY <1>1, <2>1 DEF LookAtStatus, LookAtHeld
  <2>2. CASE LookAtConflicts(second')
    <3>1. FeedIsTrue' /\ UNCHANGED inboxVars
      BY <2>2, LookAtConflictsKeeps DEF InboxInv, LookAtConflicts
    <3> QED
      BY <3>1 DEF InboxInv, InboxTyped, PilesAreBounded, OpenSkips, Waiting, inboxVars
  <2> QED
    BY <1>2, <2>1, <2>2 DEF Look
<1>3. CASE StatusTurns \/ HoldTurns
  BY <1>1, <1>3 DEF StatusTurns, HoldTurns
<1>4. ASSUME NEW f \in Clashing, RecordSettled(f) \/ \E r \in Recorders : LookUp(r, f)
      PROVE  InboxInv'
  BY <1>4, RecordSettledKeeps, LookUpKeeps
<1>5. ASSUME NEW r \in Recorders, RecordSkipped(r) PROVE InboxInv'
  BY <1>5, RecordSkippedKeeps
<1>6. CASE DismissConflicts \/ PruneConflicts \/ StartFeed
  BY <1>6, DismissKeeps, PruneKeeps, StartFeedKeeps
<1>7. CASE UNCHANGED noticeVars
  BY <1>1, <1>7 DEF noticeVars, inboxVars, feedVars
<1> QED
  BY <1>2, <1>3, <1>4, <1>5, <1>6, <1>7 DEF NoticesNext

\* A problem that lasts is told, every conflict recorded while the tray runs is read and
\* none announced twice, and the inbox holds at most an open entry of a file for each
\* process that records them (notify.rs, `conflicts_since` and `record_conflict` of stats.rs).
THEOREM WhatHappensIsTold == NoticesSpec => []NewsIsTold
<1>1. NoticesInit => StatusInv /\ InboxInv
  BY StatusInitOk, InboxInitOk
<1>2. StatusInv /\ InboxInv /\ [NoticesNext]_noticeVars => StatusInv' /\ InboxInv'
  BY StatusStep, InboxStep
<1>3. StatusInv /\ InboxInv => NewsIsTold
  <2>1. SUFFICES ASSUME StatusInv, InboxInv PROVE NewsIsTold
    OBVIOUS
  <2>2. LastingProblemIsTold
    BY <2>1, NoticeConstants
       DEF LastingProblemIsTold, StatusInv, StatusTyped, ErrorsAreTimed, LocksAreTimed
  <2>3. ConflictsAreToldOnce
    BY <2>1 DEF ConflictsAreToldOnce, InboxInv, FeedIsTrue
  <2>4. OpenEntriesDoNotPile
    <3>1. ASSUME NEW f \in Clashing PROVE Cardinality(OpenSkips(f)) <= Cardinality(Recorders)
      BY <2>1, PilesAreFinite DEF InboxInv, PilesAreBounded
    <3> QED
      BY <3>1 DEF OpenEntriesDoNotPile
  <2> QED
    BY <2>2, <2>3, <2>4 DEF NewsIsTold
<1> QED
  BY <1>1, <1>2, <1>3, PTL DEF NoticesSpec

\* The tray's reading of the inbox has a time or none wherever it has one.
FeedStates == [read : 0..MaxConflicts, batch : SUBSET Ids, since : Instants, last : Instants]

LEMMA FeedStaysTyped ==
  ASSUME NoticesTypeOK, StatusInv, InboxInv, [NoticesNext]_noticeVars
  PROVE  feed' \in FeedStates
<1>1. feed \in FeedStates /\ 0 \in 0..MaxConflicts /\ MaxConflicts \in Nat /\ Never \in Instants
  BY NoticeConstants DEF NoticesTypeOK, FeedStates
<1>2. CASE Look /\ LookAtConflicts(second')
  <2> DEFINE batch == feed.batch \cup {c.nth : c \in Read}
             since == IF feed.batch = {} /\ Read # {} THEN second' ELSE feed.since
             tell == /\ since # Never /\ second' - since >= ConflictBatch
                     /\ Past(feed.last, ConflictCooldown, second')
  <2>1. feed' = [read |-> ReadUpTo, batch |-> IF tell THEN {} ELSE batch,
                 since |-> IF tell THEN Never ELSE since,
                 last |-> IF tell THEN second' ELSE feed.last]
    BY <1>2 DEF LookAtConflicts
  <2>2. second' \in Instants
    BY <1>2, NoticeConstants DEF Look, NoticesTypeOK
  <2>3. ReadUpTo \in 0..MaxConflicts
    <3>1. ReadUpTo \in feed.read..lastId
      BY ReadingIsInOrder DEF InboxInv, FeedIsTrue
    <3> QED BY <1>1, <3>1 DEF InboxInv, FeedIsTrue, InboxTyped
  <2>4. batch \subseteq Ids
    BY <1>1 DEF FeedStates, Read, News, InboxInv, InboxTyped, Rows
  <2>5. since \in Instants /\ feed.last \in Instants
    BY <1>1, <2>2 DEF FeedStates
  <2> HIDE DEF batch, since, tell
  <2> QED BY <1>1, <2>1, <2>2, <2>3, <2>4, <2>5 DEF FeedStates
<1>3. CASE StartFeed
  <2>1. feed' = [Untold EXCEPT !.read = Newest(inbox)]
    BY <1>3 DEF StartFeed
  <2>2. Newest(inbox) \in 0..MaxConflicts
    <3>1. /\ feed'.read = Newest(inbox)
          /\ feed'.read \in 0..lastId' /\ lastId' \in 0..MaxConflicts
      BY <2>1, <1>3, StartFeedKeeps DEF Untold, InboxInv, FeedIsTrue, InboxTyped
    <3> QED BY <1>1, <3>1
  <2> QED BY <1>1, <2>1, <2>2 DEF Untold, FeedStates
<1>4. CASE UNCHANGED feed
  BY <1>1, <1>4
<1> QED
  BY <1>2, <1>3, <1>4
     DEF NoticesNext, Look, LookAtStatus, LookAtHeld, StatusTurns, HoldTurns, RecordSettled, LookUp,
         RecordSkipped, DismissConflicts, PruneConflicts, InboxOnly, feedVars, noticeVars

\* The typing of the notices and the inbox, for any pauses, folders, files and recorders.
THEOREM NoticesTypeCorrect == NoticesSpec => []NoticesTypeOK
<1> DEFINE Whole == NoticesTypeOK /\ StatusInv /\ HeldInv /\ InboxInv
<1>1. ASSUME NoticesInit PROVE Whole
  <2>1. StatusInv /\ InboxInv
    BY <1>1, StatusInitOk, InboxInitOk
  <2>2. HeldInv
    BY <1>1, NoticeConstants DEF NoticesInit, HeldInv, Nothing
  <2>3. feed \in FeedStates /\ topic \in Topics
    BY <1>1, NoticeConstants DEF NoticesInit, FeedStates, Untold
  <2>4. NoticesTypeOK
    BY <2>1, <2>2, <2>3, NoticeConstants
       DEF NoticesTypeOK, FeedStates, StatusInv, StatusTyped, InboxInv, InboxTyped, FeedIsTrue,
           HeldInv, Rows
  <2> QED BY <2>1, <2>2, <2>4
<1>2. ASSUME Whole, [NoticesNext]_noticeVars PROVE Whole'
  <2>1. StatusInv' /\ HeldInv' /\ InboxInv'
    BY <1>2, StatusStep, HeldStep, InboxStep
  <2>2. feed' \in FeedStates /\ topic' \in Topics
    <3>1. feed' \in FeedStates
      BY <1>2, FeedStaysTyped
    <3>2. topic' = topic
      BY <1>2 DEF NoticesNext, noticeVars
    <3> QED BY <1>2, <3>1, <3>2 DEF NoticesTypeOK
  <2>3. NoticesTypeOK'
    BY <2>1, <2>2, NoticeConstants
       DEF NoticesTypeOK, FeedStates, StatusInv, StatusTyped, InboxInv, InboxTyped, FeedIsTrue,
           HeldInv, Rows
  <2> QED BY <2>1, <2>3
<1>3. Whole => NoticesTypeOK
  OBVIOUS
<1> QED BY <1>1, <1>2, <1>3, PTL DEF NoticesSpec
=============================================================================
