---------------------------- MODULE DesktopProofs ----------------------------
(***************************************************************************)
(* What holds of that which goes on by itself: the watcher's loop, the      *)
(* watchers, the tray with its supervisor and the transfers held to a       *)
(* bandwidth, for any folders, periods, processes, caps and settings.       *)
(***************************************************************************)
EXTENDS MCDesktop, FiniteSetTheorems, SequenceTheorems, WellFoundedInduction, TLAPS

(***************************************************************************)
(* The watcher's loop: its typing, and that no walk is left running,        *)
(* untold, without a session.                                               *)
(***************************************************************************)
\* The loop comes to work only through an open gate, and only there lowers the flag.
WorksBehindOpenGate == pc \in {"prime", "start", "recv", "burst", "recheck"} => gate = "open"

\* The first walk begins in a turn of the loop.
NothingRunsYet == pc = "begin" => walk = "none"

IInv == TypeOK /\ WorksBehindOpenGate /\ NothingRunsYet /\ WalkIsToldToStop

LEMMA LongestCovers ==
  Longest \in Nat /\ \A g \in Gates : Every[g] <= Longest
BY WatchAssumption DEF Longest, Greater, Gates

LEMMA Bounds ==
  /\ Floor \in Nat /\ Cap \in Nat /\ Floor <= Cap
  /\ MaxChanges \in Nat /\ MaxTurns \in Nat /\ MaxFaults \in Nat
BY WatchAssumption

LEMMA InitEstablishes == Init => IInv
<1> SUFFICES ASSUME Init PROVE IInv
  OBVIOUS
<1>1. IsFiniteSet(unseen) /\ Cardinality(unseen) \in Nat
  <2>1. IsFiniteSet(Sides)
    <3>1. IsFiniteSet({"here"})
      BY FS_Singleton
    <3>2. IsFiniteSet({"here"} \cup {"there"})
      BY <3>1, FS_AddElement
    <3>3. Sides = {"here"} \cup {"there"}
      BY DEF Sides
    <3> QED
      BY <3>2, <3>3
  <2>2. IsFiniteSet(Sides \X Folders)
    BY <2>1, WatchAssumption, FS_Product
  <2> QED
    BY <2>2, FS_Subset, FS_CardinalityType DEF Init
<1>2. changes \in 0..MaxChanges
  BY <1>1, Bounds DEF Init
<1>3. TypeOK
  <2>1. sinceProbe \in 0..Longest /\ fullIn \in 0..Cap
    BY LongestCovers, Bounds DEF Init
  <2>2. turns \in 0..MaxTurns /\ faults \in 0..MaxFaults
    BY Bounds DEF Init
  <2> QED
    BY <1>2, <2>1, <2>2 DEF Init, TypeOK, Gates
<1> QED
  BY <1>3 DEF Init, IInv, WorksBehindOpenGate, NothingRunsYet, WalkIsToldToStop

\* A folder read, or not, leaves what is seen and what is heard of within their types.
LEMMA VisitTyped ==
  ASSUME TypeOK, NEW f \in Folders, Reads(f) \/ FailsAt(f)
  PROVE  /\ unseen' \subseteq Sides \X Folders /\ events' \subseteq Folders
         /\ faults' \in 0..MaxFaults
BY Bounds DEF TypeOK, Reads, FailsAt, Echo, Fault

\* The gate follows the session or stays.
LEMMA AnswerTyped ==
  ASSUME TypeOK, NEW known \in BOOLEAN, Answer(known)
  PROVE  gate' \in Gates /\ faults' \in 0..MaxFaults
BY Bounds DEF TypeOK, Answer, Fault

LEMMA RunsPreserve ==
  ASSUME IInv
  PROVE  /\ BurstEnds => IInv'
         /\ Walker => IInv'
         /\ \A f \in Folders : BurstFolder(f) => IInv'
<1> USE DEF IInv
<1>1. ASSUME BurstEnds PROVE IInv'
  <2>1. sinceProbe' \in 0..Longest
    BY <1>1, LongestCovers DEF BurstEnds, TypeOK
  <2>2. pc' \in {"recheck", "top"} /\ gate = "open" /\ UNCHANGED gate
    BY <1>1 DEF BurstEnds, WorksBehindOpenGate
  <2>3. batch' = {} /\ errs' = FALSE /\ UNCHANGED <<walking, inbox, outside, faults, unseen>>
    BY <1>1 DEF BurstEnds
  <2> QED
    BY <2>1, <2>2, <2>3
    DEF TypeOK, WorksBehindOpenGate, NothingRunsYet, WalkIsToldToStop, walking, inbox, outside
<1>2. ASSUME Walker PROVE IInv'
  <2>1. CASE WalkEnds
    BY <2>1
    DEF WalkEnds, TypeOK, WorksBehindOpenGate, NothingRunsYet, WalkIsToldToStop, loop, inbox,
        outside
  <2>2. CASE \E f \in Folders : WalkFolder(f)
    <3> PICK f \in Folders : WalkFolder(f)
      BY <2>2
    <3>1. /\ unseen' \subseteq Sides \X Folders /\ events' \subseteq Folders
          /\ faults' \in 0..MaxFaults
      BY VisitTyped DEF WalkFolder
    <3> QED
      BY <3>1
      DEF WalkFolder, TypeOK, WorksBehindOpenGate, NothingRunsYet, WalkIsToldToStop, loop, outside
  <2> QED
    BY <1>2, <2>1, <2>2 DEF Walker
<1>3. ASSUME NEW f \in Folders, BurstFolder(f) PROVE IInv'
  <2>1. /\ unseen' \subseteq Sides \X Folders /\ events' \subseteq Folders
        /\ faults' \in 0..MaxFaults
    BY <1>3, VisitTyped DEF BurstFolder
  <2>2. batch' \subseteq Folders /\ errs' \in BOOLEAN
    BY <1>3 DEF BurstFolder, TypeOK
  <2>3. UNCHANGED <<pc, gate, sinceProbe, walking, queue, hot, signal, outside>>
    BY <1>3 DEF BurstFolder
  <2> QED
    BY <2>1, <2>2, <2>3
    DEF TypeOK, WorksBehindOpenGate, NothingRunsYet, WalkIsToldToStop, walking, outside
<1> QED
  BY <1>1, <1>2, <1>3

LEMMA ProbesPreserve ==
  ASSUME IInv, NEW known \in BOOLEAN
  PROVE  FirstProbe(known) \/ Probe(known) \/ Recheck(known) => IInv'
<1> USE DEF IInv
<1>1. ASSUME FirstProbe(known) PROVE IInv'
  <2>1. gate' \in Gates /\ faults' \in 0..MaxFaults
    BY <1>1, AnswerTyped DEF FirstProbe
  <2>2. batch' \subseteq Folders
    BY <1>1 DEF FirstProbe, LocalChanges, TypeOK
  <2>3. walk = "none" /\ UNCHANGED <<sinceProbe, errs, walking, inbox, outside, unseen>>
    BY <1>1 DEF FirstProbe, NothingRunsYet
  <2>4. (pc' = "prime" \/ pc' = "top") /\ (pc' = "prime" => gate' = "open")
    BY <1>1 DEF FirstProbe
  <2> QED
    BY <2>1, <2>2, <2>3, <2>4
    DEF TypeOK, WorksBehindOpenGate, NothingRunsYet, WalkIsToldToStop, walking, inbox, outside
<1>2. ASSUME Probe(known) PROVE IInv'
  <2>1. gate' \in Gates /\ faults' \in 0..MaxFaults
    BY <1>2, AnswerTyped DEF Probe
  <2>2. /\ (pc' = "start" /\ gate' = "open") \/ pc' = "top"
        /\ Shut /\ fullIn' \in 0..Cap
    BY <1>2, Bounds DEF Probe, TypeOK
  <2>3. UNCHANGED <<sinceProbe, batch, errs, walk, walkTodo, inbox, outside, unseen>>
    BY <1>2 DEF Probe
  <2> QED
    BY <1>2, <2>1, <2>2, <2>3
    DEF Shut, TypeOK, WorksBehindOpenGate, NothingRunsYet, WalkIsToldToStop, inbox, outside
<1>3. ASSUME Recheck(known) PROVE IInv'
  <2>1. gate' \in Gates /\ faults' \in 0..MaxFaults
    BY <1>3, AnswerTyped DEF Recheck
  <2> QED
    BY <1>3, <2>1
    DEF Recheck, Shut, TypeOK, WorksBehindOpenGate, NothingRunsYet, WalkIsToldToStop, inbox, outside
<1> QED
  BY <1>1, <1>2, <1>3

LEMMA TurnsPreserve ==
  ASSUME IInv
  PROVE  /\ Halt \/ Join \/ Top \/ StartWalk \/ Idles => IInv'
         /\ \A hotTick \in BOOLEAN : Receive(hotTick) => IInv'
<1> USE DEF IInv, TypeOK, WorksBehindOpenGate, NothingRunsYet, WalkIsToldToStop, inbox, outside,
            walking
<1>1. Halt => IInv'
  BY DEF Halt, Halts
<1>2. Join => IInv'
  BY DEF Join
<1>3. ASSUME Top PROVE IInv'
  <2>1. fullIn' \in 0..Cap
    BY <1>3, Bounds DEF Top, Paces
  <2>2. sinceProbe' \in 0..Longest
    BY <1>3, LongestCovers DEF Top
  <2>3. pc' \in {"probe", "start", "top"} /\ (pc' = "start" => gate' = "open")
    BY <1>3 DEF Top
  <2>4. walk' \in {"none", walk} /\ walkCancel' = (walkCancel \/ gate # "open")
    BY <1>3 DEF Top
  <2>5. signal' = FALSE /\ UNCHANGED <<gate, batch, errs, walkTodo, queue, hot, events, outside,
                                      faults, unseen>>
    BY <1>3 DEF Top
  <2> QED
    BY <2>1, <2>2, <2>3, <2>4, <2>5
<1>4. StartWalk => IInv'
  BY DEF StartWalk, WalkBegins
<1>5. Idles => IInv'
  BY DEF Idles, Listening
<1>6. ASSUME NEW hotTick \in BOOLEAN, Receive(hotTick) PROVE IInv'
  BY <1>6 DEF Receive, Listening
<1> QED
  BY <1>1, <1>2, <1>3, <1>4, <1>5, <1>6

LEMMA SurroundingsPreserve == IInv /\ Environment => IInv'
<1> SUFFICES ASSUME IInv, Environment PROVE IInv'
  OBVIOUS
<1> USE DEF IInv, TypeOK, WorksBehindOpenGate, NothingRunsYet, WalkIsToldToStop, inbox, outside,
            walking, loop
<1>1. CASE Tick
  BY <1>1, LongestCovers, Bounds DEF Tick, Lesser
<1>2. CASE Stop
  BY <1>2 DEF Stop
<1>3. ASSUME NEW f \in Folders, Deliver(f) PROVE IInv'
  BY <1>3, WatchAssumption DEF Deliver
<1>4. ASSUME NEW f \in Folders, Cools(f) PROVE IInv'
  BY <1>4 DEF Cools
<1>5. ASSUME NEW f \in Folders, NEW side \in Sides, Change(side, f) PROVE IInv'
  BY <1>5, Bounds DEF Change, Fault
<1>6. ASSUME NEW to \in Gates, SessionTurns(to) PROVE IInv'
  <2>1. turns' \in 0..MaxTurns
    BY <1>6, Bounds DEF SessionTurns
  <2>2. session' \in Gates /\ signal' \in BOOLEAN
    BY <1>6 DEF SessionTurns
  <2>3. UNCHANGED <<loop, walking, queue, hot, events, stop, changes, faults, unseen>>
    BY <1>6 DEF SessionTurns
  <2> QED
    BY <2>1, <2>2, <2>3
<1> QED
  BY <1>1, <1>2, <1>3, <1>4, <1>5, <1>6 DEF Environment

LEMMA StepPreserves == IInv /\ [Next]_vars => IInv'
<1> SUFFICES ASSUME IInv, [Next]_vars PROVE IInv'
  OBVIOUS
<1>1. CASE Loop
  BY <1>1, RunsPreserve, ProbesPreserve, TurnsPreserve DEF Loop
<1>2. CASE Walker
  BY <1>2, RunsPreserve
<1>3. CASE Environment
  BY <1>3, SurroundingsPreserve
<1>4. CASE UNCHANGED vars
  BY <1>4 DEF vars, loop, walking, inbox, outside, IInv, TypeOK, WorksBehindOpenGate,
              NothingRunsYet, WalkIsToldToStop
<1> QED
  BY <1>1, <1>2, <1>3, <1>4 DEF Next

LEMMA Invariance == Spec => []IInv
BY InitEstablishes, StepPreserves, PTL DEF Spec

\* The loop's typing, for any folders and periods.
THEOREM TypeCorrect == Spec => []TypeOK
BY Invariance, PTL DEF IInv

\* Whatever the session does and whenever it is noticed - by the throttle, a nudge or the
\* errors of a burst - the walk in flight has been told to stop once the loop knows, and
\* when the loop ends.
THEOREM NoWalkLeftBehind == Spec => []WalkIsToldToStop
BY Invariance, PTL DEF IInv

-----------------------------------------------------------------------------
(***************************************************************************)
(* Who watches.                                                             *)
(***************************************************************************)
\* A slot remembers a watcher of its own frontend that it has not told to stop.
SlotsAreTrue ==
    \A h \in Hosts, w \in Watches :
        slot[h] = w => watch[w].host = h /\ ~watch[w].told /\ watch[w].stage # "new"

\* There is room for the writes a save has begun.
SavesHaveRoom ==
    writer => disk.version + (IF disk.empty THEN 1 ELSE 2) \in FileVersions

\* A tray that is not up has no watcher to stop.
DownHasNone == tick = "down" => slot[Tray] = Vacant

WatchInv ==
    /\ WatchersTypeOK
    /\ SlotsAreTrue
    /\ SavesHaveRoom
    /\ DownHasNone
    /\ NoStrayWatcher
    /\ WatchingIsBacked

WatchStates == [stage : WatchStages, host : Hosts, told : BOOLEAN, with : FileVersions]

WatchingTyped ==
    /\ slot \in [Hosts -> Watches \cup {Vacant}] /\ shown \in [Hosts -> BOOLEAN]
    /\ watch \in [Watches -> WatchStates]

\* What the threads and their frontends' memory of them have to do with each other.
ThreadsAreKnown == SlotsAreTrue /\ NoStrayWatcher /\ WatchingIsBacked

LEMMA WatchersInitOk == WatchersInit => WatchInv
<1> SUFFICES ASSUME WatchersInit PROVE WatchInv
  OBVIOUS
<1>1. 0 \in FileVersions
  BY WatchersAssumption DEF FileVersions
<1>2. WatchersTypeOK
  BY <1>1 DEF WatchersInit, WatchersTypeOK, Unstarted, WatchStages, Hosts
<1>3. SlotsAreTrue /\ NoStrayWatcher /\ WatchingIsBacked /\ SavesHaveRoom /\ DownHasNone
  BY WatchersAssumption
     DEF WatchersInit, SlotsAreTrue, NoStrayWatcher, WatchingIsBacked, SavesHaveRoom, DownHasNone,
         Lives, Unstarted, Hosts
<1> QED
  BY <1>2, <1>3 DEF WatchInv

\* A watcher that is started is the one its slot remembers, with the settings of its start.
LEMMA StartKeeps ==
  ASSUME WatchingTyped, ThreadsAreKnown, NEW h \in Hosts, NEW v \in FileVersions,
         StartWatch(h, v),
         settings' = settings \/ slot[Tray] = Vacant,
         h = Tray /\ slot[Tray] = Vacant => v = settings'
  PROVE  WatchingTyped' /\ ThreadsAreKnown'
<1> USE DEF WatchingTyped, ThreadsAreKnown
<1>1. CASE slot[h] # Vacant
  <2>1. UNCHANGED <<slot, shown, watch>>
    BY <1>1 DEF StartWatch, Watching
  <2>2. NoStrayWatcher'
    BY <2>1, WatchersAssumption DEF NoStrayWatcher, Lives
  <2> QED
    BY <2>1, <2>2 DEF SlotsAreTrue, WatchingIsBacked
<1>2. CASE slot[h] = Vacant
  <2> DEFINE x == [stage |-> "spawned", host |-> h, told |-> FALSE, with |-> v]
  <2>1. PICK w \in Watches :
           /\ Unused(w)
           /\ watch' = [watch EXCEPT ![w] = x]
           /\ slot' = [slot EXCEPT ![h] = w]
           /\ shown' = [shown EXCEPT ![h] = TRUE]
    BY <1>2 DEF StartWatch
  <2>2. x \in WatchStates /\ x.stage = "spawned" /\ x.host = h /\ ~x.told /\ x.with = v
    BY DEF WatchStates, WatchStages
  <2> HIDE DEF x
  <2>3. /\ watch'[w] = x /\ \A u \in Watches \ {w} : watch'[u] = watch[u]
        /\ slot'[h] = w /\ \A g \in Hosts \ {h} : slot'[g] = slot[g]
        /\ shown'[h] /\ \A g \in Hosts \ {h} : shown'[g] = shown[g]
    BY <2>1
  <2>4. WatchingTyped'
    BY <2>1, <2>2
  <2>5. \A g \in Hosts : slot[g] # w
    BY <2>1 DEF Unused, SlotsAreTrue
  <2>6. SlotsAreTrue'
    BY <2>2, <2>3, <2>5 DEF SlotsAreTrue
  <2>7. NoStrayWatcher'
    <3> SUFFICES ASSUME NEW g \in Hosts, NEW u \in Watches, Lives(u, g)', ~watch'[u].told
                 PROVE  slot'[g] = u /\ (g = Tray => watch'[u].with = settings')
      BY DEF NoStrayWatcher
    <3>1. CASE u = w
      <4>1. g = h
        BY <3>1, <2>2, <2>3 DEF Lives
      <4> QED
        BY <4>1, <3>1, <2>2, <2>3, <1>2
    <3>2. CASE u # w
      <4>1. slot[g] = u /\ (g = Tray => watch[u].with = settings)
        BY <3>2, <2>3 DEF Lives, NoStrayWatcher
      <4>2. g # h
        BY <4>1, <1>2, WatchersAssumption
      <4>3. g = Tray => settings' = settings
        BY <4>1, WatchersAssumption
      <4> QED
        BY <4>1, <4>2, <4>3, <3>2, <2>3
    <3> QED
      BY <3>1, <3>2
  <2>8. WatchingIsBacked'
    <3> SUFFICES ASSUME NEW g \in Hosts, shown'[g]
                 PROVE  \E u \in Watches : /\ slot'[g] = u /\ ~watch'[u].told
                                           /\ watch'[u].stage # "gone"
      BY DEF WatchingIsBacked
    <3>1. CASE g = h
      BY <3>1, <2>2, <2>3
    <3>2. CASE g # h
      BY <3>2, <2>3, <2>5 DEF WatchingIsBacked
    <3> QED
      BY <3>1, <3>2
  <2> QED
    BY <2>4, <2>6, <2>7, <2>8
<1> QED
  BY <1>1, <1>2

\* Once a frontend has stopped its watcher, none of its threads is left that was not told.
LEMMA StopKeeps ==
  ASSUME WatchingTyped, ThreadsAreKnown, NEW h \in Hosts, StopWatch(h),
         settings' = settings \/ h = Tray
  PROVE  WatchingTyped' /\ ThreadsAreKnown' /\ slot'[h] = Vacant
<1> USE DEF WatchingTyped, ThreadsAreKnown
<1>1. /\ slot'[h] = Vacant /\ \A g \in Hosts \ {h} : slot'[g] = slot[g]
      /\ ~shown'[h] /\ \A g \in Hosts \ {h} : shown'[g] = shown[g]
  BY DEF StopWatch
<1>2. \A w \in Watches :
         /\ w # slot[h] => watch'[w] = watch[w]
         /\ w = slot[h] => watch'[w].told
         /\ watch'[w].stage = watch[w].stage /\ watch'[w].host = watch[w].host
         /\ watch'[w].with = watch[w].with
  BY DEF StopWatch, WatchStates
<1>3. WatchingTyped'
  BY DEF StopWatch, WatchStates
<1>4. SlotsAreTrue'
  <2> SUFFICES ASSUME NEW g \in Hosts, NEW w \in Watches, slot'[g] = w
               PROVE  watch'[w].host = g /\ ~watch'[w].told /\ watch'[w].stage # "new"
    BY DEF SlotsAreTrue
  <2>1. g # h /\ slot[g] = w
    BY <1>1, WatchersAssumption
  <2>2. slot[h] # w
    BY <2>1 DEF SlotsAreTrue
  <2> QED
    BY <2>1, <2>2, <1>2 DEF SlotsAreTrue
<1>5. NoStrayWatcher'
  <2> SUFFICES ASSUME NEW g \in Hosts, NEW w \in Watches, Lives(w, g)', ~watch'[w].told
               PROVE  slot'[g] = w /\ (g = Tray => watch'[w].with = settings')
    BY DEF NoStrayWatcher
  <2>1. w # slot[h] /\ watch'[w] = watch[w]
    BY <1>2
  <2>2. slot[g] = w /\ (g = Tray => watch[w].with = settings)
    BY <2>1 DEF Lives, NoStrayWatcher
  <2> QED
    BY <2>1, <2>2, <1>1
<1>6. WatchingIsBacked'
  <2> SUFFICES ASSUME NEW g \in Hosts, shown'[g]
               PROVE  \E w \in Watches : /\ slot'[g] = w /\ ~watch'[w].told
                                         /\ watch'[w].stage # "gone"
    BY DEF WatchingIsBacked
  <2>1. g # h /\ shown[g]
    BY <1>1
  <2>2. PICK w \in Watches : slot[g] = w /\ ~watch[w].told /\ watch[w].stage # "gone"
    BY <2>1 DEF WatchingIsBacked
  <2>3. w # slot[h]
    BY <2>1, <2>2 DEF SlotsAreTrue
  <2> QED
    BY <2>1, <2>2, <2>3, <1>1, <1>2
<1> QED
  BY <1>1, <1>3, <1>4, <1>5, <1>6

\* A thread that goes from one stage of its life to the next.
LEMMA StageKeeps ==
  ASSUME WatchingTyped, ThreadsAreKnown, NEW w \in Watches, NEW from, NEW to,
         <<from, to>> \in {<<"spawned", "watching">>, <<"spawned", "leaving">>,
                           <<"watching", "leaving">>},
         Stage(w, from, to), UNCHANGED <<slot, shown, settings>>
  PROVE  WatchingTyped' /\ ThreadsAreKnown'
<1> USE DEF WatchingTyped, ThreadsAreKnown
<1>1. from \in {"spawned", "watching"} /\ to \in {"watching", "leaving"}
  OBVIOUS
<1>2. /\ watch'[w].stage = to /\ watch[w].stage = from
      /\ \A u \in Watches : /\ u # w => watch'[u].stage = watch[u].stage
                            /\ watch'[u].host = watch[u].host
                            /\ watch'[u].told = watch[u].told
                            /\ watch'[u].with = watch[u].with
  BY DEF Stage, WatchStates
<1>3. WatchingTyped'
  BY <1>1 DEF Stage, WatchStates, WatchStages
<1>4. SlotsAreTrue'
  BY <1>1, <1>2 DEF SlotsAreTrue
<1>5. NoStrayWatcher'
  <2>1. \A u \in Watches, h \in Hosts : Lives(u, h)' => Lives(u, h)
    BY <1>1, <1>2 DEF Lives
  <2> QED
    BY <2>1, <1>2 DEF NoStrayWatcher
<1>6. WatchingIsBacked'
  BY <1>1, <1>2 DEF WatchingIsBacked
<1> QED
  BY <1>3, <1>4, <1>5, <1>6

LEMMA EndKeeps ==
  ASSUME WatchingTyped, ThreadsAreKnown, NEW w \in Watches, EndWatch(w)
  PROVE  WatchingTyped' /\ ThreadsAreKnown'
<1> USE DEF WatchingTyped, ThreadsAreKnown
<1>1. /\ watch'[w].stage = "gone" /\ watch[w].stage = "leaving"
      /\ \A u \in Watches : /\ u # w => watch'[u].stage = watch[u].stage
                            /\ watch'[u].host = watch[u].host
                            /\ watch'[u].told = watch[u].told
                            /\ watch'[u].with = watch[u].with
      /\ slot' = slot /\ settings' = settings
  BY DEF EndWatch, Stage, WatchStates, Chosen
<1>2. /\ ~shown'[watch[w].host]
      /\ \A h \in Hosts : h # watch[w].host => shown'[h] = shown[h]
      /\ watch[w].host \in Hosts
  BY DEF EndWatch, WatchStates
<1>3. WatchingTyped'
  BY <1>2 DEF EndWatch, Stage, WatchStates, WatchStages
<1>4. SlotsAreTrue'
  BY <1>1 DEF SlotsAreTrue
<1>5. NoStrayWatcher'
  <2>1. \A u \in Watches, h \in Hosts : Lives(u, h)' => Lives(u, h)
    BY <1>1 DEF Lives
  <2> QED
    BY <2>1, <1>1 DEF NoStrayWatcher
<1>6. WatchingIsBacked'
  <2> SUFFICES ASSUME NEW h \in Hosts, shown'[h]
               PROVE  \E u \in Watches : /\ slot'[h] = u /\ ~watch'[u].told
                                         /\ watch'[u].stage # "gone"
    BY DEF WatchingIsBacked
  <2>1. h # watch[w].host /\ shown[h]
    BY <1>2
  <2>2. PICK u \in Watches : slot[h] = u /\ ~watch[u].told /\ watch[u].stage # "gone"
    BY <2>1 DEF WatchingIsBacked
  <2>3. u # w
    BY <2>1, <2>2 DEF SlotsAreTrue
  <2> QED
    BY <2>2, <2>3, <1>1
<1> QED
  BY <1>3, <1>4, <1>5, <1>6

\* The tray's end takes its threads along.
LEMMA QuitKeeps ==
  ASSUME WatchingTyped, ThreadsAreKnown, TrayQuits
  PROVE  WatchingTyped' /\ ThreadsAreKnown' /\ slot'[Tray] = Vacant
<1> USE DEF WatchingTyped, ThreadsAreKnown
<1>1. Tray \in Hosts
  BY DEF Hosts
<1>2. /\ slot'[Tray] = Vacant /\ \A g \in Hosts \ {Tray} : slot'[g] = slot[g]
      /\ ~shown'[Tray] /\ \A g \in Hosts \ {Tray} : shown'[g] = shown[g]
      /\ settings' = settings
  BY <1>1 DEF TrayQuits, Chosen
<1>3. \A w \in Watches :
         /\ watch[w].host # Tray => watch'[w] = watch[w]
         /\ watch[w].host = Tray => watch'[w].stage \in {"new", "gone"}
         /\ watch'[w].host = watch[w].host
  BY DEF TrayQuits, WatchStates
<1>4. WatchingTyped'
  BY DEF TrayQuits, WatchStates, WatchStages
<1>5. SlotsAreTrue'
  <2> SUFFICES ASSUME NEW g \in Hosts, NEW w \in Watches, slot'[g] = w
               PROVE  watch'[w].host = g /\ ~watch'[w].told /\ watch'[w].stage # "new"
    BY DEF SlotsAreTrue
  <2>1. g # Tray /\ slot[g] = w
    BY <1>2, WatchersAssumption
  <2> QED
    BY <2>1, <1>3 DEF SlotsAreTrue
<1>6. NoStrayWatcher'
  <2> SUFFICES ASSUME NEW g \in Hosts, NEW w \in Watches, Lives(w, g)', ~watch'[w].told
               PROVE  slot'[g] = w /\ (g = Tray => watch'[w].with = settings')
    BY DEF NoStrayWatcher
  <2>1. g # Tray /\ watch'[w] = watch[w]
    BY <1>3 DEF Lives
  <2> QED
    BY <2>1, <1>2 DEF NoStrayWatcher, Lives
<1>7. WatchingIsBacked'
  <2> SUFFICES ASSUME NEW g \in Hosts, shown'[g]
               PROVE  \E w \in Watches : /\ slot'[g] = w /\ ~watch'[w].told
                                         /\ watch'[w].stage # "gone"
    BY DEF WatchingIsBacked
  <2>1. g # Tray /\ shown[g]
    BY <1>2
  <2>2. PICK w \in Watches : slot[g] = w /\ ~watch[w].told /\ watch[w].stage # "gone"
    BY <2>1 DEF WatchingIsBacked
  <2>3. watch[w].host # Tray
    BY <2>1, <2>2 DEF SlotsAreTrue
  <2> QED
    BY <2>1, <2>2, <2>3, <1>2, <1>3
<1> QED
  BY <1>2, <1>4, <1>5, <1>6, <1>7

\* The typing apart from the threads'.
OthersTyped ==
    /\ disk \in [version : FileVersions, auto : BOOLEAN, empty : BOOLEAN]
    /\ writer \in BOOLEAN
    /\ settings \in FileVersions /\ auto \in [Hosts -> BOOLEAN]
    /\ tick \in {"down", "read", "config", "resume"}
    /\ seen \in FileVersions /\ pending \in BOOLEAN
    /\ watchLock \in Watches \cup {Elsewhere, Vacant}

LEMMA WatchersTypeParts ==
  /\ WatchersTypeOK <=> OthersTyped /\ WatchingTyped
  /\ WatchersTypeOK' <=> OthersTyped' /\ WatchingTyped'
  BY DEF WatchersTypeOK, OthersTyped, WatchingTyped, WatchStates

LEMMA RoomForTwo ==
  ASSUME NEW v \in FileVersions, v + 2 \in FileVersions PROVE v + 1 \in FileVersions
  BY WatchersAssumption DEF FileVersions

\* Whatever leaves the threads and their slots alone leaves what is known of them.
LEMMA WatchingStays ==
  ASSUME WatchingTyped, ThreadsAreKnown, UNCHANGED Watching, settings' = settings
  PROVE  WatchingTyped' /\ ThreadsAreKnown'
  BY DEF Watching, WatchingTyped, ThreadsAreKnown, SlotsAreTrue, NoStrayWatcher, WatchingIsBacked,
         Lives

LEMMA WatchersStep == WatchInv /\ [WatchersNext]_watchersVars => WatchInv'
<1> SUFFICES ASSUME WatchInv, [WatchersNext]_watchersVars PROVE WatchInv'
  OBVIOUS
<1>a. OthersTyped /\ WatchingTyped /\ ThreadsAreKnown /\ SavesHaveRoom /\ DownHasNone
  BY WatchersTypeParts DEF WatchInv, ThreadsAreKnown
<1>b. Tray \in Hosts /\ Window \in Hosts /\ 0 \in FileVersions /\ Tray # Window
  BY WatchersAssumption DEF Hosts, FileVersions
<1> SUFFICES OthersTyped' /\ WatchingTyped' /\ ThreadsAreKnown' /\ SavesHaveRoom' /\ DownHasNone'
  BY WatchersTypeParts DEF WatchInv, ThreadsAreKnown
<1>1. CASE UNCHANGED watchersVars
  BY <1>1, <1>a, WatchingStays
     DEF watchersVars, OthersTyped, SavesHaveRoom, DownHasNone, Watching
<1>2. ASSUME NEW w \in Watches, WatchThread(w) \/ LeaveWatch(w)
      PROVE  OthersTyped' /\ WatchingTyped' /\ ThreadsAreKnown' /\ SavesHaveRoom' /\ DownHasNone'
  <2>1. WatchingTyped' /\ ThreadsAreKnown'
    <3>1. CASE TakeWatchLock(w)
      BY <3>1, <1>a, StageKeeps DEF TakeWatchLock, Chosen
    <3>2. CASE WatchRefused(w)
      BY <3>2, <1>a, StageKeeps DEF WatchRefused, Chosen
    <3>3. CASE LeaveWatch(w)
      BY <3>3, <1>a, StageKeeps DEF LeaveWatch, Chosen
    <3>4. CASE EndWatch(w)
      BY <3>4, <1>a, EndKeeps
    <3> QED
      BY <1>2, <3>1, <3>2, <3>3, <3>4 DEF WatchThread, WatchToldToStop
  <2>2. UNCHANGED <<File, Chosen, TrayState, slot>> /\ watchLock' \in {w, Vacant, watchLock}
    BY <1>2
       DEF WatchThread, WatchToldToStop, TakeWatchLock, WatchRefused, LeaveWatch, EndWatch
  <2> QED
    BY <2>1, <2>2, <1>a DEF File, Chosen, TrayState, OthersTyped, SavesHaveRoom, DownHasNone
<1>3. CASE WatchElsewhere
  BY <1>3, <1>a, WatchingStays
     DEF WatchElsewhere, File, Chosen, TrayState, Watching, OthersTyped, SavesHaveRoom, DownHasNone
<1>4. CASE OpenWindow
  <2>1. WatchingTyped' /\ ThreadsAreKnown'
    BY <1>4, <1>a, <1>b, StartKeeps DEF OpenWindow, Chosen
  <2>2. slot'[Tray] = slot[Tray]
    BY <1>4, <1>a, <1>b DEF OpenWindow, StartWatch, Watching, WatchingTyped
  <2> QED
    BY <1>4, <2>1, <2>2, <1>a
       DEF OpenWindow, File, Chosen, TrayState, OthersTyped, SavesHaveRoom, DownHasNone
<1>5. CASE SwitchOff
  <2>1. WatchingTyped' /\ ThreadsAreKnown'
    BY <1>5, <1>a, <1>b, StopKeeps DEF SwitchOff
  <2>2. slot'[Tray] = slot[Tray]
    BY <1>5, <1>a, <1>b DEF SwitchOff, StopWatch, WatchingTyped
  <2>3. OthersTyped' /\ SavesHaveRoom'
    <3>0. auto' \in [Hosts -> BOOLEAN]
      BY <1>5, <1>a DEF SwitchOff, OthersTyped
    <3>1. OthersTyped'
      BY <1>5, <3>0, <1>a DEF SwitchOff, TrayState, OthersTyped
    <3>2. disk.version \in FileVersions /\ disk.version + 2 \in FileVersions /\ disk' = disk
      BY <1>5, <1>a DEF SwitchOff, OthersTyped
    <3>3. SavesHaveRoom'
      BY <3>2, RoomForTwo DEF SavesHaveRoom
    <3> QED
      BY <3>1, <3>3
  <2> QED
    BY <1>5, <2>1, <2>2, <2>3, <1>a DEF SwitchOff, TrayState, DownHasNone
<1>6. CASE SwitchOn
  <2>1. WatchingTyped' /\ ThreadsAreKnown'
    BY <1>6, <1>a, <1>b, StartKeeps DEF SwitchOn
  <2>2. slot'[Tray] = slot[Tray]
    BY <1>6, <1>a, <1>b DEF SwitchOn, StartWatch, Watching, WatchingTyped
  <2>3. OthersTyped' /\ SavesHaveRoom'
    <3>0. auto' \in [Hosts -> BOOLEAN]
      BY <1>6, <1>a DEF SwitchOn, OthersTyped
    <3>1. OthersTyped'
      BY <1>6, <3>0, <1>a DEF SwitchOn, TrayState, OthersTyped
    <3>2. disk.version \in FileVersions /\ disk.version + 2 \in FileVersions /\ disk' = disk
      BY <1>6, <1>a DEF SwitchOn, OthersTyped
    <3>3. SavesHaveRoom'
      BY <3>2, RoomForTwo DEF SavesHaveRoom
    <3> QED
      BY <3>1, <3>3
  <2> QED
    BY <1>6, <2>1, <2>2, <2>3, <1>a DEF SwitchOn, TrayState, DownHasNone
<1>7. CASE EditSettings
  <2>1. WatchingTyped' /\ ThreadsAreKnown'
    BY <1>7, <1>a, WatchingStays DEF EditSettings
  <2>2. auto' \in [Hosts -> BOOLEAN]
    BY <1>7, <1>a DEF EditSettings, OthersTyped
  <2>3. OthersTyped' /\ SavesHaveRoom'
    <3>1. OthersTyped'
      BY <1>7, <2>2, <1>a DEF EditSettings, TrayState, OthersTyped
    <3>2. disk.version \in FileVersions /\ disk.version + 2 \in FileVersions /\ disk' = disk
      BY <1>7, <1>a DEF EditSettings, OthersTyped
    <3>3. SavesHaveRoom'
      BY <3>2, RoomForTwo DEF SavesHaveRoom
    <3> QED
      BY <3>1, <3>3
  <2> QED
    BY <1>7, <2>1, <2>3, <1>a DEF EditSettings, TrayState, Watching, DownHasNone
<1>8. CASE SaveOpens
  <2>1. WatchingTyped' /\ ThreadsAreKnown'
    BY <1>8, <1>a, WatchingStays DEF SaveOpens, Chosen
  <2>2. OthersTyped' /\ SavesHaveRoom'
    BY <1>8, <1>a, WatchersAssumption
       DEF SaveOpens, Chosen, TrayState, OthersTyped, SavesHaveRoom, FileVersions
  <2> QED
    BY <1>8, <2>1, <2>2, <1>a DEF SaveOpens, TrayState, Watching, DownHasNone
<1>9. CASE SaveWrites
  <2>1. WatchingTyped' /\ ThreadsAreKnown'
    BY <1>9, <1>a, WatchingStays DEF SaveWrites, Chosen
  <2>2. auto[Window] \in BOOLEAN
    BY <1>a, <1>b DEF OthersTyped
  <2>3. OthersTyped' /\ SavesHaveRoom'
    BY <1>9, <2>2, <1>a, WatchersAssumption
       DEF SaveWrites, Chosen, TrayState, OthersTyped, SavesHaveRoom, FileVersions
  <2> QED
    BY <1>9, <2>1, <2>3, <1>a DEF SaveWrites, TrayState, Watching, DownHasNone
<1>10. CASE TrayStarts
  <2>1. disk.version \in FileVersions /\ disk.auto \in BOOLEAN
    BY <1>a DEF OthersTyped
  <2>2. slot[Tray] = Vacant
    BY <1>10, <1>a DEF TrayStarts, DownHasNone
  <2>3. WatchingTyped' /\ ThreadsAreKnown'
    <3>1. CASE disk.auto
      BY <3>1, <1>10, <1>a, <1>b, <2>1, <2>2, StartKeeps DEF TrayStarts
    <3>2. CASE ~disk.auto
      <4>1. UNCHANGED <<slot, shown, watch>>
        BY <3>2, <1>10 DEF TrayStarts, Watching
      <4>2. \A w \in Watches : Lives(w, Tray) => watch[w].told
        BY <2>2, <1>a, <1>b, WatchersAssumption DEF ThreadsAreKnown, NoStrayWatcher
      <4>3. NoStrayWatcher'
        BY <4>1, <4>2, <1>a DEF ThreadsAreKnown, NoStrayWatcher, Lives
      <4> QED
        BY <4>1, <4>3, <1>a
           DEF WatchingTyped, ThreadsAreKnown, SlotsAreTrue, WatchingIsBacked
    <3> QED
      BY <3>1, <3>2
  <2>4. auto' \in [Hosts -> BOOLEAN]
    BY <1>10, <2>1, <1>a DEF TrayStarts, OthersTyped
  <2> QED
    BY <1>10, <2>1, <2>3, <2>4, <1>a
       DEF TrayStarts, File, OthersTyped, SavesHaveRoom, DownHasNone
<1>11. CASE TrayTicks
  <2>1. WatchingTyped' /\ ThreadsAreKnown'
    BY <1>11, <1>a, WatchingStays DEF TrayTicks, Chosen
  <2> QED
    BY <1>11, <2>1, <1>a DEF TrayTicks, File, Chosen, OthersTyped, SavesHaveRoom, DownHasNone
<1>12. CASE NothingChanged
  <2>1. WatchingTyped' /\ ThreadsAreKnown'
    BY <1>12, <1>a, WatchingStays DEF NothingChanged, Chosen
  <2> QED
    BY <1>12, <2>1, <1>a
       DEF NothingChanged, File, Chosen, OthersTyped, SavesHaveRoom, DownHasNone
<1>13. CASE AdoptConfig
  <2>1. disk.version \in FileVersions /\ disk.auto \in BOOLEAN
    BY <1>a DEF OthersTyped
  <2>2. WatchingTyped' /\ ThreadsAreKnown'
    BY <1>13, <1>a, <1>b, StopKeeps DEF AdoptConfig
  <2>3. auto' \in [Hosts -> BOOLEAN]
    BY <1>13, <2>1, <1>a DEF AdoptConfig, OthersTyped
  <2> QED
    BY <1>13, <2>1, <2>2, <2>3, <1>a
       DEF AdoptConfig, File, OthersTyped, SavesHaveRoom, DownHasNone
<1>14. CASE AdoptNothing
  <2>1. WatchingTyped' /\ ThreadsAreKnown'
    BY <1>14, <1>a, WatchingStays DEF AdoptNothing, Chosen
  <2> QED
    BY <1>14, <2>1, <1>a DEF AdoptNothing, File, Chosen, OthersTyped, SavesHaveRoom, DownHasNone
<1>15. CASE ResumeWatch
  <2>1. settings' = settings /\ settings \in FileVersions
    BY <1>15, <1>a DEF ResumeWatch, Chosen, OthersTyped
  <2>2. WatchingTyped' /\ ThreadsAreKnown'
    <3>1. CASE pending /\ watchLock = Vacant /\ auto[Tray]
      BY <3>1, <1>15, <1>a, <1>b, <2>1, StartKeeps DEF ResumeWatch
    <3>2. CASE ~(pending /\ watchLock = Vacant /\ auto[Tray])
      <4>1. UNCHANGED Watching
        BY <3>2, <1>15 DEF ResumeWatch
      <4> QED
        BY <4>1, <2>1, <1>a, WatchingStays
    <3> QED
      BY <3>1, <3>2
  <2>3. pending' \in BOOLEAN
    BY <1>15, <1>a DEF ResumeWatch, OthersTyped
  <2> QED
    BY <1>15, <2>2, <2>3, <1>a
       DEF ResumeWatch, File, Chosen, OthersTyped, SavesHaveRoom, DownHasNone
<1>16. CASE TrayQuits
  <2>1. WatchingTyped' /\ ThreadsAreKnown' /\ slot'[Tray] = Vacant
    BY <1>16, <1>a, QuitKeeps
  <2> QED
    BY <1>16, <2>1, <1>a, <1>b
       DEF TrayQuits, File, Chosen, OthersTyped, SavesHaveRoom, DownHasNone
<1> QED
  BY <1>1, <1>2, <1>3, <1>4, <1>5, <1>6, <1>7, <1>8, <1>9, <1>10, <1>11, <1>12, <1>13, <1>14,
     <1>15, <1>16 DEF WatchersNext, TrayTurn

\* The switch and the settings rule over the threads, for any number of threads and saves: a
\* watcher that nobody told to stop can be stopped and has the settings the tray adopted,
\* and none is shown that is not there.
THEOREM TheLatestSettingsWatch == WatchersSpec => []TheLatestWatches
<1>1. WatchInv => TheLatestWatches
  BY DEF WatchInv, TheLatestWatches
<1> QED
  BY <1>1, WatchersInitOk, WatchersStep, PTL DEF WatchersSpec

-----------------------------------------------------------------------------
(***************************************************************************)
(* The tray and its supervisor.                                             *)
(***************************************************************************)
\* The part of the typing the argument rests on.
SupervisionTyped ==
    /\ super \in [Supervisors -> SuperStages]
    /\ kid \in [Supervisors -> KidStages]

\* The supervisors that are up hold the tray lock, so there is one at most.
HoldersAreUp == \A s \in Supervisors : On(s) <=> trayLock = s

\* A child that is still on its way, or runs, under a living supervisor: it is being waited
\* for.
KidsAreMinded ==
    \A s \in Supervisors :
        kid[s] \in {"forked", "armed", "vetted", "loaded", "running"} =>
            \/ super[s] \in {"spawning", "publishing", "rechecking", "waiting"}
            \/ super[s] \in {"over", "gaveUp"} /\ kid[s] # "running"

TrayInv == SupervisionTyped /\ HoldersAreUp /\ KidsAreMinded

\* What the step of one supervisor, or of its child, must keep for all to keep the invariant.
LEMMA OneSupervisorSteps ==
  ASSUME TrayInv, NEW s \in Supervisors, NEW at \in SuperStages, NEW k \in KidStages,
         super' = [super EXCEPT ![s] = at], kid' = [kid EXCEPT ![s] = k],
         IF at \in {"new", "over", "gaveUp"}
         THEN trayLock' = IF trayLock = s THEN Nobody ELSE trayLock
         ELSE trayLock = s /\ trayLock' = s,
         k \in {"forked", "armed", "vetted", "loaded", "running"} =>
             \/ at \in {"spawning", "publishing", "rechecking", "waiting"}
             \/ at \in {"over", "gaveUp"} /\ k # "running"
  PROVE  TrayInv'
<1>1. /\ super'[s] = at /\ \A u \in Supervisors \ {s} : super'[u] = super[u]
      /\ kid'[s] = k /\ \A u \in Supervisors \ {s} : kid'[u] = kid[u]
  BY DEF TrayInv, SupervisionTyped
<1>2. SupervisionTyped'
  BY DEF TrayInv, SupervisionTyped
<1>3. HoldersAreUp'
  BY <1>1, TrayAssumption DEF TrayInv, HoldersAreUp, On
<1>4. KidsAreMinded'
  BY <1>1 DEF TrayInv, KidsAreMinded
<1> QED
  BY <1>2, <1>3, <1>4 DEF TrayInv

LEMMA TrayInitOk == TrayInit => TrayInv
  BY TrayAssumption
     DEF TrayInit, TrayInv, SupervisionTyped, HoldersAreUp, KidsAreMinded, On, SuperStages,
         KidStages

\* The start of a supervisor.
LEMMA LaunchKeeps ==
  ASSUME TrayInv, NEW s \in Supervisors, Launched(s), kid' = kid
  PROVE  TrayInv'
<1>1. /\ super[s] = "new" /\ trayLock = Nobody /\ trayLock' = s
      /\ super' = [super EXCEPT ![s] = "top"]
  BY DEF Launched, AtStage, To
<1>2. \A u \in Supervisors \ {s} : super'[u] = super[u]
  BY <1>1 DEF TrayInv, SupervisionTyped
<1>3. super'[s] = "top"
  BY <1>1 DEF TrayInv, SupervisionTyped
<1>4. SupervisionTyped'
  BY <1>1 DEF TrayInv, SupervisionTyped, SuperStages
<1>5. HoldersAreUp'
  BY <1>1, <1>2, <1>3, TrayAssumption DEF TrayInv, HoldersAreUp, On
<1>6. KidsAreMinded'
  BY <1>1, <1>2, <1>3 DEF TrayInv, KidsAreMinded
<1> QED
  BY <1>4, <1>5, <1>6 DEF TrayInv

\* The end of a supervisor, with its child gone, or still before its first look.
LEMMA FinishKeeps ==
  ASSUME TrayInv, NEW s \in Supervisors, On(s), NEW why \in {"over", "gaveUp"}, Finish(s, why),
         NEW k \in KidStages \ {"running"}, kid' = [kid EXCEPT ![s] = k]
  PROVE  TrayInv'
<1>1. trayLock = s
  BY DEF TrayInv, HoldersAreUp
<1>2. super' = [super EXCEPT ![s] = why] /\ trayLock' = Nobody
  BY DEF Finish, To
<1> QED
  BY <1>1, <1>2, OneSupervisorSteps DEF SuperStages

\* A step of a supervisor on its way.
LEMMA SupervisorKeeps ==
  ASSUME TrayInv, NEW s \in Supervisors, On(s),
         NEW at \in SuperStages \ {"new", "over", "gaveUp"}, To(s, at),
         NEW k \in KidStages, kid' = [kid EXCEPT ![s] = k], trayLock' = trayLock,
         k \in {"forked", "armed", "vetted", "loaded", "running"} =>
             at \in {"spawning", "publishing", "rechecking", "waiting"}
  PROVE  TrayInv'
<1>1. trayLock = s
  BY DEF TrayInv, HoldersAreUp
<1> QED
  BY <1>1, OneSupervisorSteps DEF To

\* A step of the child alone.
LEMMA KidKeeps ==
  ASSUME TrayInv, NEW s \in Supervisors, NEW k \in KidStages, kid' = [kid EXCEPT ![s] = k],
         UNCHANGED <<super, trayLock>>,
         kid[s] \in {"forked", "armed", "vetted", "loaded", "running"},
         k = "running" => On(s)
  PROVE  TrayInv'
<1>1. super' = [super EXCEPT ![s] = super[s]]
  BY DEF TrayInv, SupervisionTyped
<1>2. super[s] \in SuperStages
  BY DEF TrayInv, SupervisionTyped
<1>3. \/ super[s] \in {"spawning", "publishing", "rechecking", "waiting"} /\ trayLock = s
      \/ super[s] \in {"over", "gaveUp"} /\ trayLock # s /\ k # "running"
  BY DEF TrayInv, KidsAreMinded, HoldersAreUp, On
<1> QED
  BY <1>1, <1>2, <1>3, OneSupervisorSteps

LEMMA SuperviseKeeps ==
  ASSUME TrayInv, NEW s \in Supervisors, SuperviseStep(s)
  PROVE  TrayInv'
<1>a. /\ super[s] \in SuperStages /\ kid[s] \in KidStages
      /\ kid = [kid EXCEPT ![s] = kid[s]]
  BY DEF TrayInv, SupervisionTyped
<1>b. /\ kid[s] \in {"forked", "armed", "vetted", "loaded", "running"} =>
            \/ super[s] \in {"spawning", "publishing", "rechecking", "waiting"}
            \/ super[s] \in {"over", "gaveUp"} /\ kid[s] # "running"
  BY DEF TrayInv, KidsAreMinded
<1>1. CASE LoopTop(s)
  <2>1. On(s) /\ super[s] = "top"
    BY <1>1 DEF LoopTop, AtStage, On
  <2>2. CASE told[s] \/ ~desktop
    <3>1. Finish(s, "over") /\ kid' = kid
      BY <2>2, <1>1 DEF LoopTop
    <3> QED
      BY <2>1, <3>1, <1>a, <1>b, FinishKeeps
  <2>3. CASE ~(told[s] \/ ~desktop)
    <3>1. /\ \/ To(s, "spawning") /\ kid' = [kid EXCEPT ![s] = "forked"]
             \/ To(s, "deciding") /\ kid' = [kid EXCEPT ![s] = "crashed"]
          /\ trayLock' = trayLock
      BY <2>3, <1>1 DEF LoopTop, Becoming
    <3> QED
      BY <2>1, <3>1, SupervisorKeeps DEF SuperStages, KidStages
  <2> QED
    BY <2>2, <2>3
<1>2. CASE Spawned(s)
  <2>1. On(s) /\ To(s, "publishing") /\ kid' = kid /\ trayLock' = trayLock
    BY <1>2 DEF Spawned, AtStage, On
  <2> QED
    BY <2>1, <1>a, SupervisorKeeps DEF SuperStages
<1>3. CASE PublishPid(s)
  <2>1. On(s) /\ To(s, "rechecking") /\ kid' = kid /\ trayLock' = trayLock
    BY <1>3 DEF PublishPid, AtStage, On
  <2> QED
    BY <2>1, <1>a, SupervisorKeeps DEF SuperStages
<1>4. CASE RecheckStop(s)
  <2>1. On(s) /\ To(s, "waiting") /\ trayLock' = trayLock
    BY <1>4 DEF RecheckStop, AtStage, On
  <2>2. kid' = [kid EXCEPT ![s] = Terminated(kid[s])] \/ kid' = [kid EXCEPT ![s] = kid[s]]
    BY <1>4, <1>a DEF RecheckStop, Becoming
  <2>3. Terminated(kid[s]) \in KidStages
    BY <1>a DEF Terminated, KidStages
  <2> QED
    BY <2>1, <2>2, <2>3, <1>a, SupervisorKeeps DEF SuperStages
<1>5. CASE Wait(s)
  <2>1. /\ On(s) /\ To(s, "returned") /\ kid' = kid /\ trayLock' = trayLock
        /\ kid[s] \in {"quit", "crashed"}
    BY <1>5 DEF Wait, AtStage, On
  <2> QED
    BY <2>1, <1>a, SupervisorKeeps DEF SuperStages
<1>6. CASE Returned(s)
  <2>1. On(s) /\ super[s] = "returned"
    BY <1>6 DEF Returned, AtStage, On
  <2>2. CASE told[s]
    <3>1. Finish(s, "over") /\ kid' = [kid EXCEPT ![s] = "none"]
      BY <2>2, <1>6 DEF Returned, Becoming
    <3> QED
      BY <2>1, <3>1, FinishKeeps DEF KidStages
  <2>3. CASE ~told[s]
    <3>1. To(s, "deciding") /\ kid' = kid /\ trayLock' = trayLock
      BY <2>3, <1>6 DEF Returned
    <3> QED
      BY <2>1, <3>1, <1>a, <1>b, SupervisorKeeps DEF SuperStages
  <2> QED
    BY <2>2, <2>3
<1>7. CASE DecideRestart(s)
  <2>1. On(s) /\ kid' = [kid EXCEPT ![s] = "none"]
    BY <1>7 DEF DecideRestart, AtStage, On, Becoming
  <2>2. \/ \E why \in {"over", "gaveUp"} : Finish(s, why)
        \/ To(s, "pausing") /\ trayLock' = trayLock
    BY <1>7 DEF DecideRestart
  <2> QED
    BY <2>1, <2>2, FinishKeeps, SupervisorKeeps DEF SuperStages, KidStages
<1>8. CASE Pause(s)
  <2>1. On(s) /\ super[s] = "pausing" /\ kid' = kid
    BY <1>8 DEF Pause, AtStage, On
  <2>2. kid[s] \in KidStages \ {"forked", "armed", "vetted", "loaded", "running"}
    BY <2>1, <1>a, <1>b
  <2>3. CASE Finish(s, "over")
    BY <2>1, <2>2, <2>3, <1>a, FinishKeeps
  <2>4. CASE To(s, "top") /\ trayLock' = trayLock
    BY <2>1, <2>2, <2>4, <1>a, SupervisorKeeps DEF SuperStages
  <2> QED
    BY <2>3, <2>4, <1>8 DEF Pause
<1> QED
  BY <1>1, <1>2, <1>3, <1>4, <1>5, <1>6, <1>7, <1>8 DEF SuperviseStep

LEMMA TrayStep == TrayInv /\ [TrayNext]_trayVars => TrayInv'
<1> SUFFICES ASSUME TrayInv, [TrayNext]_trayVars PROVE TrayInv'
  OBVIOUS
<1>0. ASSUME UNCHANGED <<super, kid, trayLock>> PROVE TrayInv'
  BY <1>0 DEF TrayInv, SupervisionTyped, HoldersAreUp, KidsAreMinded, On
<1>1. CASE UNCHANGED trayVars
  BY <1>0, <1>1 DEF trayVars
<1>2. ASSUME NEW s \in Supervisors, LaunchTray(s) PROVE TrayInv'
  BY <1>2, LaunchKeeps DEF LaunchTray
<1>3. ASSUME NEW s \in Supervisors, SuperviseStep(s) PROVE TrayInv'
  BY <1>3, SuperviseKeeps
<1>4. ASSUME NEW s \in Supervisors, KidStep(s) PROVE TrayInv'
  <2>1. /\ UNCHANGED <<super, trayLock>>
        /\ kid[s] \in {"forked", "armed", "vetted", "loaded", "running"}
    BY <1>4 DEF KidStep, Arm, Vet, Exec, CheckParent
  <2>2. PICK k \in KidStages : kid' = [kid EXCEPT ![s] = k] /\ (k = "running" => On(s))
    BY <1>4 DEF KidStep, Arm, Vet, Exec, CheckParent, Becoming, Fostered, KidStages
  <2> QED
    BY <2>1, <2>2, KidKeeps
<1>5. ASSUME NEW s \in Supervisors, TrayEnds(s) PROVE TrayInv'
  <2>1. UNCHANGED <<super, trayLock>> /\ kid[s] = "running"
    BY <1>5 DEF TrayEnds
  <2>2. PICK k \in {"quit", "crashed"} : kid' = [kid EXCEPT ![s] = k]
    BY <1>5 DEF TrayEnds, Becoming
  <2> QED
    BY <2>1, <2>2, KidKeeps DEF KidStages
<1>6. ASSUME NEW s \in Supervisors, AskToStop(s) PROVE TrayInv'
  <2>1. UNCHANGED <<super, trayLock>>
    BY <1>6 DEF AskToStop
  <2>2. CASE kid' = kid
    BY <2>1, <2>2, <1>0
  <2>3. CASE kid' # kid
    <3>1. kid' = [kid EXCEPT ![s] = Terminated(kid[s])]
      BY <2>3, <1>6 DEF AskToStop, Becoming
    <3>2. kid[s] \in {"loaded", "running"}
      BY <2>3, <3>1 DEF Terminated, TrayInv, SupervisionTyped
    <3> QED
      BY <2>1, <3>1, <3>2, KidKeeps DEF Terminated, KidStages
  <2> QED
    BY <2>2, <2>3
<1>7. ASSUME NEW s \in Supervisors, KillSupervisor(s) PROVE TrayInv'
  <2> DEFINE k == IF kid[s] \in {"forked", "armed", "vetted"} THEN kid[s] ELSE "none"
  <2>1. On(s) /\ Finish(s, "over") /\ kid' = [kid EXCEPT ![s] = k]
    BY <1>7 DEF KillSupervisor, Becoming
  <2>2. k \in KidStages \ {"running"}
    BY DEF KidStages
  <2> QED
    BY <2>1, <2>2, FinishKeeps
<1>8. CASE LogOut \/ TrayTick
  BY <1>0, <1>8 DEF LogOut, TrayTick
<1>9. CASE PollDaemon
  <2>1. kid' = kid
    BY <1>9 DEF PollDaemon
  <2>2. NoSupervisor \/ \E s \in Supervisors : Launched(s)
    BY <1>9 DEF PollDaemon, SeeAlive, Respawn, WaitOn, Retry
  <2> QED
    BY <2>1, <2>2, <1>0, LaunchKeeps DEF NoSupervisor
<1> QED
  BY <1>1, <1>2, <1>3, <1>4, <1>5, <1>6, <1>7, <1>8, <1>9 DEF TrayNext

\* No tray runs without a supervisor, and never two do, for any number of supervisors,
\* whichever are killed and whenever: the one that runs has its parent hold the tray lock.
THEOREM NoTrayIsAnOrphan == TraySpec => []TrayHasSupervisor
<1>1. TrayInv => TrayHasSupervisor
  BY DEF TrayInv, KidsAreMinded, HoldersAreUp, TrayHasSupervisor, On
<1> QED
  BY <1>1, TrayInitOk, TrayStep, PTL DEF TraySpec
-----------------------------------------------------------------------------
(***************************************************************************)
(* How often the tray is started again.                                     *)
(***************************************************************************)
LEMMA HasLeast ==
  ASSUME NEW T \in SUBSET Nat, T # {}
  PROVE  \E m \in T : \A i \in T : m <= i
<1> DEFINE Less == {ss \in Nat \X Nat : ss[1] < ss[2]}
<1>1. IsWellFoundedOn(Less, Nat)
  BY NatLessThanWellFounded DEF OpToRel
<1>2. PICK m \in T : \A y \in T : <<y, m>> \notin Less
  <2> HIDE DEF Less
  <2> QED
    BY <1>1, WFMin
<1>3. \A i \in T : ~(i < m)
  BY <1>2
<1> QED
  BY <1>3

TraySettings ==
  /\ MaxRestarts \in Nat /\ RestartWindow \in Nat /\ MaxSpawns \in Nat /\ MaxTime \in Nat

LEMMA TraySettingsOk == TraySettings
  BY TrayAssumption DEF TraySettings

\* What was written down in a log came one after the other, and is past.
Chronicle(log, now) ==
    /\ \A i, j \in 1..Len(log) : i <= j => log[i] <= log[j]
    /\ \A i \in 1..Len(log) : log[i] <= now

\* Of such a log the last window's restarts are its end.
LEMMA LatelyIsTheEnd ==
  ASSUME NEW log \in Seq(0..MaxTime), time \in 0..MaxTime, Chronicle(log, time)
  PROVE  \E e \in 0..Len(log) :
             /\ Lately(log) = [k \in 1..(Len(log) - e) |-> log[k + e]]
             /\ \A i \in 1..e : time - log[i] >= RestartWindow
             /\ \A i \in (e + 1)..Len(log) : time - log[i] < RestartWindow
<1> DEFINE L == Len(log)
           young == {i \in DOMAIN log : time - log[i] < RestartWindow}
           Nth(k) == CHOOSE i \in young : Cardinality({j \in young : j <= i}) = k
<1>1. /\ L \in Nat /\ DOMAIN log = 1..L /\ \A i \in 1..L : log[i] \in 0..MaxTime
      /\ \A i, j \in 1..L : i <= j => log[i] <= log[j]
      /\ MaxTime \in Nat /\ RestartWindow \in Nat
  BY TraySettingsOk DEF Chronicle, TraySettings
<1>2. Lately(log) = [k \in 1..Cardinality(young) |-> log[Nth(k)]]
  BY DEF Lately
<1>3. PICK e \in 0..L : young = (e + 1)..L
  <2>1. CASE young = {}
    <3>1. young = (L + 1)..L
      BY <1>1, <2>1
    <3>2. L \in 0..L
      BY <1>1
    <3> HIDE DEF young
    <3> QED BY <3>1, <3>2
  <2>2. CASE young # {}
    <3>1. young \in SUBSET Nat
      BY <1>1
    <3>2. PICK m \in young : \A i \in young : m <= i
      <4> HIDE DEF young
      <4> QED BY <2>2, <3>1, HasLeast
    <3>3. m \in 1..L
      BY <1>1
    <3>4. \A i \in m..L : i \in young
      <4> TAKE i \in m..L
      <4>1. i \in 1..L /\ log[m] <= log[i] /\ log[m] \in 0..MaxTime /\ log[i] \in 0..MaxTime
        BY <1>1, <3>3
      <4>2. time - log[m] < RestartWindow
        BY <3>2
      <4>3. time - log[i] < RestartWindow
        BY <1>1, <4>1, <4>2
      <4> QED BY <1>1, <4>1, <4>3
    <3>5. \A i \in young : i \in m..L
      BY <1>1, <3>2, <3>3
    <3>6. young = m..L
      <4> HIDE DEF young
      <4> QED BY <3>4, <3>5
    <3>7. (m - 1) + 1 = m /\ m - 1 \in 0..L
      BY <1>1, <3>3
    <3> HIDE DEF young
    <3> QED BY <3>6, <3>7
  <2> QED BY <2>1, <2>2
<1>4. \A i \in 1..e : time - log[i] >= RestartWindow
  <2> TAKE i \in 1..e
  <2>1. i \in 1..L
    BY <1>1
  <2>2. i \notin young
    <3> HIDE DEF young
    <3> QED BY <1>1, <1>3
  <2>3. ~(time - log[i] < RestartWindow)
    BY <1>1, <2>1, <2>2
  <2> QED BY <1>1, <2>1, <2>3
<1>5. \A i \in (e + 1)..L : time - log[i] < RestartWindow
  BY <1>3
<1>6. Cardinality(young) = L - e
  <2>1. e + 1 \in Int /\ L \in Int
    BY <1>1
  <2>2. Cardinality((e + 1)..L) = IF e + 1 > L THEN 0 ELSE L - (e + 1) + 1
    BY <2>1, FS_Interval
  <2> HIDE DEF young
  <2> QED BY <1>1, <1>3, <2>2
<1>7. ASSUME NEW k \in 1..(L - e) PROVE Nth(k) = k + e
  <2> HIDE DEF young
  <2>1. ASSUME NEW i \in young PROVE Cardinality({j \in young : j <= i}) = i - e
    <3>1. i \in (e + 1)..L /\ e \in 0..L
      BY <1>3
    <3>2. {j \in young : j <= i} = (e + 1)..i
      <4>1. \A j \in young : j <= i => j \in (e + 1)..i
        BY <1>1, <1>3, <3>1
      <4>2. \A j \in (e + 1)..i : j \in young /\ j <= i
        BY <1>1, <1>3, <3>1
      <4> QED BY <4>1, <4>2
    <3>3. Cardinality((e + 1)..i) = IF e + 1 > i THEN 0 ELSE i - (e + 1) + 1
      <4>1. e + 1 \in Int /\ i \in Int
        BY <1>1, <3>1
      <4> QED BY <4>1, FS_Interval
    <3>4. (IF e + 1 > i THEN 0 ELSE i - (e + 1) + 1) = i - e
      BY <1>1, <3>1
    <3> QED BY <3>2, <3>3, <3>4
  <2>2. k + e \in young /\ \A i \in young : i - e = k => i = k + e
    BY <1>1, <1>3
  <2>3. Cardinality({j \in young : j <= k + e}) = k
    <3>1. (k + e) - e = k
      BY <1>1
    <3> QED BY <2>1, <2>2, <3>1
  <2>4. \A i \in young : Cardinality({j \in young : j <= i}) = k => i = k + e
    BY <2>1, <2>2
  <2> QED BY <2>2, <2>3, <2>4
<1>8. Lately(log) = [k \in 1..(L - e) |-> log[k + e]]
  <2> HIDE DEF young, Nth
  <2> QED BY <1>2, <1>6, <1>7
<1> QED BY <1>4, <1>5, <1>8

Capped(all) ==
    \A i \in 1..Len(all) : i + MaxRestarts <= Len(all) => ~Within1(all, i, i + MaxRestarts)

\* What the supervisor's log has left out of all its restarts is older than the window.
LogFits(log, all, now) ==
    /\ all \in Seq(0..MaxTime)
    /\ Chronicle(all, now)
    /\ \E d \in 0..Len(all) : /\ log = [k \in 1..(Len(all) - d) |-> all[k + d]]
                              /\ \A i \in 1..d : now - all[i] >= RestartWindow
    /\ Capped(all)

LEMMA LogTyped ==
  ASSUME NEW S, NEW all \in Seq(S)
  PROVE  Len(all) \in Nat /\ DOMAIN all = 1..Len(all) /\ \A i \in 1..Len(all) : all[i] \in S
OBVIOUS

\* A part of a log, from some place on.
LEMMA EndOfALog ==
  ASSUME NEW S, NEW all \in Seq(S), NEW d \in 0..Len(all)
  PROVE  /\ [k \in 1..(Len(all) - d) |-> all[k + d]] \in Seq(S)
         /\ Len([k \in 1..(Len(all) - d) |-> all[k + d]]) = Len(all) - d
<1> DEFINE n == Len(all) - d
           end == [k \in 1..n |-> all[k + d]]
<1>1. n \in Nat /\ \A k \in 1..n : all[k + d] \in S
  OBVIOUS
<1>2. end \in [1..n -> S]
  BY <1>1
<1>3. end \in Seq(S) /\ Len(end) = n
  <2> HIDE DEF n, end
  <2>1. DOMAIN end = 1..n
    BY <1>2
  <2> QED BY <1>1, <1>2, <2>1
<1> QED BY <1>3

\* So what of the log the last window keeps, it would keep of all the restarts.
LEMMA LatelyOfAll ==
  ASSUME NEW log, NEW all, time \in 0..MaxTime, LogFits(log, all, time)
  PROVE  \E d \in 0..Len(all) :
             /\ Lately(log) = [k \in 1..(Len(all) - d) |-> all[k + d]]
             /\ Len(Lately(log)) = Len(all) - d
             /\ \A i \in 1..d : time - all[i] >= RestartWindow
             /\ \A i \in (d + 1)..Len(all) : time - all[i] < RestartWindow
<1>1. all \in Seq(0..MaxTime) /\ Chronicle(all, time)
  BY DEF LogFits
<1>2. PICK c \in 0..Len(all) :
          /\ log = [k \in 1..(Len(all) - c) |-> all[k + c]]
          /\ \A i \in 1..c : time - all[i] >= RestartWindow
  BY DEF LogFits
<1>3. log \in Seq(0..MaxTime) /\ Len(log) = Len(all) - c
  BY <1>1, <1>2, EndOfALog
<1>4. Chronicle(log, time)
  <2>1. \A i \in 1..Len(log) : log[i] = all[i + c] /\ i + c \in 1..Len(all) /\ i \in Nat
    BY <1>2, <1>3
  <2>2. \A i \in 1..Len(log) : log[i] <= time
    BY <1>1, <2>1 DEF Chronicle
  <2>3. \A i, j \in 1..Len(log) : i <= j => i + c <= j + c
    BY <2>1
  <2>4. \A i, j \in 1..Len(log) : i <= j => log[i] <= log[j]
    BY <1>1, <2>1, <2>3 DEF Chronicle
  <2> QED BY <2>2, <2>4 DEF Chronicle
<1>5. PICK e \in 0..Len(log) :
          /\ Lately(log) = [k \in 1..(Len(log) - e) |-> log[k + e]]
          /\ \A i \in 1..e : time - log[i] >= RestartWindow
          /\ \A i \in (e + 1)..Len(log) : time - log[i] < RestartWindow
  BY <1>3, <1>4, LatelyIsTheEnd
<1> DEFINE d == c + e
<1>6. d \in 0..Len(all) /\ Len(log) - e = Len(all) - d /\ Len(all) \in Nat
  BY <1>1, <1>3
<1>7. Lately(log) = [k \in 1..(Len(all) - d) |-> all[k + d]]
  <2>1. \A k \in 1..(Len(log) - e) : log[k + e] = all[k + d]
    <3> TAKE k \in 1..(Len(log) - e)
    <3>1. k + e \in 1..(Len(all) - c)
      BY <1>3, <1>6
    <3>2. (k + e) + c = k + d
      OBVIOUS
    <3> QED BY <1>2, <3>1, <3>2
  <2> HIDE DEF d
  <2> QED BY <1>5, <1>6, <2>1
<1>8. Len(Lately(log)) = Len(all) - d
  <2> HIDE DEF d
  <2> QED BY <1>1, <1>6, <1>7, EndOfALog
<1>9. \A i \in 1..d : time - all[i] >= RestartWindow
  <2> TAKE i \in 1..d
  <2>1. CASE i <= c
    BY <1>2, <2>1
  <2>2. CASE i > c
    <3>1. i - c \in 1..e /\ (i - c) \in 1..(Len(all) - c) /\ (i - c) + c = i
      BY <1>3, <2>2
    <3>2. log[i - c] = all[i]
      BY <1>2, <3>1
    <3> QED BY <1>5, <3>1, <3>2
  <2> QED BY <2>1, <2>2
<1>10. \A i \in (d + 1)..Len(all) : time - all[i] < RestartWindow
  <2> TAKE i \in (d + 1)..Len(all)
  <2>1. i - c \in (e + 1)..Len(log) /\ (i - c) \in 1..(Len(all) - c) /\ (i - c) + c = i
    BY <1>3, <1>6
  <2>2. log[i - c] = all[i]
    BY <1>2, <2>1
  <2> QED BY <1>5, <2>1, <2>2
<1> HIDE DEF d
<1> QED BY <1>6, <1>7, <1>8, <1>9, <1>10

LEMMA LogBegins ==
  ASSUME NEW now \in 0..MaxTime PROVE LogFits(<<>>, <<>>, now)
<1>1. <<>> = [k \in 1..(0 - 0) |-> <<>>[k + 0]] /\ Len(<<>>) = 0 /\ 0 \in 0..0
  OBVIOUS
<1>2. \E d \in 0..Len(<<>>) : /\ <<>> = [k \in 1..(Len(<<>>) - d) |-> <<>>[k + d]]
                              /\ \A i \in 1..d : now - <<>>[i] >= RestartWindow
  <2>1. \A i \in 1..0 : now - <<>>[i] >= RestartWindow
    OBVIOUS
  <2> QED BY <1>1, <2>1
<1> QED BY <1>1, <1>2 DEF LogFits, Chronicle, Capped

LEMMA LogAges ==
  ASSUME NEW log, NEW all, NEW now \in 0..MaxTime, NEW later \in 0..MaxTime, now <= later,
         LogFits(log, all, now)
  PROVE  LogFits(log, all, later)
<1>1. all \in Seq(0..MaxTime) /\ Chronicle(all, now) /\ Capped(all)
  BY DEF LogFits
<1>2. \A i \in 1..Len(all) : all[i] \in 0..MaxTime
  BY <1>1, LogTyped
<1>3. Chronicle(all, later)
  BY <1>1, <1>2, TraySettingsOk DEF Chronicle, TraySettings
<1>4. PICK d \in 0..Len(all) :
          /\ log = [k \in 1..(Len(all) - d) |-> all[k + d]]
          /\ \A i \in 1..d : now - all[i] >= RestartWindow
  BY DEF LogFits
<1>5. \A i \in 1..d : later - all[i] >= RestartWindow
  <2> TAKE i \in 1..d
  <2>1. now - all[i] >= RestartWindow /\ all[i] \in 0..MaxTime
    BY <1>1, <1>2, <1>4
  <2> QED BY <2>1, TraySettingsOk DEF TraySettings
<1> QED BY <1>1, <1>3, <1>4, <1>5 DEF LogFits

\* One more restart, with fewer than the cap in the last window.
LEMMA LogGrows ==
  ASSUME NEW log, NEW all, time \in 0..MaxTime, LogFits(log, all, time),
         ~CapReached(Len(Lately(log)))
  PROVE  LogFits(Append(Lately(log), time), Append(all, time), time)
<1> DEFINE L == Len(all)
           more == Append(all, time)
<1>1. all \in Seq(0..MaxTime) /\ Chronicle(all, time) /\ Capped(all)
  BY DEF LogFits
<1>2. PICK d \in 0..L :
          /\ Lately(log) = [k \in 1..(L - d) |-> all[k + d]]
          /\ Len(Lately(log)) = L - d
          /\ \A i \in 1..d : time - all[i] >= RestartWindow
  BY LatelyOfAll
<1>3. /\ more \in Seq(0..MaxTime) /\ Len(more) = L + 1 /\ more[L + 1] = time
      /\ L \in Nat /\ \A i \in 1..L : more[i] = all[i] /\ all[i] \in 0..MaxTime
  <2>1. time \in 0..MaxTime
    OBVIOUS
  <2>2. L \in Nat /\ \A i \in 1..L : all[i] \in 0..MaxTime
    BY <1>1, LogTyped
  <2>3. /\ more \in Seq(0..MaxTime) /\ Len(more) = L + 1 /\ more[L + 1] = time
        /\ \A i \in 1..L : more[i] = all[i]
    <3>1. all \in Seq(0..MaxTime)
      BY <1>1
    <3> QED BY <2>1, <3>1, AppendProperties
  <2> HIDE DEF more, L
  <2> QED BY <2>2, <2>3
<1>4. Chronicle(more, time)
  <2>1. \A i \in 1..L : more[i] <= time
    <3>1. \A i \in 1..L : all[i] <= time
      BY <1>1 DEF Chronicle
    <3>2. \A i \in 1..L : more[i] = all[i]
      BY <1>3
    <3> HIDE DEF more, L
    <3> QED BY <3>1, <3>2
  <2>2. \A i \in 1..(L + 1) : more[i] <= time
    <3> HIDE DEF more
    <3> QED BY <1>3, <2>1
  <2>3. ASSUME NEW i \in 1..(L + 1), NEW j \in 1..(L + 1), i <= j PROVE more[i] <= more[j]
    <3>1. CASE j = L + 1
      <4> HIDE DEF more
      <4> QED BY <1>3, <2>2, <3>1
    <3>2. CASE j # L + 1
      <4>1. i \in 1..L /\ j \in 1..L
        BY <1>3, <2>3, <3>2
      <4> QED BY <1>1, <1>3, <2>3, <4>1 DEF Chronicle
    <3> QED BY <3>1, <3>2
  <2> HIDE DEF more
  <2> QED BY <1>3, <2>2, <2>3 DEF Chronicle
<1>5. Append(Lately(log), time) = [k \in 1..(Len(more) - d) |-> more[k + d]]
  <2> DEFINE lately == Lately(log)
             grown == Append(lately, time)
  <2>1. lately \in Seq(0..MaxTime) /\ Len(lately) = L - d
    BY <1>1, <1>2, EndOfALog
  <2>2. \A k \in 1..(L - d) : lately[k] = all[k + d] /\ k + d \in 1..L
    BY <1>2, <1>3
  <2> HIDE DEF lately, more
  <2>3. /\ grown \in Seq(0..MaxTime) /\ Len(grown) = L - d + 1 /\ grown[L - d + 1] = time
        /\ \A k \in 1..(L - d) : grown[k] = lately[k]
    <3>1. time \in 0..MaxTime
      OBVIOUS
    <3> QED BY <2>1, <3>1, AppendProperties
  <2> HIDE DEF grown
  <2>4. \A k \in 1..(L - d + 1) : grown[k] = more[k + d]
    <3> TAKE k \in 1..(L - d + 1)
    <3>1. CASE k = L - d + 1
      <4>1. k + d = L + 1
        BY <1>3, <3>1
      <4> QED BY <1>3, <2>3, <3>1, <4>1
    <3>2. CASE k # L - d + 1
      <4>1. k \in 1..(L - d)
        BY <1>3, <3>2
      <4> QED BY <1>3, <2>2, <2>3, <4>1
    <3> QED BY <3>1, <3>2
  <2>5. Len(more) - d = L - d + 1
    BY <1>3
  <2>6. grown = [k \in 1..(L - d + 1) |-> grown[k]]
    BY <2>3
  <2>7. grown = [k \in 1..(Len(more) - d) |-> more[k + d]]
    BY <2>4, <2>5, <2>6
  <2> QED BY <2>7 DEF lately, grown
<1>6. \A i \in 1..d : time - more[i] >= RestartWindow
  <2> HIDE DEF more
  <2> QED BY <1>2, <1>3
<1>7. Capped(more)
  <2> HIDE DEF more
  <2>1. L - d < MaxRestarts /\ MaxRestarts \in Nat /\ RestartWindow \in Nat
    BY <1>2, <1>3, TraySettingsOk DEF CapReached, TraySettings
  <2>2. ASSUME NEW i \in 1..(L + 1), i + MaxRestarts <= L + 1
        PROVE  ~(more[i + MaxRestarts] - more[i] < RestartWindow)
    <3>1. CASE i + MaxRestarts = L + 1
      <4>1. i \in 1..d /\ i \in 1..L
        BY <1>3, <2>1, <2>2, <3>1
      <4>2. more[i + MaxRestarts] = time /\ more[i] \in 0..MaxTime /\ time - more[i] >= RestartWindow
        BY <1>3, <1>6, <3>1, <4>1
      <4> QED BY <2>1, <4>2
    <3>2. CASE i + MaxRestarts # L + 1
      <4>1. i \in 1..L /\ i + MaxRestarts \in 1..L
        <5>1. L \in Nat /\ MaxRestarts \in Nat /\ i \in 1..(L + 1) /\ i + MaxRestarts <= L + 1
          BY <1>3, <2>1, <2>2
        <5> QED BY <3>2, <5>1
      <4>2. ~(all[i + MaxRestarts] - all[i] < RestartWindow)
        BY <1>1, <4>1 DEF Capped, Within1
      <4> QED BY <1>3, <4>1, <4>2
    <3> QED BY <3>1, <3>2
  <2> QED BY <1>3, <2>2 DEF Capped, Within1
<1>8. d \in 0..Len(more)
  <2> HIDE DEF more
  <2> QED BY <1>3
<1> HIDE DEF more
<1>9. more \in Seq(0..MaxTime)
  BY <1>3
<1>10. LogFits(Append(Lately(log), time), more, time)
  BY <1>4, <1>5, <1>6, <1>7, <1>8, <1>9 DEF LogFits
<1> QED BY <1>10 DEF more

\* The cap is reached by restarts of the last window only.
LEMMA CapMeansALoop ==
  ASSUME NEW log, NEW all, time \in 0..MaxTime, LogFits(log, all, time),
         CapReached(Len(Lately(log)))
  PROVE  Cardinality({i \in DOMAIN all : time - all[i] < RestartWindow}) >= MaxRestarts
<1> DEFINE L == Len(all)
           young == {i \in DOMAIN all : time - all[i] < RestartWindow}
<1>1. /\ L \in Nat /\ DOMAIN all = 1..L /\ \A i \in 1..L : all[i] \in 0..MaxTime
      /\ RestartWindow \in Nat /\ MaxTime \in Nat /\ MaxRestarts \in Nat
  BY TraySettingsOk DEF LogFits, TraySettings
<1>2. PICK d \in 0..L :
          /\ Len(Lately(log)) = L - d
          /\ \A i \in 1..d : time - all[i] >= RestartWindow
          /\ \A i \in (d + 1)..L : time - all[i] < RestartWindow
  BY LatelyOfAll
<1>3. young = (d + 1)..L
  <2>1. \A i \in (d + 1)..L : i \in young
    BY <1>1, <1>2
  <2>2. ASSUME NEW i \in young PROVE i \in (d + 1)..L
    <3>1. i \in 1..L /\ time - all[i] < RestartWindow /\ all[i] \in 0..MaxTime
      BY <1>1
    <3>2. i \notin 1..d
      BY <1>1, <1>2, <3>1
    <3> QED BY <1>1, <3>1, <3>2
  <2> HIDE DEF young
  <2> QED BY <2>1, <2>2
<1>4. Cardinality((d + 1)..L) = IF d + 1 > L THEN 0 ELSE L - (d + 1) + 1
  <2>1. d + 1 \in Int /\ L \in Int
    BY <1>1
  <2> QED BY <2>1, FS_Interval
<1>5. L - d >= MaxRestarts
  BY <1>2 DEF CapReached
<1>6. (IF d + 1 > L THEN 0 ELSE L - (d + 1) + 1) >= MaxRestarts
  BY <1>1, <1>5
<1>7. Cardinality(young) >= MaxRestarts
  <2> HIDE DEF young
  <2> QED BY <1>3, <1>4, <1>6
<1> QED BY <1>7

\* What can happen to the logs of a supervisor: it ends, or it writes down a restart.
Emptied(s) ==
    /\ restarts' = [restarts EXCEPT ![s] = <<>>] /\ restarted' = [restarted EXCEPT ![s] = <<>>]
    /\ time' = time
WrittenDown(s) ==
    /\ ~CapReached(Len(Lately(restarts[s])))
    /\ restarts' = [restarts EXCEPT ![s] = Append(Lately(restarts[s]), time)]
    /\ restarted' = [restarted EXCEPT ![s] = Append(restarted[s], time)]
    /\ time' = time
LogsStand ==
    /\ UNCHANGED Logs
    /\ time' = time \/ (time < MaxTime /\ time' = time + 1)

\* It is given up only by the decision that finds the cap reached.
GivesUpAtTheCap ==
    \A s \in Supervisors :
        super'[s] = "gaveUp" => super[s] = "gaveUp" \/ CapReached(Len(Lately(restarts[s])))

LEMMA DecidesWell ==
  ASSUME TrayInv, NEW s \in Supervisors, DecideRestart(s)
  PROVE  (Emptied(s) \/ WrittenDown(s)) /\ GivesUpAtTheCap
<1>1. super \in [Supervisors -> SuperStages] /\ UNCHANGED time
  BY DEF TrayInv, SupervisionTyped, DecideRestart, Desktop
<1>2. \/ Finish(s, "over")
      \/ CapReached(Len(Lately(restarts[s]))) /\ Finish(s, "gaveUp")
      \/ /\ WrittenDown(s) /\ To(s, "pausing")
  BY <1>1 DEF DecideRestart, WrittenDown
<1>3. CASE \E why \in {"over", "gaveUp"} :
             Finish(s, why) /\ (why = "gaveUp" => CapReached(Len(Lately(restarts[s]))))
  <2>1. Emptied(s)
    BY <1>1, <1>3 DEF Emptied, Finish
  <2>2. GivesUpAtTheCap
    BY <1>1, <1>3 DEF Finish, To, GivesUpAtTheCap
  <2> QED BY <2>1, <2>2
<1>4. CASE WrittenDown(s) /\ To(s, "pausing")
  <2>1. GivesUpAtTheCap
    BY <1>1, <1>4 DEF To, GivesUpAtTheCap
  <2> QED BY <1>4, <2>1
<1> QED BY <1>2, <1>3, <1>4

\* A step of a supervisor that is no decision.
LEMMA MovesOn ==
  ASSUME TrayInv, NEW s \in Supervisors, UNCHANGED time,
         NEW at \in SuperStages \ {"gaveUp"}, To(s, at), UNCHANGED Logs \/ Emptied(s)
  PROVE  (LogsStand \/ Emptied(s)) /\ GivesUpAtTheCap
<1>1. super \in [Supervisors -> SuperStages]
  BY DEF TrayInv, SupervisionTyped
<1>2. GivesUpAtTheCap
  BY <1>1 DEF To, GivesUpAtTheCap
<1> QED BY <1>2 DEF LogsStand

LEMMA FinishMovesOn ==
  ASSUME TrayInv, NEW s \in Supervisors, UNCHANGED time, Finish(s, "over")
  PROVE  (LogsStand \/ Emptied(s)) /\ GivesUpAtTheCap
<1>1. To(s, "over") /\ Emptied(s) /\ "over" \in SuperStages \ {"gaveUp"}
  BY DEF Finish, Emptied, SuperStages
<1> QED BY <1>1, MovesOn

LEMMA LogSteps ==
  ASSUME TrayInv, [TrayNext]_trayVars
  PROVE  /\ LogsStand \/ \E s \in Supervisors : Emptied(s) \/ WrittenDown(s)
         /\ GivesUpAtTheCap
<1> DEFINE Goal == /\ LogsStand \/ \E s \in Supervisors : Emptied(s) \/ WrittenDown(s)
                   /\ GivesUpAtTheCap
<1>0. ASSUME UNCHANGED Logs, super' = super,
             time' = time \/ (time < MaxTime /\ time' = time + 1)
      PROVE  Goal
  BY <1>0 DEF LogsStand, GivesUpAtTheCap
<1>a. ASSUME NEW s \in Supervisors, (LogsStand \/ Emptied(s)) /\ GivesUpAtTheCap PROVE Goal
  BY <1>a
<1>1. ASSUME UNCHANGED trayVars PROVE Goal
  BY <1>0, <1>1 DEF trayVars, Logs
<1>2. ASSUME NEW s \in Supervisors, Launched(s), UNCHANGED time, UNCHANGED Logs PROVE Goal
  <2>1. To(s, "top")
    BY <1>2 DEF Launched
  <2> HIDE DEF Goal
  <2> QED BY <1>2, <1>a, <2>1, MovesOn DEF SuperStages
<1>3. ASSUME NEW s \in Supervisors, SuperviseStep(s) PROVE Goal
  <2>0. UNCHANGED time
    BY <1>3 DEF SuperviseStep, LoopTop, Spawned, PublishPid, RecheckStop, Wait, Returned,
                DecideRestart, Pause, Desktop
  <2>1. CASE LoopTop(s)
    <3>1. \/ Finish(s, "over")
          \/ (To(s, "spawning") \/ To(s, "deciding")) /\ UNCHANGED Logs
      BY <2>1 DEF LoopTop, Process
    <3> HIDE DEF Goal
    <3> QED BY <2>0, <3>1, <1>a, MovesOn, FinishMovesOn DEF SuperStages
  <2>2. CASE Spawned(s) \/ PublishPid(s) \/ RecheckStop(s) \/ Wait(s)
    <3>1. /\ UNCHANGED Logs
          /\ \E at \in {"publishing", "rechecking", "waiting", "returned"} : To(s, at)
      BY <2>2 DEF Spawned, PublishPid, RecheckStop, Wait, Process
    <3> HIDE DEF Goal
    <3> QED BY <2>0, <3>1, <1>a, MovesOn DEF SuperStages
  <2>3. CASE Returned(s) \/ Pause(s)
    <3>1. \/ Finish(s, "over")
          \/ (To(s, "deciding") \/ To(s, "top")) /\ UNCHANGED Logs
      BY <2>3 DEF Returned, Pause, Process
    <3> HIDE DEF Goal
    <3> QED BY <2>0, <3>1, <1>a, MovesOn, FinishMovesOn DEF SuperStages
  <2>4. CASE DecideRestart(s)
    BY <2>4, DecidesWell
  <2> QED BY <1>3, <2>1, <2>2, <2>3, <2>4 DEF SuperviseStep
<1>4. ASSUME NEW s \in Supervisors, KidStep(s) \/ TrayEnds(s) \/ AskToStop(s) PROVE Goal
  <2>1. UNCHANGED Logs /\ super' = super /\ UNCHANGED time
    BY <1>4 DEF KidStep, Arm, Vet, Exec, CheckParent, TrayEnds, AskToStop, Process, Desktop
  <2> QED BY <2>1, <1>0
<1>5. ASSUME NEW s \in Supervisors, KillSupervisor(s) PROVE Goal
  <2>1. Finish(s, "over") /\ UNCHANGED time
    BY <1>5 DEF KillSupervisor, Desktop
  <2> HIDE DEF Goal
  <2> QED BY <2>1, <1>a, FinishMovesOn
<1>6. ASSUME LogOut \/ TrayTick PROVE Goal
  <2>1. /\ UNCHANGED Logs /\ super' = super
        /\ time' = time \/ (time < MaxTime /\ time' = time + 1)
    BY <1>6 DEF LogOut, TrayTick
  <2> QED BY <2>1, <1>0
<1>7. ASSUME PollDaemon PROVE Goal
  <2>1. UNCHANGED Logs /\ UNCHANGED time
    BY <1>7 DEF PollDaemon, Process
  <2>2. NoSupervisor \/ \E s \in Supervisors : Launched(s)
    BY <1>7 DEF PollDaemon, SeeAlive, Respawn, WaitOn, Retry
  <2>3. ASSUME NoSupervisor PROVE Goal
    BY <2>1, <2>3, <1>0 DEF NoSupervisor
  <2>4. ASSUME NEW s \in Supervisors, Launched(s) PROVE Goal
    <3> HIDE DEF Goal
    <3> QED BY <2>1, <2>4, <1>2
  <2> HIDE DEF Goal
  <2> QED BY <2>2, <2>3, <2>4
<1>8. ASSUME NEW s \in Supervisors, LaunchTray(s) PROVE Goal
  <2>1. Launched(s) /\ UNCHANGED Logs /\ UNCHANGED time
    BY <1>8 DEF LaunchTray, Process, Desktop
  <2> HIDE DEF Goal
  <2> QED BY <2>1, <1>2
<1>9. \/ UNCHANGED trayVars
      \/ \E s \in Supervisors : \/ LaunchTray(s) \/ SuperviseStep(s) \/ KidStep(s) \/ TrayEnds(s)
                                \/ AskToStop(s) \/ KillSupervisor(s)
      \/ LogOut \/ TrayTick \/ PollDaemon
  BY DEF TrayNext
<1>10. Goal
  <2> HIDE DEF Goal
  <2> QED BY <1>1, <1>3, <1>4, <1>5, <1>6, <1>7, <1>8, <1>9
<1> QED BY <1>10

\* The logs of every supervisor, and the window's count of its own starts.
LogsKept ==
    /\ time \in 0..MaxTime
    /\ restarts = [s \in Supervisors |-> restarts[s]]
    /\ restarted = [s \in Supervisors |-> restarted[s]]
    /\ \A s \in Supervisors : LogFits(restarts[s], restarted[s], time)

StartsCounted ==
    /\ window \in [attempts : 0..MaxSpawns, since : Waits]
    /\ tries = window.attempts

LEMMA LogsKeepFitting ==
  ASSUME TrayInv, LogsKept, [TrayNext]_trayVars
  PROVE  LogsKept'
<1>0. time \in 0..MaxTime /\ \A s \in Supervisors : LogFits(restarts[s], restarted[s], time)
  BY DEF LogsKept
<1>1. CASE LogsStand
  <2>1. time' \in 0..MaxTime /\ time <= time'
    BY <1>0, <1>1, TraySettingsOk DEF LogsStand, TraySettings
  <2>2. \A s \in Supervisors : LogFits(restarts[s], restarted[s], time')
    BY <1>0, <2>1, LogAges
  <2>3. restarts' = restarts /\ restarted' = restarted
    BY <1>1 DEF LogsStand, Logs
  <2> QED BY <2>1, <2>2, <2>3 DEF LogsKept
<1>2. ASSUME NEW s \in Supervisors, Emptied(s) PROVE LogsKept'
  <2>1. LogFits(<<>>, <<>>, time)
    BY <1>0, LogBegins
  <2>2/\ restarts' = [u \in Supervisors |-> restarts'[u]]
        /\ restarted' = [u \in Supervisors |-> restarted'[u]] /\ time' = time
        /\ \A u \in Supervisors : /\ restarts'[u] = IF u = s THEN <<>> ELSE restarts[u]
                                  /\ restarted'[u] = IF u = s THEN <<>> ELSE restarted[u]
    BY <1>2 DEF Emptied, LogsKept
  <2>3. \A u \in Supervisors : LogFits(restarts'[u], restarted'[u], time)
    BY <1>0, <2>1, <2>2
  <2> QED BY <1>0, <2>2, <2>3 DEF LogsKept
<1>3. ASSUME NEW s \in Supervisors, WrittenDown(s) PROVE LogsKept'
  <2> DEFINE log == Append(Lately(restarts[s]), time)
             all == Append(restarted[s], time)
  <2>1. LogFits(log, all, time)
    BY <1>0, <1>3, LogGrows DEF WrittenDown
  <2>2. /\ restarts' = [restarts EXCEPT ![s] = log]
        /\ restarted' = [restarted EXCEPT ![s] = all] /\ time' = time
    BY <1>3 DEF WrittenDown
  <2> HIDE DEF log, all
  <2>3/\ restarts' = [u \in Supervisors |-> restarts'[u]]
        /\ restarted' = [u \in Supervisors |-> restarted'[u]]
        /\ \A u \in Supervisors : /\ restarts'[u] = IF u = s THEN log ELSE restarts[u]
                                  /\ restarted'[u] = IF u = s THEN all ELSE restarted[u]
    BY <2>2 DEF LogsKept
  <2>4. \A u \in Supervisors : LogFits(restarts'[u], restarted'[u], time)
    BY <1>0, <2>1, <2>3
  <2> QED BY <1>0, <2>2, <2>3, <2>4 DEF LogsKept
<1> QED BY <1>1, <1>2, <1>3, LogSteps

LEMMA StartsStayCounted ==
  ASSUME StartsCounted, [TrayNext]_trayVars
  PROVE  StartsCounted'
<1>0. /\ MaxSpawns \in Nat /\ window.attempts \in 0..MaxSpawns /\ window.since \in Waits
      /\ window = [attempts |-> window.attempts, since |-> window.since]
  BY TraySettingsOk DEF StartsCounted, TraySettings
<1>1. CASE PollDaemon
  <2>1. \/ window' = [window EXCEPT !.attempts = 0] /\ tries' = 0
        \/ /\ window.attempts < MaxSpawns
           /\ window' = [attempts |-> window.attempts + 1, since |-> "starting"]
           /\ tries' = tries + 1
        \/ /\ UNCHANGED tries
           /\ \E since \in {"soon", "due"} : window' = [window EXCEPT !.since = since]
        \/ window' = [attempts |-> 0, since |-> "never"] /\ tries' = 0
    BY <1>1 DEF PollDaemon, SeeAlive, Respawn, WaitOn, Retry, TriesLeft
  <2>2. \E n \in 0..MaxSpawns, since \in Waits :
            window' = [attempts |-> n, since |-> since] /\ tries' = n
    <3>1. [window EXCEPT !.attempts = 0] = [attempts |-> 0, since |-> window.since]
      BY <1>0
    <3>2. \A since \in {"soon", "due"} :
              [window EXCEPT !.since = since] = [attempts |-> window.attempts, since |-> since]
      BY <1>0
    <3>3. {"never", "starting", "soon", "due"} = Waits
      BY DEF Waits
    <3>4. tries = window.attempts
      BY DEF StartsCounted
    <3>5. CASE window' = [window EXCEPT !.attempts = 0] /\ tries' = 0
      BY <1>0, <3>1, <3>5
    <3>6. CASE /\ window.attempts < MaxSpawns
               /\ window' = [attempts |-> window.attempts + 1, since |-> "starting"]
               /\ tries' = tries + 1
      <4>1. window.attempts + 1 \in 0..MaxSpawns
        BY <1>0, <3>6
      <4> QED BY <3>3, <3>4, <3>6, <4>1
    <3>7. CASE /\ UNCHANGED tries
               /\ \E since \in {"soon", "due"} : window' = [window EXCEPT !.since = since]
      BY <1>0, <3>2, <3>3, <3>4, <3>7
    <3>8. CASE window' = [attempts |-> 0, since |-> "never"] /\ tries' = 0
      BY <1>0, <3>3, <3>8
    <3> QED BY <2>1, <3>5, <3>6, <3>7, <3>8
  <2> QED BY <2>2 DEF StartsCounted
<1>2. CASE ~PollDaemon
  <2>1. UNCHANGED <<window, tries>>
    BY <1>2 DEF TrayNext, trayVars, LaunchTray, SuperviseStep, LoopTop, Spawned, PublishPid,
                RecheckStop, Wait, Returned, DecideRestart, Pause, KidStep, Arm, Vet, Exec,
                CheckParent, TrayEnds, AskToStop, KillSupervisor, LogOut, TrayTick, Desktop
  <2> QED BY <2>1 DEF StartsCounted
<1> QED BY <1>1, <1>2

LEMMA LogsBegin == TrayInit => LogsKept /\ StartsCounted
<1> SUFFICES ASSUME TrayInit PROVE LogsKept /\ StartsCounted
  OBVIOUS
<1>1. time \in 0..MaxTime
  BY TraySettingsOk DEF TrayInit, TraySettings
<1>2. LogsKept
  BY <1>1, LogBegins DEF TrayInit, LogsKept
<1>3. StartsCounted
  BY TraySettingsOk DEF TrayInit, StartsCounted, TraySettings, Waits
<1> QED BY <1>2, <1>3

\* The tray is started again neither too often nor too seldom, for any cap, any window and
\* any times: never more restarts in a window than the cap, given up only with that many in
\* it, and no more starts by the open window than it allows itself.
THEOREM RestartsArePaced == TrayInit /\ [][TrayNext]_trayVars => RestartPolicy
<1> DEFINE Kept == TrayInv /\ LogsKept /\ StartsCounted
           Gives == \A s \in Supervisors : super'[s] = "gaveUp" /\ super[s] # "gaveUp" =>
                        Cardinality({i \in DOMAIN restarted[s] :
                                         time - restarted[s][i] < RestartWindow})
                            >= MaxRestarts
<1>1. TrayInit => Kept
  BY TrayInitOk, LogsBegin
<1>2. Kept /\ [TrayNext]_trayVars => Kept'
  BY TrayStep, LogsKeepFitting, StartsStayCounted
<1>3. Kept => RestartsAreCapped /\ WindowStopsTrying
  <2>1. LogsKept => RestartsAreCapped
    BY DEF LogsKept, LogFits, Capped, RestartsAreCapped
  <2>2. StartsCounted => WindowStopsTrying
    BY TraySettingsOk DEF StartsCounted, WindowStopsTrying, TraySettings
  <2> QED BY <2>1, <2>2
<1>4. Kept /\ [TrayNext]_trayVars => Gives
  <2> SUFFICES ASSUME Kept, [TrayNext]_trayVars, NEW s \in Supervisors,
                      super'[s] = "gaveUp" /\ super[s] # "gaveUp"
               PROVE  Cardinality({i \in DOMAIN restarted[s] :
                                       time - restarted[s][i] < RestartWindow}) >= MaxRestarts
    OBVIOUS
  <2>1. CapReached(Len(Lately(restarts[s])))
    BY LogSteps DEF GivesUpAtTheCap
  <2> QED BY <2>1, CapMeansALoop DEF LogsKept
<1>5. [Gives]_trayVars <=>
        [\A s \in Supervisors : super'[s] = "gaveUp" /\ super[s] # "gaveUp" =>
           Cardinality({i \in DOMAIN restarted[s] : time - restarted[s][i] < RestartWindow})
               >= MaxRestarts]_trayVars
  OBVIOUS
<1> QED
  BY <1>1, <1>2, <1>3, <1>4, PTL DEF RestartPolicy, GivesUpOnlyInALoop

\* The rest of the tray's typing.
SignalsTyped ==
    /\ told \in [Supervisors -> BOOLEAN] /\ forwards \in [Supervisors -> BOOLEAN]
    /\ trayLock \in Supervisors \cup {Nobody}
    /\ desktop \in BOOLEAN

LEMMA SignalsStayTyped ==
  ASSUME SignalsTyped, [TrayNext]_trayVars
  PROVE  SignalsTyped'
<1>0. TRUE \in BOOLEAN /\ FALSE \in BOOLEAN
  OBVIOUS
<1>1. ASSUME UNCHANGED <<told, forwards, trayLock, desktop>> PROVE SignalsTyped'
  BY <1>1 DEF SignalsTyped
<1>2. ASSUME NEW s \in Supervisors, Finish(s, "over") \/ Finish(s, "gaveUp"), UNCHANGED desktop
      PROVE  SignalsTyped'
  BY <1>0, <1>2 DEF SignalsTyped, Finish
<1>3. ASSUME NEW s \in Supervisors, Launched(s), UNCHANGED <<told, forwards, desktop>>
      PROVE  SignalsTyped'
  BY <1>3 DEF SignalsTyped, Launched
<1>4. ASSUME NEW s \in Supervisors, NEW yes \in BOOLEAN,
             \/ told' = [told EXCEPT ![s] = yes] /\ UNCHANGED forwards
             \/ forwards' = [forwards EXCEPT ![s] = yes] /\ UNCHANGED told,
             UNCHANGED <<trayLock, desktop>>
      PROVE  SignalsTyped'
  BY <1>4 DEF SignalsTyped
<1>5. ASSUME NEW s \in Supervisors, SuperviseStep(s) PROVE SignalsTyped'
  <2>0. UNCHANGED desktop
    BY <1>5 DEF SuperviseStep, LoopTop, Spawned, PublishPid, RecheckStop, Wait, Returned,
                DecideRestart, Pause, Desktop
  <2>1. \/ Finish(s, "over") \/ Finish(s, "gaveUp")
        \/ UNCHANGED <<told, forwards, trayLock>>
        \/ /\ \/ forwards' = [forwards EXCEPT ![s] = TRUE]
              \/ forwards' = [forwards EXCEPT ![s] = FALSE]
           /\ UNCHANGED <<told, trayLock>>
    BY <1>5 DEF SuperviseStep, LoopTop, Spawned, PublishPid, RecheckStop, Wait, Returned,
                DecideRestart, Pause, Process
  <2> QED BY <2>0, <2>1, <1>0, <1>1, <1>2, <1>4
<1>6. ASSUME NEW s \in Supervisors, LaunchTray(s) PROVE SignalsTyped'
  <2>1. Launched(s) /\ UNCHANGED <<told, forwards, desktop>>
    BY <1>6 DEF LaunchTray, Process, Desktop
  <2> QED BY <2>1, <1>3
<1>7. ASSUME NEW s \in Supervisors, KidStep(s) \/ TrayEnds(s) PROVE SignalsTyped'
  <2>1. UNCHANGED <<told, forwards, trayLock, desktop>>
    BY <1>7 DEF KidStep, Arm, Vet, Exec, CheckParent, TrayEnds, Process, Desktop
  <2> QED BY <2>1, <1>1
<1>8. ASSUME NEW s \in Supervisors, AskToStop(s) PROVE SignalsTyped'
  <2>1. told' = [told EXCEPT ![s] = TRUE] /\ UNCHANGED <<forwards, trayLock, desktop>>
    BY <1>8 DEF AskToStop, Desktop
  <2> QED BY <2>1, <1>0, <1>4
<1>9. ASSUME NEW s \in Supervisors, KillSupervisor(s) PROVE SignalsTyped'
  <2>1. Finish(s, "over") /\ UNCHANGED desktop
    BY <1>9 DEF KillSupervisor, Desktop
  <2> QED BY <2>1, <1>2
<1>10. ASSUME LogOut \/ TrayTick PROVE SignalsTyped'
  <2>1. UNCHANGED <<told, forwards, trayLock>> /\ (desktop' = FALSE \/ UNCHANGED desktop)
    BY <1>10 DEF LogOut, TrayTick
  <2> QED BY <2>1, <1>0, <1>1 DEF SignalsTyped
<1>11. ASSUME PollDaemon PROVE SignalsTyped'
  <2>1. UNCHANGED <<told, forwards, desktop>>
    BY <1>11 DEF PollDaemon, Process
  <2>2. NoSupervisor \/ \E s \in Supervisors : Launched(s)
    BY <1>11 DEF PollDaemon, SeeAlive, Respawn, WaitOn, Retry
  <2> QED BY <2>1, <2>2, <1>1, <1>3 DEF NoSupervisor
<1>12. ASSUME UNCHANGED trayVars PROVE SignalsTyped'
  BY <1>12, <1>1 DEF trayVars
<1> QED
  BY <1>5, <1>6, <1>7, <1>8, <1>9, <1>10, <1>11, <1>12 DEF TrayNext

THEOREM TrayTypeCorrect == TrayInit /\ [][TrayNext]_trayVars => []TrayTypeOK
<1> DEFINE Kept == TrayInv /\ LogsKept /\ StartsCounted /\ SignalsTyped
<1>1. TrayInit => Kept
  <2>1. TrayInit => SignalsTyped
    BY DEF TrayInit, SignalsTyped
  <2> QED BY <2>1, TrayInitOk, LogsBegin
<1>2. Kept /\ [TrayNext]_trayVars => Kept'
  BY TrayStep, LogsKeepFitting, StartsStayCounted, SignalsStayTyped
<1>3. Kept => TrayTypeOK
  <2> SUFFICES ASSUME Kept PROVE TrayTypeOK
    OBVIOUS
  <2>1. \A s \in Supervisors : /\ restarts[s] \in Seq(0..MaxTime)
                               /\ restarted[s] \in Seq(0..MaxTime)
    <3> TAKE s \in Supervisors
    <3>1. LogFits(restarts[s], restarted[s], time)
      BY DEF LogsKept
    <3>2. restarted[s] \in Seq(0..MaxTime)
      BY <3>1 DEF LogFits
    <3>3. restarts[s] \in Seq(0..MaxTime)
      <4>1. PICK d \in 0..Len(restarted[s]) :
                restarts[s] = [k \in 1..(Len(restarted[s]) - d) |-> restarted[s][k + d]]
        BY <3>1 DEF LogFits
      <4> QED BY <3>2, <4>1, EndOfALog
    <3> QED BY <3>2, <3>3
  <2>2. /\ restarts \in [Supervisors -> Seq(0..MaxTime)]
        /\ restarted \in [Supervisors -> Seq(0..MaxTime)]
    BY <2>1 DEF LogsKept
  <2>3. tries \in 0..(MaxSpawns + 1) /\ time \in 0..MaxTime
    BY TraySettingsOk DEF StartsCounted, LogsKept, TraySettings
  <2> QED BY <2>2, <2>3 DEF TrayInv, SupervisionTyped, SignalsTyped, StartsCounted, TrayTypeOK
<1> QED
  BY <1>1, <1>2, <1>3, PTL

-----------------------------------------------------------------------------
(***************************************************************************)
(* The transfers held to a bandwidth.                                       *)
(***************************************************************************)
\* The transfers that have a slot on the virtual timeline: they asked under a limit.
Slotted(t) == transfer[t].stage # "new" /\ transfer[t].span > 0
Ends(t) == transfer[t].at + transfer[t].span

\* No two slots overlap, the next departure is behind them all, and a transfer departs no
\* earlier than its slot begins.
SlotsApart ==
    /\ \A t \in Transfers : Slotted(t) => Ends(t) <= nextDeparture
    /\ \A s, t \in Transfers :
          s # t /\ Slotted(s) /\ Slotted(t) =>
              Ends(s) <= transfer[t].at \/ Ends(t) <= transfer[s].at
    /\ \A t \in Transfers : transfer[t].stage = "gone" => transfer[t].at <= clock

PacingInv == PacingTypeOK /\ SlotsApart

TransferType == [stage : TransferStages, at : Nat, span : Spans]

LEMMA PacingSettings ==
  /\ 0 \in Spans /\ Spans \subseteq Nat /\ LastTick \in Nat /\ IsFiniteSet(Transfers)
BY PacingAssumption

LEMMA PacingBegins == PacingInit => PacingInv
BY PacingSettings
   DEF PacingInit, PacingInv, PacingTypeOK, SlotsApart, Slotted, TransferStages

\* A transfer that takes a step of its own, and the rest of them.
LEMMA OneTransferMoves ==
  ASSUME PacingTypeOK, NEW t \in Transfers, NEW r \in TransferType,
         transfer' = [transfer EXCEPT ![t] = r]
  PROVE  /\ transfer' \in [Transfers -> TransferType] /\ transfer'[t] = r
         /\ \A s \in Transfers \ {t} : transfer'[s] = transfer[s]
BY DEF PacingTypeOK, TransferType

LEMMA TransferIs ==
  ASSUME PacingTypeOK, NEW t \in Transfers
  PROVE  /\ transfer[t] \in TransferType
         /\ transfer[t].stage \in TransferStages /\ transfer[t].at \in Nat
         /\ transfer[t].span \in Spans /\ transfer[t].span \in Nat
BY PacingSettings DEF PacingTypeOK, TransferType

LEMMA PacingStep == PacingInv /\ [PacingNext]_pacingVars => PacingInv'
<1> SUFFICES ASSUME PacingInv, [PacingNext]_pacingVars PROVE PacingInv'
  OBVIOUS
<1>0. /\ PacingTypeOK /\ SlotsApart /\ clock \in 0..LastTick /\ LastTick \in Nat
      /\ nextDeparture \in Nat
  BY PacingSettings DEF PacingInv, PacingTypeOK
<1>1. CASE UNCHANGED pacingVars
  BY <1>1 DEF PacingInv, PacingTypeOK, SlotsApart, Slotted, Ends, pacingVars
<1>2. CASE ClockTicks
  <2>1. clock' \in 0..LastTick /\ clock <= clock' /\ UNCHANGED <<nextDeparture, transfer>>
    BY <1>0, <1>2 DEF ClockTicks
  <2>2. PacingTypeOK'
    BY <1>0, <2>1 DEF PacingTypeOK
  <2>3. \A t \in Transfers : transfer[t].stage = "gone" => transfer[t].at <= clock'
    BY <1>0, <2>1, TransferIs DEF SlotsApart
  <2>4. SlotsApart'
    BY <1>0, <2>1, <2>3 DEF SlotsApart, Slotted, Ends
  <2> QED BY <2>2, <2>4 DEF PacingInv
<1>3. ASSUME NEW t \in Transfers, Depart(t) PROVE PacingInv'
  <2> DEFINE r == [stage |-> "gone", at |-> transfer[t].at, span |-> transfer[t].span]
  <2>1. r \in TransferType
    BY <1>0, TransferIs DEF TransferType, TransferStages
  <2>2. /\ transfer' = [transfer EXCEPT ![t] = [transfer[t] EXCEPT !.stage = "gone"]]
        /\ UNCHANGED <<clock, nextDeparture>> /\ transfer[t].at <= clock
        /\ transfer[t].stage = "waiting"
    BY <1>3 DEF Depart
  <2>3. [transfer[t] EXCEPT !.stage = "gone"] = r
    BY <1>0, TransferIs DEF TransferType
  <2>4. r.stage = "gone" /\ r.at = transfer[t].at /\ r.span = transfer[t].span
    OBVIOUS
  <2> HIDE DEF r
  <2>5. /\ transfer' \in [Transfers -> TransferType] /\ transfer'[t] = r
        /\ \A s \in Transfers \ {t} : transfer'[s] = transfer[s]
    BY <1>0, <2>1, <2>2, <2>3, OneTransferMoves
  <2>6. PacingTypeOK'
    BY <1>0, <2>2, <2>5 DEF PacingTypeOK, TransferType
  <2>7. \A s \in Transfers : /\ transfer'[s].at = transfer[s].at
                             /\ transfer'[s].span = transfer[s].span
                             /\ Slotted(s)' => Slotted(s)
    BY <2>2, <2>4, <2>5 DEF Slotted
  <2>8. \A s \in Transfers : transfer'[s].stage = "gone" => transfer'[s].at <= clock
    BY <1>0, <2>2, <2>4, <2>5 DEF SlotsApart
  <2>9. SlotsApart'
    BY <1>0, <2>2, <2>7, <2>8 DEF SlotsApart, Ends
  <2> QED BY <2>6, <2>9 DEF PacingInv
<1>4. ASSUME NEW t \in Transfers, NEW n \in Spans, Acquire(t, n) PROVE PacingInv'
  <2>0. n \in Nat /\ UNCHANGED clock /\ transfer[t].stage = "new" /\ clock \in Nat
    BY <1>0, <1>4, PacingSettings DEF Acquire
  <2>1. CASE n = 0
    <3> DEFINE r == [stage |-> "gone", at |-> clock, span |-> 0]
    <3>1. r \in TransferType
      BY <2>0, PacingSettings DEF TransferType, TransferStages
    <3>2. transfer' = [transfer EXCEPT ![t] = r] /\ UNCHANGED nextDeparture
      BY <1>4, <2>1 DEF Acquire
    <3>3. r.stage = "gone" /\ r.at = clock /\ r.span = 0
      OBVIOUS
    <3> HIDE DEF r
    <3>4. /\ transfer' \in [Transfers -> TransferType] /\ transfer'[t] = r
          /\ \A s \in Transfers \ {t} : transfer'[s] = transfer[s]
      BY <1>0, <3>1, <3>2, OneTransferMoves
    <3>5. PacingTypeOK'
      BY <1>0, <2>0, <3>2, <3>4 DEF PacingTypeOK, TransferType
    <3>6. \A s \in Transfers : Slotted(s)' => Slotted(s) /\ transfer'[s] = transfer[s]
      BY <3>3, <3>4 DEF Slotted
    <3>7. \A s \in Transfers : transfer'[s].stage = "gone" => transfer'[s].at <= clock
      BY <1>0, <2>0, <3>3, <3>4 DEF SlotsApart
    <3>8. SlotsApart'
      BY <1>0, <2>0, <3>2, <3>6, <3>7 DEF SlotsApart, Ends
    <3> QED BY <3>5, <3>8 DEF PacingInv
  <2>2. CASE n # 0
    <3> DEFINE r == [stage |-> "waiting", at |-> Slot, span |-> n]
    <3>0. Slot \in Nat /\ nextDeparture <= Slot
      BY <1>0, <2>0 DEF Slot
    <3>1. r \in TransferType
      BY <3>0 DEF TransferType, TransferStages
    <3>2. transfer' = [transfer EXCEPT ![t] = r] /\ nextDeparture' = Slot + n
      BY <1>4, <2>2 DEF Acquire
    <3>3. r.stage = "waiting" /\ r.at = Slot /\ r.span = n
      OBVIOUS
    <3> HIDE DEF r
    <3>4. /\ transfer' \in [Transfers -> TransferType] /\ transfer'[t] = r
          /\ \A s \in Transfers \ {t} : transfer'[s] = transfer[s]
      BY <1>0, <3>1, <3>2, OneTransferMoves
    <3>5. PacingTypeOK'
      BY <1>0, <2>0, <3>0, <3>2, <3>4 DEF PacingTypeOK, TransferType
    <3>6. \A s \in Transfers \ {t} : Slotted(s)' =>
              Slotted(s) /\ transfer'[s] = transfer[s] /\ Ends(s) <= Slot /\ Ends(s) \in Nat
      BY <1>0, <3>0, <3>4, TransferIs DEF Slotted, SlotsApart, Ends
    <3>7. \A s \in Transfers : transfer'[s].stage = "gone" => transfer'[s].at <= clock
      BY <1>0, <3>3, <3>4 DEF SlotsApart
    <3>8. \A s \in Transfers : Slotted(s)' => Ends(s)' <= nextDeparture'
      BY <2>0, <3>0, <3>2, <3>3, <3>4, <3>6 DEF Ends
    <3>9. ASSUME NEW s \in Transfers, NEW u \in Transfers, s # u, Slotted(s)', Slotted(u)'
          PROVE  Ends(s)' <= transfer'[u].at \/ Ends(u)' <= transfer'[s].at
      <4>1. CASE s # t /\ u # t
        BY <1>0, <3>6, <3>9, <4>1 DEF SlotsApart, Ends
      <4>2. CASE s = t
        BY <3>3, <3>4, <3>6, <3>9, <4>2 DEF Ends
      <4>3. CASE u = t
        BY <3>3, <3>4, <3>6, <3>9, <4>3 DEF Ends
      <4> QED BY <4>1, <4>2, <4>3
    <3>10. SlotsApart'
      BY <2>0, <3>7, <3>8, <3>9 DEF SlotsApart
    <3> QED BY <3>5, <3>10 DEF PacingInv
  <2> QED BY <2>1, <2>2
<1> QED BY <1>1, <1>2, <1>3, <1>4 DEF PacingNext

\* Of a set of instants that are past, one is the latest.
LEMMA HasLatest ==
  ASSUME NEW T \in SUBSET (0..clock), T # {}, clock \in Nat
  PROVE  \E m \in T : \A i \in T : i <= m
<1> DEFINE U == {n \in Nat : clock - n \in T}
<1>1. U \in SUBSET Nat /\ U # {}
  <2>1. PICK m \in T : TRUE
    OBVIOUS
  <2>2. clock - m \in Nat /\ clock - (clock - m) = m
    BY <2>1
  <2>3. clock - m \in U
    BY <2>1, <2>2
  <2> QED BY <2>3
<1>2. PICK n \in U : \A k \in U : n <= k
  <2> HIDE DEF U
  <2> QED BY <1>1, HasLeast
<1>3. n \in Nat /\ clock - n \in T
  BY <1>2
<1>4. ASSUME NEW i \in T PROVE i <= clock - n
  <2>1. i \in 0..clock /\ clock - i \in Nat /\ clock - (clock - i) = i
    OBVIOUS
  <2>2. clock - i \in U
    BY <2>1
  <2>3. n <= clock - i
    BY <1>2, <2>2
  <2> QED BY <1>3, <2>1, <2>3
<1> QED BY <1>3, <1>4

\* Slots of the past, one apart from the other, have no more ticks than went by.
LEMMA TicksFit ==
  ASSUME PacingInv, NEW some \in SUBSET Transfers,
         \A t \in some : transfer[t].stage # "new" /\ (Slotted(t) => Ends(t) <= clock)
  PROVE  Cardinality(Ticks(some)) <= clock
<1>0. PacingTypeOK /\ SlotsApart /\ clock \in Nat
  BY PacingSettings DEF PacingInv, PacingTypeOK
<1> DEFINE At(p) == transfer[p[1]].at + p[2] - 1
           f == [p \in Ticks(some) |-> At(p)]
<1>1. ASSUME NEW p \in Ticks(some)
      PROVE  /\ p[1] \in some /\ p[1] \in Transfers /\ p[2] \in 1..transfer[p[1]].span
             /\ p = <<p[1], p[2]>>
  BY DEF Ticks
<1>2. ASSUME NEW p \in Ticks(some)
      PROVE  /\ Slotted(p[1]) /\ At(p) \in 0..(clock - 1)
             /\ transfer[p[1]].at <= At(p) /\ At(p) < Ends(p[1])
  <2> DEFINE t == p[1]
             k == p[2]
  <2>1. t \in some /\ t \in Transfers /\ k \in 1..transfer[t].span
    BY <1>1
  <2>2. transfer[t].stage \in TransferStages /\ transfer[t].at \in Nat /\ transfer[t].span \in Nat
    BY <1>0, <2>1, TransferIs
  <2>3. transfer[t].stage # "new"
    BY <2>1
  <2> QED BY <1>0, <2>1, <2>2, <2>3 DEF Slotted, Ends
<1>3. f \in [Ticks(some) -> 0..(clock - 1)]
  BY <1>2
<1>4. ASSUME NEW p \in Ticks(some), NEW q \in Ticks(some), f[p] = f[q]
      PROVE  p = q
  <2>1. At(p) = At(q) /\ At(p) \in Nat /\ At(q) \in Nat
    BY <1>2, <1>4
  <2>2. /\ transfer[p[1]].at \in Nat /\ transfer[q[1]].at \in Nat
        /\ transfer[p[1]].span \in Nat /\ transfer[q[1]].span \in Nat
    BY <1>0, <1>1, TransferIs
  <2>3. p[1] = q[1]
    <3> SUFFICES ASSUME p[1] # q[1] PROVE FALSE
      OBVIOUS
    <3>1. Ends(p[1]) <= transfer[q[1]].at \/ Ends(q[1]) <= transfer[p[1]].at
      BY <1>0, <1>1, <1>2 DEF SlotsApart
    <3>2. /\ transfer[p[1]].at <= At(p) /\ At(p) < Ends(p[1])
          /\ transfer[q[1]].at <= At(q) /\ At(q) < Ends(q[1])
      BY <1>2
    <3>3. Ends(p[1]) \in Nat /\ Ends(q[1]) \in Nat
      BY <2>2 DEF Ends
    <3> HIDE DEF At
    <3> QED BY <2>1, <2>2, <3>1, <3>2, <3>3
  <2>4. p[2] = q[2]
    <3>1. p[2] \in Nat /\ q[2] \in Nat
      BY <1>1, <2>2
    <3> QED BY <2>1, <2>2, <2>3, <3>1
  <2> QED BY <1>1, <2>3, <2>4
<1>5. f \in Injection(Ticks(some), 0..(clock - 1))
  <2> HIDE DEF f
  <2>1. DOMAIN f = Ticks(some)
    BY <1>3
  <2> QED BY <1>3, <1>4, <2>1 DEF Injection, IsInjective
<1>6. IsFiniteSet(0..(clock - 1)) /\ Cardinality(0..(clock - 1)) = clock
  <2>1. 0 \in Int /\ clock - 1 \in Int
    BY <1>0
  <2>2. /\ IsFiniteSet(0..(clock - 1))
        /\ Cardinality(0..(clock - 1)) = IF 0 > clock - 1 THEN 0 ELSE (clock - 1) - 0 + 1
    BY <2>1, FS_Interval
  <2>3. (IF 0 > clock - 1 THEN 0 ELSE (clock - 1) - 0 + 1) = clock
    BY <1>0
  <2> QED BY <2>2, <2>3
<1> HIDE DEF f
<1>7. Cardinality(Ticks(some)) <= Cardinality(0..(clock - 1))
  BY <1>5, <1>6, FS_Injection
<1> QED BY <1>6, <1>7

\* The threads of a run together stay at or under the rate, for any number of transfers and
\* any sizes: all that has departed but for one fits into the time that went by.
THEOREM ThreadsSharePace == PacingInit /\ [][PacingNext]_pacingVars => []PacedTogether
<1>1. PacingInv => PacedTogether
  <2> SUFFICES ASSUME PacingInv PROVE PacedTogether
    OBVIOUS
  <2>0. PacingTypeOK /\ SlotsApart /\ clock \in Nat
    BY PacingSettings DEF PacingInv, PacingTypeOK
  <2> DEFINE gone == {t \in Transfers : transfer[t].stage = "gone"}
             held == {t \in gone : transfer[t].span > 0}
             Paced == \E u \in gone : Cardinality(Ticks(gone \ {u})) <= clock
  <2>1. ASSUME NEW u \in gone, \A t \in gone \ {u} : Slotted(t) => Ends(t) <= clock
        PROVE  Paced
    <3>1. \A t \in gone \ {u} : transfer[t].stage # "new"
      OBVIOUS
    <3>2. gone \ {u} \in SUBSET Transfers
      OBVIOUS
    <3> HIDE DEF gone
    <3> QED BY <2>1, <3>1, <3>2, TicksFit
  <2>2. ASSUME gone # {}, held = {} PROVE Paced
    <3>1. PICK u \in gone : TRUE
      BY <2>2
    <3>2. \A t \in gone : ~Slotted(t)
      BY <2>2 DEF Slotted
    <3> HIDE DEF gone, Paced
    <3> QED BY <2>1, <3>1, <3>2
  <2>3. ASSUME held # {} PROVE Paced
    <3> DEFINE T == {transfer[t].at : t \in held}
    <3>1. T \in SUBSET (0..clock) /\ T # {}
      <4>1. \A t \in held : transfer[t].at \in Nat /\ transfer[t].at <= clock
        BY <2>0, TransferIs DEF SlotsApart
      <4>2. \A t \in held : transfer[t].at \in 0..clock
        BY <2>0, <4>1
      <4> HIDE DEF held
      <4> QED BY <2>3, <4>2
    <3>2. PICK m \in T : \A i \in T : i <= m
      <4> HIDE DEF T
      <4> QED BY <2>0, <3>1, HasLatest
    <3>3. PICK u \in held : m = transfer[u].at
      BY <3>2
    <3>4. ASSUME NEW t \in gone \ {u}, Slotted(t) PROVE Ends(t) <= clock
      <4>1. t \in held /\ u \in held /\ t \in Transfers /\ u \in Transfers /\ t # u
        BY <3>4 DEF Slotted
      <4>2. Slotted(u) /\ transfer[u].at <= clock
        BY <2>0, <4>1 DEF Slotted, SlotsApart
      <4>3. transfer[t].at <= transfer[u].at
        BY <3>2, <3>3, <4>1
      <4>4. Ends(t) <= transfer[u].at \/ Ends(u) <= transfer[t].at
        BY <2>0, <3>4, <4>1, <4>2 DEF SlotsApart
      <4>5. /\ transfer[t].at \in Nat /\ transfer[u].at \in Nat
            /\ transfer[t].span \in Nat /\ transfer[u].span \in Nat /\ transfer[u].span > 0
        BY <2>0, <4>1, TransferIs
      <4> QED BY <2>0, <4>2, <4>3, <4>4, <4>5 DEF Ends
    <3>5. u \in gone
      BY <3>3
    <3> HIDE DEF gone, held, Paced
    <3> QED BY <2>1, <3>4, <3>5
  <2> QED BY <2>2, <2>3 DEF PacedTogether
<1> QED BY <1>1, PacingBegins, PacingStep, PTL

LEMMA PacingTypeCorrect == PacingInit /\ [][PacingNext]_pacingVars => []PacingTypeOK
BY PacingBegins, PacingStep, PTL DEF PacingInv

-----------------------------------------------------------------------------
(***************************************************************************)
(* The parts side by side: each begins and steps as it does by itself, so   *)
(* what was proved of it holds in the instances of MCDesktop.               *)
(***************************************************************************)
LEMMA DesktopPartsBegin == DesktopInit => TrayInit /\ PacingInit /\ WatchersInit /\ Init
BY DEF DesktopInit, WatchersIdle, LoopIdle

LEMMA DesktopPartsStep ==
  ASSUME [DesktopNext]_desktopVars
  PROVE  /\ [TrayNext]_trayVars /\ [WatchersNext]_watchersVars
         /\ [PacingNext]_pacingVars /\ [Next]_vars
<1>1. CASE UNCHANGED desktopVars
  BY <1>1 DEF desktopVars
<1>2. ASSUME NEW p, Only(p)
      PROVE  /\ p # "tray" => UNCHANGED trayVars
             /\ p # "watchers" => UNCHANGED watchersVars
             /\ p # "transfers" => UNCHANGED pacingVars
             /\ p # "loop" => UNCHANGED vars
  BY <1>2 DEF Only
<1> QED BY <1>1, <1>2 DEF DesktopNext

\* In the instances TLC checks side by side, the tray, the watchers, the transfers and the
\* loop each begin and step as their own specifications say, or stand still.
THEOREM EachPartGoesItsWay ==
  DesktopSpec => /\ TrayInit /\ [][TrayNext]_trayVars
                 /\ WatchersInit /\ [][WatchersNext]_watchersVars
                 /\ PacingInit /\ [][PacingNext]_pacingVars
                 /\ Spec
BY DesktopPartsBegin, DesktopPartsStep, PTL DEF DesktopSpec, Spec

\* The typing of the tray, the watchers, the transfers and the loop.
THEOREM DesktopTypeCorrect == DesktopSpec => []DesktopTypeOK
<1>1. WatchersInit /\ [][WatchersNext]_watchersVars => []WatchersTypeOK
  BY WatchersInitOk, WatchersStep, PTL DEF WatchInv
<1>2. TrayTypeOK /\ WatchersTypeOK /\ PacingTypeOK /\ TypeOK => DesktopTypeOK
  BY DEF DesktopTypeOK
<1> QED
  BY <1>1, <1>2, EachPartGoesItsWay, TrayTypeCorrect, PacingTypeCorrect, TypeCorrect, PTL
=============================================================================
