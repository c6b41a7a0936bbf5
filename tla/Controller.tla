----------------------------- MODULE Controller -----------------------------
(***************************************************************************)
(* What the frontends see of the runs (src/src/service.rs): the Controller  *)
(* starts a manual run on a thread of its own and cancels it, the watcher's *)
(* walk and bursts run beside it, and all of them tell the StateSink what   *)
(* happens by events, each applied under the state's lock.  What a run does *)
(* to files is PairSync's and FolderRuns'; here it is what it reports.      *)
(***************************************************************************)
EXTENDS Naturals, Sequences, FiniteSets

CONSTANTS
    Pairs,
    Manual,     \* threads of manual runs, the last of which may still be winding up
    Walk, Burst,\* the watcher's walk and its burst of folders
    MaxRuns     \* bounds the runs ever begun

Threads == Manual \cup {Walk, Burst}

ASSUME ControllerAssumption ==
    /\ Walk \notin Manual /\ Burst \notin Manual /\ Walk # Burst
    /\ IsFiniteSet(Pairs) /\ MaxRuns \in Nat

VARIABLES
    phase,      \* PairState::phase
    failure,    \* PairState::last_error: none, the sentence of the hold, or another
    held,       \* PairState::held
    busy,       \* Controller::busy, taken by a run
    shownBusy,  \* AppState::busy
    cancel,     \* Controller::cancel
    quit,       \* the walk's cancel flag
    thread,     \* of each thread: how far it is, on which pair, whether its plan covers the
                \* whole pair, whether it saw all of the remote, and whether it met an error
    begun,      \* runs begun so far
    abandoned   \* history: pairs a run announced and never came to

ctlVars == <<phase, failure, held, busy, shownBusy, cancel, quit, thread, begun, abandoned>>

Phases == {"idle", "scanning", "syncing", "synced", "error"}
Failures == {"none", "hold", "other"}
ThreadStages == {"off", "between", "planning", "applying", "reporting", "finishing", "over"}
Gone == [stage |-> "off", guarded |-> TRUE, queue |-> {}, on |-> {}, whole |-> FALSE,
         seen |-> TRUE, errors |-> FALSE]
ThreadStates == [stage : ThreadStages, guarded : BOOLEAN, queue : SUBSET Pairs, on : SUBSET Pairs,
                 whole : BOOLEAN, seen : BOOLEAN, errors : BOOLEAN]

ControllerTypeOK ==
    /\ phase \in [Pairs -> Phases]
    /\ failure \in [Pairs -> Failures]
    /\ held \in [Pairs -> BOOLEAN]
    /\ {busy, shownBusy, cancel, quit} \subseteq BOOLEAN
    /\ thread \in [Threads -> ThreadStates]
    /\ begun \in 0..MaxRuns
    /\ abandoned \subseteq Pairs

ControllerInit ==
    /\ phase = [p \in Pairs |-> "idle"]
    /\ failure = [p \in Pairs |-> "none"]
    /\ held = [p \in Pairs |-> FALSE]
    /\ busy = FALSE /\ shownBusy = FALSE /\ cancel = FALSE /\ quit = FALSE
    /\ thread = [t \in Threads |-> Gone]
    /\ begun = 0
    /\ abandoned = {}

(***************************************************************************)
(* Helpers: the pairs as one event leaves them, and where a thread stands.  *)
(***************************************************************************)
Set(f, ps, x) == [p \in Pairs |-> IF p \in ps THEN x ELSE f[p]]
At(t, stage) == thread[t].stage = stage
Moves(t, stage) == thread' = [thread EXCEPT ![t].stage = stage]
Flag(t) == IF t \in Manual THEN cancel ELSE quit
InBody(t) == thread[t].stage \notin {"off", "over"}

Flags == <<busy, shownBusy, cancel, quit>>
Notes == <<begun, abandoned>>

(***************************************************************************)
(* Manual runs: Controller::run.                                            *)
(***************************************************************************)
\* busy.swap(true): one caller finds it free.
TakeBusy == ~busy /\ busy' = TRUE

(* sync, sync_confirming_deletes and resync, for pairs named or for all of them; the *)
(* last two delete what the guard holds back, or nothing at all.                     *)
Run(t, guarded, names) ==
    /\ At(t, "off")
    /\ begun < MaxRuns
    /\ TakeBusy
    /\ cancel' = FALSE
    /\ shownBusy' = TRUE
    /\ phase' = Set(phase, names, "scanning")
    /\ failure' = Set(failure, names, "none")
    /\ thread' = [thread EXCEPT ![t] =
                      [Gone EXCEPT !.stage = "between", !.guarded = guarded, !.queue = names]]
    /\ begun' = begun + 1
    /\ abandoned' = abandoned \ names
    /\ UNCHANGED <<held, quit>>

Cancel ==
    /\ shownBusy /\ ~cancel
    /\ cancel' = TRUE
    /\ UNCHANGED <<phase, failure, held, busy, shownBusy, quit, thread, Notes>>

(* The next pair of the run: PairStarted. *)
NextPair(t) ==
    /\ At(t, "between")
    /\ ~cancel
    /\ \E p \in thread[t].queue :
          /\ phase' = Set(phase, {p}, "scanning")
          /\ failure' = Set(failure, {p}, "none")
          /\ thread' = [thread EXCEPT ![t].stage = "planning", ![t].on = {p},
                                      ![t].queue = @ \ {p}, ![t].errors = FALSE]
    /\ UNCHANGED <<held, Flags, Notes>>

(* plan fails: Error. *)
PlanFails(t) ==
    /\ At(t, "planning")
    /\ phase' = Set(phase, thread[t].on, "error")
    /\ failure' = Set(failure, thread[t].on, "other")
    /\ thread' = [thread EXCEPT ![t].stage = "between", ![t].on = {}]
    /\ UNCHANGED <<held, Flags, Notes>>

(* ScanStarted and Planned; the plan may rest on a part of the remote. *)
Plans(t) ==
    /\ At(t, "planning")
    /\ \E doing \in {"synced", "syncing"} : phase' = Set(phase, thread[t].on, doing)
    /\ \E complete \in BOOLEAN :
          thread' = [thread EXCEPT ![t].stage = "applying", ![t].whole = complete,
                                   ![t].seen = complete]
    /\ UNCHANGED <<failure, held, Flags, Notes>>

(* No pair is left, the run is cancelled, or the client's program is missing; the pairs *)
(* it never came to keep the phase they were given.                                     *)
LeaveLoop(t) ==
    /\ At(t, "between")
    /\ thread[t].queue = {} \/ cancel
    /\ busy' = FALSE
    /\ thread' = [thread EXCEPT ![t] = [Gone EXCEPT !.stage = "over"]]
    /\ abandoned' = abandoned \cup thread[t].queue
    /\ UNCHANGED <<phase, failure, held, shownBusy, cancel, quit, begun>>

(* A step later the thread says so to the frontends. *)
WindUp(t) ==
    /\ At(t, "over")
    /\ shownBusy' = FALSE
    /\ Moves(t, "off")
    /\ UNCHANGED <<phase, failure, held, busy, cancel, quit, Notes>>

(***************************************************************************)
(* The watcher's runs: run_sync_streaming over the whole pair,              *)
(* run_sync_shallow_many over some of its folders.                          *)
(***************************************************************************)
WatcherRun(t, p) ==
    /\ At(t, "off")
    /\ begun < MaxRuns
    /\ begun' = begun + 1
    /\ phase' = Set(phase, {p}, "scanning")
    /\ thread' = [thread EXCEPT ![t] =
                      [Gone EXCEPT !.stage = "applying", !.on = {p}, !.whole = (t = Walk)]]
    /\ quit' = IF t = Walk THEN FALSE ELSE quit
    /\ abandoned' = abandoned \ {p}
    /\ UNCHANGED <<failure, held, busy, shownBusy, cancel>>

(* The walk finds no program or no local folder: Error, and nothing else. *)
WalkRefused(p) ==
    /\ At(Walk, "off")
    /\ begun < MaxRuns
    /\ begun' = begun + 1
    /\ phase' = Set(phase, {p}, "error")
    /\ failure' = Set(failure, {p}, "other")
    /\ abandoned' = abandoned \ {p}
    /\ UNCHANGED <<held, Flags, thread>>

(* The gate shuts, or the watcher is stopped. *)
QuitWalk ==
    /\ InBody(Walk) /\ ~quit
    /\ quit' = TRUE
    /\ UNCHANGED <<phase, failure, held, busy, shownBusy, cancel, thread, Notes>>

(***************************************************************************)
(* What every run does once it applies its plan.                            *)
(***************************************************************************)
(* An operation fails: OpFinished. *)
OpFails(t) ==
    /\ At(t, "applying") /\ ~thread[t].errors
    /\ failure' = Set(failure, thread[t].on, "other")
    /\ thread' = [thread EXCEPT ![t].errors = TRUE]
    /\ UNCHANGED <<phase, held, Flags, Notes>>

(* The remote listing of a folder of the watcher's run fails: it is synced without *)
(* deletions, which is neither an error nor an event.                              *)
FolderUnseen(t) ==
    /\ t \notin Manual
    /\ At(t, "applying") /\ thread[t].seen
    /\ thread' = [thread EXCEPT ![t].seen = FALSE]
    /\ UNCHANGED <<phase, failure, held, Flags, Notes>>

(* The operations are over, and the baseline and the retry state are written. *)
Applied(t) ==
    /\ At(t, "applying")
    /\ Moves(t, "reporting")
    /\ UNCHANGED <<phase, failure, held, Flags, Notes>>

(* The guard holds deletions back: DeletesHeld.  Not in a run told to go ahead, nor in *)
(* one that trusts no row.                                                             *)
ReportHeld(t) ==
    /\ At(t, "reporting")
    /\ thread[t].guarded
    /\ phase' = Set(phase, thread[t].on, "error")
    /\ failure' = Set(failure, thread[t].on, "hold")
    /\ held' = Set(held, thread[t].on, TRUE)
    /\ thread' = [thread EXCEPT ![t].stage = "finishing", ![t].errors = TRUE]
    /\ UNCHANGED <<Flags, Notes>>

\* (Slip) A run that held nothing back settles what was held, whatever it looked at.
ReleasesAlways(t) == TRUE
\* A run settles what was held if its plan covered the whole pair and it was not cancelled;
\* a walk's covers every folder it came to, listed or not.
Releases(t) == thread[t].whole /\ ~Flag(t)

(* It holds nothing back: DeletesReleased, if the run can tell. *)
HoldsNothing(t) ==
    /\ At(t, "reporting")
    /\ held' = IF Releases(t) THEN Set(held, thread[t].on, FALSE) ELSE held
    /\ failure' = [p \in Pairs |->
                      IF Releases(t) /\ p \in thread[t].on /\ held[p] /\ failure[p] = "hold"
                      THEN "none" ELSE failure[p]]
    /\ Moves(t, "finishing")
    /\ UNCHANGED <<phase, Flags, Notes>>

\* (Slip) A run that finishes without errors of its own is a clean one.
EndsCleanByErrors(t, p) == ~thread[t].errors
EndsClean(t, p) == ~thread[t].errors /\ ~held[p]

(* The run is over for the pair: PairFinished. *)
PairFinished(t) ==
    /\ At(t, "finishing")
    /\ \A p \in thread[t].on :
          /\ phase' = Set(phase, {p}, IF EndsClean(t, p) THEN "synced" ELSE "error")
          /\ failure' = IF EndsClean(t, p) THEN Set(failure, {p}, "none") ELSE failure
    /\ thread' = [thread EXCEPT ![t] =
                      IF t \in Manual
                      THEN [@ EXCEPT !.stage = "between", !.on = {}]
                      ELSE Gone]
    /\ UNCHANGED <<held, Flags, Notes>>

-----------------------------------------------------------------------------
ThreadStep(t) ==
    \/ NextPair(t) \/ PlanFails(t) \/ Plans(t) \/ LeaveLoop(t) \/ WindUp(t)
    \/ Applied(t) \/ HoldsNothing(t) \/ PairFinished(t)

ControllerNext ==
    \/ \E t \in Manual, guarded \in BOOLEAN, names \in (SUBSET Pairs) \ {{}} :
           Run(t, guarded, names)
    \/ Cancel
    \/ \E t \in {Walk, Burst}, p \in Pairs : WatcherRun(t, p)
    \/ \E p \in Pairs : WalkRefused(p)
    \/ QuitWalk
    \/ \E t \in Threads : ThreadStep(t) \/ OpFails(t) \/ FolderUnseen(t)
                               \/ ReportHeld(t)

ControllerSpec == ControllerInit /\ [][ControllerNext]_ctlVars

(***************************************************************************)
(* Properties.                                                              *)
(***************************************************************************)
\* However often a run is asked for, one manual run is under way at a time, and the flag
\* that turns the others away is up exactly while it is (Controller::run's busy.swap).
OneManualRun ==
    /\ Cardinality({t \in Manual : InBody(t)}) <= 1
    /\ busy <=> \E t \in Manual : InBody(t)

\* A cancellation asked for stands until the run it was meant for is over: the next run,
\* which lowers the flag, only begins then.
CancelIsHeard == [][cancel /\ ~cancel' => \A t \in Manual : ~InBody(t)]_ctlVars

\* Deletions held back stay on show until a run over the whole pair has ended that was not
\* cancelled and held nothing back itself; bursts and partial plans never clear them.
HoldIsSettledWhole ==
    [][\A p \in Pairs : held[p] /\ ~held'[p] =>
          \E t \in Threads : /\ At(t, "reporting") /\ p \in thread[t].on
                             /\ t # Burst /\ thread[t].whole /\ ~Flag(t)]_ctlVars

Attended(p) ==
    \E t \in Threads : InBody(t) /\ p \in thread[t].queue \cup thread[t].on

\* Nothing is shown as scanning or syncing with no run to do it: "A scan or transfer is in
\* flight" (OverallStatus::Syncing).  A run cancelled before it came to a pair is apart.
WorkingMeansWork ==
    \A p \in Pairs : phase[p] \in {"scanning", "syncing"} => Attended(p) \/ p \in abandoned

\* Once the runs of a pair are over it is shown in error while deletions are held back,
\* and as synced only with no error standing, in whatever order the runs ended.
RestIsTold ==
    \A p \in Pairs : ~Attended(p) /\ p \notin abandoned =>
        /\ held[p] => phase[p] = "error"
        /\ phase[p] = "synced" => failure[p] = "none"

\* The frontends' picture of the runs, whatever overlaps: who is at work, and how it ended.
PhaseIsTrue == OneManualRun /\ WorkingMeansWork /\ RestIsTold

\* Neither a cancellation nor the notice of deletions held back is taken down by a run it
\* does not concern.
NothingIsDroppedEarly == CancelIsHeard /\ HoldIsSettledWhole
=============================================================================
