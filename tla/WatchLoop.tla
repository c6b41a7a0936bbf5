------------------------------ MODULE WatchLoop ------------------------------
(***************************************************************************)
(* The watcher's main loop (src/watcher.rs watch_with): local changes come *)
(* as debounced events and are reconciled folder by folder as they come; a *)
(* full walk runs on a thread of its own, paced by how long walks take;    *)
(* and while the session with Proton is unusable, all of it stands still   *)
(* and the session is probed.  What a run does in a folder is FolderRuns'  *)
(* and PairSync's subject: here it has read the folder, or has failed.     *)
(***************************************************************************)
EXTENDS Naturals, FiniteSets

CONSTANTS
    Folders, Roots,  \* the folders of the watched pairs; those that are a pair's root
    Above,           \* the folder above each, as a set
    Every,           \* ticks between two probes, by gate (Gate::probe_every_secs)
    Floor, Cap,      \* Config::poll_interval_secs, FULL_WALK_MAX_SECS
    MaxChanges,      \* bound on the changes on either side
    MaxTurns,        \* bound on how often the session comes and goes
    MaxFaults        \* bound on the faults

Gates == {"open", "signedOut", "keyring"}
Sides == {"here", "there"}

ASSUME WatchAssumption ==
    /\ IsFiniteSet(Folders) /\ Roots \subseteq Folders /\ Above \in [Folders -> SUBSET Folders]
    /\ Every \in [Gates -> Nat]
    /\ Floor \in Nat /\ Cap \in Nat /\ Floor <= Cap
    /\ MaxChanges \in Nat /\ MaxTurns \in Nat /\ MaxFaults \in Nat

VARIABLES
    pc,               \* where the loop is
    gate, sinceProbe, \* the session as far as known; ticks since it was probed
    batch, errs,      \* folders left of this cycle's burst; whether one failed
    walk, walkTodo,   \* the background walk, and the folders it has not come to
    walkCancel,       \* its cancel flag
    fullIn,           \* ticks until the next one is due
    queue,            \* the channel: folders to reconcile
    hot,              \* the stats database: recently active folders
    events,           \* changes the debouncer has not passed on yet
    signal, stop,     \* the account's nudge (a file); the stop flag
    session,          \* the session as it is
    changes, turns, faults, \* changes, turns of the session and faults still to come
    unseen            \* history: changes no run has read yet, as <<side, folder>>

loop    == <<pc, gate, sinceProbe, batch, errs>>
walking == <<walk, walkTodo, walkCancel, fullIn>>
inbox   == <<queue, hot, events, signal>>
outside == <<stop, session, changes, turns>>
vars    == <<loop, walking, inbox, outside, faults, unseen>>

Lesser(m, n) == IF m <= n THEN m ELSE n
Greater(m, n) == IF m >= n THEN m ELSE n
Fault == faults > 0 /\ faults' = faults - 1

-----------------------------------------------------------------------------
(* A run reads a folder: both sides' changes are dealt with, and what it     *)
(* downloads is a local change again, of which the debouncer tells.          *)

Working == session = "open"

\* (Slip) The run's own reads and time stamps taken for changes.
EchoAlways(f) == {f}

\* is_content_change: only what was written here.
Echo(f) == IF <<"there", f>> \in unseen THEN {f} ELSE {}

Reads(f) ==
    /\ Working
    /\ unseen' = unseen \ {<<"here", f>>, <<"there", f>>}
    /\ events' = events \cup Echo(f)
    /\ UNCHANGED faults
\* Without a session, or for a reason of its own, it does nothing there.
FailsAt(f) ==
    /\ IF Working THEN Fault ELSE UNCHANGED faults
    /\ UNCHANGED <<unseen, events>>

\* run_sync_shallow_many, at startup and in every cycle.
Bursting == pc \in {"prime", "burst"} /\ ~stop
BurstFolder(f) ==
    /\ Bursting /\ f \in batch
    /\ batch' = batch \ {f}
    /\ \/ Reads(f) /\ UNCHANGED errs
       \/ FailsAt(f) /\ errs' = TRUE
    /\ UNCHANGED <<pc, gate, sinceProbe, walking, queue, hot, signal, outside>>

\* After a cycle with errors the session is looked at; after the first runs it is not.
BurstEnds ==
    /\ pc \in {"prime", "burst"}
    /\ batch = {} \/ stop
    /\ batch' = {} /\ errs' = FALSE
    /\ IF pc = "burst" /\ errs THEN pc' = "recheck" /\ sinceProbe' = 0
       ELSE pc' = "top" /\ UNCHANGED sinceProbe
    /\ UNCHANGED <<gate, walking, inbox, outside, faults, unseen>>

\* full_walk, on its thread; its errors are only logged.
WalkFolder(f) ==
    /\ walk = "running" /\ ~walkCancel /\ f \in walkTodo
    /\ walkTodo' = walkTodo \ {f}
    /\ Reads(f) \/ FailsAt(f)
    /\ UNCHANGED <<loop, walk, walkCancel, fullIn, queue, hot, signal, outside>>

WalkEnds ==
    /\ walk = "running" /\ (walkCancel \/ walkTodo = {})
    /\ walk' = "finished" /\ walkTodo' = {}
    /\ UNCHANGED <<loop, walkCancel, fullIn, inbox, outside, faults, unseen>>

Walker == WalkEnds \/ \E f \in Folders : WalkFolder(f)

-----------------------------------------------------------------------------
(* The session gate.                                                         *)

\* Gate::after: an inconclusive probe leaves the gate where it was.
Answer(known) == /\ IF known THEN gate' = session /\ UNCHANGED faults
                    ELSE gate' = gate /\ Fault

\* (Slip) The running walk is left alone.
ShutQuietly == UNCHANGED walkCancel

\* apply_probe: a gate that shuts stops the walk.
Shut == walkCancel' = (walkCancel \/ (gate' # gate /\ gate' # "open"))

\* local_change_folders: the folders with a file that is new or changed.  What was deleted
\* here is not among it, so it may be any of those that changed.
LocalChanges == SUBSET {f \in Folders : <<"here", f>> \in unseen}

\* The folders with changes here that can be told from the rows, and the hot ones;
\* the roots are left to the walk.
FirstProbe(known) ==
    /\ pc = "begin"
    /\ Answer(known)
    /\ IF gate' = "open"
       THEN /\ pc' = "prime"
            /\ \E fresh \in LocalChanges : batch' = (fresh \cup hot) \ Roots
       ELSE pc' = "top" /\ UNCHANGED batch
    /\ UNCHANGED <<sinceProbe, errs, walking, inbox, outside, unseen>>

\* (Slip) Only the nudge is waited for.
DueOnSignal == signal

\* auth_signal::take, or the throttle has run out.
ProbeDue == signal \/ sinceProbe >= Every[gate]

Probe(known) ==
    /\ pc = "probe"
    /\ Answer(known)
    /\ Shut
    /\ fullIn' = IF gate' # gate /\ gate' = "open" THEN 0 ELSE fullIn
    /\ pc' = IF gate' = "open" THEN "start" ELSE "top"
    /\ UNCHANGED <<sinceProbe, batch, errs, walk, walkTodo, inbox, outside, unseen>>

Recheck(known) ==
    /\ pc = "recheck"
    /\ Answer(known)
    /\ Shut
    /\ pc' = "top"
    /\ UNCHANGED <<sinceProbe, batch, errs, walk, walkTodo, fullIn, inbox, outside, unseen>>

-----------------------------------------------------------------------------
(* One turn of the loop.                                                     *)

Halts == pc = "top" /\ stop
Halt ==
    /\ Halts
    /\ pc' = "join" /\ walkCancel' = TRUE
    /\ UNCHANGED <<gate, sinceProbe, batch, errs, walk, walkTodo, fullIn, inbox, outside,
                   faults, unseen>>

\* The scope joins the walk, and the lock is let go.
Join ==
    /\ pc = "join" /\ walk # "running"
    /\ pc' = "ended" /\ walk' = "none"
    /\ UNCHANGED <<gate, sinceProbe, batch, errs, walkTodo, walkCancel, fullIn, inbox,
                   outside, faults, unseen>>

\* next_full_delay: a multiple of the time the walk took, kept within these.
Paces == Floor..Cap

\* A walk that has finished is reaped; then, while the gate is shut, none is to run, and
\* the session is probed when that is due.
Top ==
    /\ pc = "top" /\ ~stop
    /\ IF walk = "finished" THEN walk' = "none" /\ fullIn' \in Paces
       ELSE UNCHANGED <<walk, fullIn>>
    /\ walkCancel' = (walkCancel \/ gate # "open")
    /\ signal' = FALSE
    /\ IF ProbeDue THEN pc' = "probe" /\ sinceProbe' = 0
       ELSE /\ pc' = IF gate = "open" THEN "start" ELSE "top"
            /\ UNCHANGED sinceProbe
    /\ UNCHANGED <<gate, batch, errs, walkTodo, queue, hot, events, outside, faults, unseen>>

\* (Slip) The flag still stands from the last time.
WalkBeginsAsItWas == walk' = "running" /\ walkTodo' = Folders /\ UNCHANGED walkCancel

WalkBegins == walk' = "running" /\ walkTodo' = Folders /\ walkCancel' = FALSE

StartWalk ==
    /\ pc = "start"
    /\ pc' = "recv"
    /\ IF walk = "none" /\ fullIn = 0
       THEN WalkBegins
       ELSE UNCHANGED <<walk, walkTodo, walkCancel>>
    /\ UNCHANGED <<gate, sinceProbe, batch, errs, fullIn, inbox, outside, faults, unseen>>

Listening == pc = "recv"

Idles == /\ Listening /\ queue = {}
         /\ pc' = "top"
         /\ UNCHANGED <<gate, sinceProbe, batch, errs, walking, inbox, outside, faults, unseen>>

\* The hot timer may have sent its tick.
Receive(hotTick) ==
    /\ Listening /\ (queue # {} \/ hotTick)
    /\ batch' = queue \cup (IF hotTick THEN hot ELSE {})
    /\ queue' = {}
    /\ pc' = "burst"
    /\ UNCHANGED <<gate, sinceProbe, errs, walking, hot, events, signal, outside, faults, unseen>>

Loop == \/ \E known \in BOOLEAN : FirstProbe(known) \/ Probe(known) \/ Recheck(known)
        \/ (\E f \in Folders : BurstFolder(f)) \/ BurstEnds
        \/ Halt \/ Join \/ Top \/ StartWalk \/ Idles
        \/ \E hotTick \in BOOLEAN : Receive(hotTick)

-----------------------------------------------------------------------------
(* Around the loop.                                                          *)

\* The debouncer's handler records the change and asks for the folder.
Deliver(f) ==
    /\ f \in events /\ pc # "ended"
    /\ events' = events \ {f}
    /\ hot' = hot \cup {f} \cup Above[f]
    /\ queue' = queue \cup {f}
    /\ UNCHANGED <<loop, walking, signal, outside, faults, unseen>>

\* A folder's last change leaves HOT_WINDOW_SECS.
Cools(f) ==
    /\ f \in hot
    /\ hot' = hot \ {f}
    /\ UNCHANGED <<loop, walking, queue, events, signal, outside, faults, unseen>>

Longest == Greater(Every["open"], Greater(Every["signedOut"], Every["keyring"]))

Tick ==
    /\ sinceProbe' = Lesser(sinceProbe + 1, Longest)
    /\ fullIn' = IF fullIn = 0 THEN 0 ELSE fullIn - 1
    /\ UNCHANGED <<pc, gate, batch, errs, walk, walkTodo, walkCancel, inbox, outside, faults,
                   unseen>>

Change(side, f) ==
    /\ changes > 0 /\ changes' = changes - 1
    /\ unseen' = unseen \cup {<<side, f>>}
    /\ \/ /\ side = "here"
          /\ events' = events \cup {f} /\ UNCHANGED faults
       \/ /\ side = "there"
          /\ UNCHANGED <<events, faults>>
       \/ \* the kernel's queue overflows, or the root could not be watched
          /\ side = "here"
          /\ Fault /\ UNCHANGED events
    /\ UNCHANGED <<loop, walking, queue, hot, signal, stop, session, turns>>

\* Signed out or in, the keyring locked or unlocked; the window tells the watcher when
\* it was done there.
SessionTurns(to) ==
    /\ turns > 0 /\ turns' = turns - 1
    /\ to # session /\ session' = to
    /\ \/ UNCHANGED signal
       \/ to = "open" /\ signal' = TRUE
    /\ UNCHANGED <<loop, walking, queue, hot, events, stop, changes, faults, unseen>>

Stop ==
    /\ ~stop /\ stop' = TRUE
    /\ UNCHANGED <<loop, walking, inbox, session, changes, turns, faults, unseen>>

Environment ==
    \/ Tick \/ Stop
    \/ \E f \in Folders : Deliver(f) \/ Cools(f) \/ \E side \in Sides : Change(side, f)
    \/ \E to \in Gates : SessionTurns(to)

\* The daemon has its lock and its watches; changes may have come before it.
Init ==
    /\ pc = "begin" /\ gate = "open" /\ sinceProbe = 0 /\ batch = {} /\ errs = FALSE
    /\ walk = "none" /\ walkTodo = {} /\ walkCancel = FALSE /\ fullIn = 0
    /\ queue = {} /\ events = {} /\ signal \in BOOLEAN
    /\ hot = {} /\ session \in Gates
    /\ unseen \in SUBSET (Sides \X Folders) /\ Cardinality(unseen) <= MaxChanges
    /\ stop = FALSE /\ changes = MaxChanges - Cardinality(unseen) /\ turns = MaxTurns /\ faults = MaxFaults

Next == Loop \/ Walker \/ Environment
Spec == Init /\ [][Next]_vars

\* The loop goes on, time passes, the debouncer delivers.  Nothing is asked of the walk,
\* the user or the session.
LiveSpec == Spec /\ WF_vars(Loop) /\ WF_vars(Tick) /\ \A f \in Folders : WF_vars(Deliver(f))

-----------------------------------------------------------------------------
(* Properties.                                                               *)

TypeOK ==
    /\ pc \in {"begin", "prime", "top", "probe", "start", "recv", "burst", "recheck",
               "join", "ended"}
    /\ gate \in Gates /\ session \in Gates
    /\ sinceProbe \in 0..Longest
    /\ batch \subseteq Folders /\ errs \in BOOLEAN
    /\ walk \in {"none", "running", "finished"} /\ walkTodo \subseteq Folders
    /\ walkCancel \in BOOLEAN /\ fullIn \in 0..Cap
    /\ queue \subseteq Folders
    /\ hot \subseteq Folders /\ events \subseteq Folders
    /\ signal \in BOOLEAN /\ stop \in BOOLEAN
    /\ changes \in 0..MaxChanges /\ turns \in 0..MaxTurns /\ faults \in 0..MaxFaults
    /\ unseen \subseteq Sides \X Folders

\* A walk is never left going through the tree without a session: once the loop knows,
\* or is about to end, the walk has been told to stop.
WalkIsToldToStop == walk = "running" /\ (gate # "open" \/ pc = "join") => walkCancel

\* A change in the folder, on either side, that no run has read.
Unseen(f) == \E side \in Sides : <<side, f>> \in unseen

\* No command hangs for ever: every walk comes to its end.
WalksEnd == []<>(walk # "running")

\* As long as walks end, every change on either side, heard of or not, is read by
\* some later run, unless the session stays away or the watcher is stopped: no walk that
\* was cancelled, no error and no event that was lost makes the watcher miss it for good.
ChangesAreSeen ==
    WalksEnd =>
        \A f \in Folders : Unseen(f) ~> ~Unseen(f) \/ ~Working \/ stop

\* A change that was heard of does not wait for the walk, even one that never ends:
\* "a fresh save no longer waits out a long walk".
SavesDoNotWait == \A f \in Folders : f \in queue ~> f \notin queue \/ ~Working \/ stop

\* Every change is read by some run, and one that was heard of waits for no walk.
EveryChangeIsRead == ChangesAreSeen /\ SavesDoNotWait

\* Once the session is back the watcher finds out, nudged or not.
Resumes == Working ~> gate = "open" \/ ~Working \/ stop

\* The watcher does not keep itself busy: once the changes end so do the events.
GoesQuiet == <>[](events = {} \/ stop)

\* Told to stop, it stops, whatever the session is and however many messages come.
StopEnds == WalksEnd => (stop ~> pc = "ended")

\* The loop keeps itself neither busy nor alive.
ComesToRest == GoesQuiet /\ StopEnds
=============================================================================
