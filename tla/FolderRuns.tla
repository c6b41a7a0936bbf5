----------------------------- MODULE FolderRuns -----------------------------
(***************************************************************************)
(* The runs that go folder by folder: the streaming walk of the whole pair *)
(* and the bursts of single folders the watcher asks for, several threads  *)
(* each, every thread reconciling the direct children of one folder at a   *)
(* time from the baseline snapshot its run took when it began              *)
(* (src/engine.rs run_sync_streaming, run_sync_shallow_many,               *)
(* sync_pair_shallow_with_base; src/watcher.rs runs the two side by side). *)
(*                                                                         *)
(* PairSync has the single operations in detail (a download's checks, the  *)
(* conflict copies, timeouts); here each is a step, a file's size and      *)
(* modification time tell its versions apart, and what is modelled is the  *)
(* tree of folders, the threads, their shared budget and the snapshots.    *)
(***************************************************************************)
EXTENDS Merge, DeleteBudget, FiniteSets

CONSTANTS
    Files, Dirs, Root, \* paths of the pair: files, folders, and "" itself
    Parent,            \* the folder each path is in
    Start,             \* version both sides hold of each file at first, or 0
    C,                 \* the merge's settings
    EmptyRootMin,      \* EMPTY_ROOT_MIN_FILES
    MaxClock,          \* bound on the versions ever written
    Faults, MaxFaults, \* kinds of fault that may happen, and bound on how many do
    Moves, MaxMoves,   \* what the user and the other devices do, and bound on how often
    MaxTroubles,       \* bound on faults and moves taken together
    MidRun,            \* whether they do it while runs are in flight
    Overlap            \* whether bursts run beside the walk, as they do in the watcher

Sides == {"here", "there"}
Items == Files \cup Dirs
Folders == Dirs \cup {Root}
\* The folders a path is in: those that every set of folders has which, with the path itself,
\* holds the parent of all it holds.
Climbs(S, x) == \A y \in S \cup {x} : Parent[y] \in S \cup {Root}
Above[x \in Items] == {d \in Dirs : \A S \in SUBSET Dirs : Climbs(S, x) => d \in S}
Under(d) == {x \in Items : d \in Above[x]}
Children(folder) == {x \in Items : Parent[x] = folder}

ASSUME FolderRunsAssumption ==
    /\ MaxClock \in Nat \ {0} /\ Versions = 1..MaxClock
    /\ \A m, n \in Versions : m # n => Size[m] # Size[n]
    /\ IsFiniteSet(Items) /\ Files \cap Dirs = {} /\ Root \notin Items
    /\ Parent \in [Items -> Folders] /\ \A d \in Dirs : d \notin Above[d]
    /\ Start \in [Files -> 0..MaxClock]
    /\ Cardinality({g \in Files : Start[g] # 0}) <= MaxClock
    /\ C \in Settings /\ C.conflict = "skip" /\ C.compare = "size_mtime"
    /\ EmptyRootMin \in Nat /\ {MaxFaults, MaxMoves, MaxTroubles} \subseteq Nat
    /\ MidRun \in BOOLEAN /\ Overlap \in BOOLEAN
    /\ Runs = {"walk", "burst"}
    /\ MaxAsk >= 2 * Cardinality(Files)

VARIABLES
    tree, trash,    \* what each side holds; the version of each file last trashed there
    rows, backoff,  \* the stats database: baseline rows, paths in retry backoff
    on, snap,       \* of each run: in flight or not; the baseline as it began
    queue, next,    \* of each run: folders of this level still to do, those of the next
    cancelled,
    held,           \* of each run: the deletions held back
    job,            \* of each thread: the folder it reconciles and how far it is
    clock,          \* versions written so far
    excludes, skips, \* the folders the settings leave out, and as each run read them
    faults, moves,  \* faults and moves still to come
    removed,        \* history: of each run, the files it deleted
    discarded,      \* history: versions their author replaced
    dismissed, restored, \* history: versions somebody deleted; those brought back since
    spared,         \* history: versions only Proton Drive holds once a walk has left them out
    calm            \* history: nothing has disturbed the walk so far

past  == <<discarded, dismissed, restored, spared>>
outer == <<clock, moves, excludes, past>>
world == <<tree, trash, outer>>
store == <<rows, backoff>>
runs  == <<on, snap, skips, queue, next, cancelled>>
vars  == <<world, store, runs, held, job, faults, removed, calm, budget>>

(* A tree, a listing, and the baseline's rows alike: the version at each file path (0: *)
(* nothing) and the folders there are.                                                 *)
Trees == [f : [Files -> 0..MaxClock], d : SUBSET Dirs]
Bare == [f |-> [g \in Files |-> 0], d |-> {}]
Live(s) == {tree[s].f[g] : g \in Files} \ {0}
EntryAt(t, x) ==
    IF x \in Dirs
    THEN IF x \in t.d THEN [dir |-> TRUE, v |-> 1, t |-> NoTime, h |-> FALSE] ELSE Nil
    ELSE IF t.f[x] = 0 THEN Nil
         ELSE [dir |-> FALSE, v |-> t.f[x], t |-> t.f[x], h |-> FALSE]
Filed(t) == {g \in Files : t.f[g] # 0}
Put(t, g, v) == [f |-> [t.f EXCEPT ![g] = v], d |-> t.d \cup Above[g]]
Made(t, d) == [t EXCEPT !.d = @ \cup {d} \cup Above[d]]
Cut(t, gone) == [f |-> [g \in Files |-> IF g \in gone THEN 0 ELSE t.f[g]], d |-> t.d \ gone]
Subtree(x) == IF x \in Dirs THEN {x} \cup Under(x) ELSE {x}
Within(t, x) == {g \in Files \cap Subtree(x) : t.f[g] # 0}
There(t, folder) == folder = Root \/ folder \in t.d
\* Pair::is_excluded: a folder left out, or anything in it.
Excluded(x, ex) == x \in ex \/ (x \in Items /\ Above[x] \cap ex # {})
\* The direct children of a folder that are not left out.
Listing(t, folder, ex) ==
    [f |-> [g \in Files |-> IF Parent[g] = folder /\ ~Excluded(g, ex) THEN t.f[g] ELSE 0],
     d |-> {d \in t.d : Parent[d] = folder /\ ~Excluded(d, ex)}]

\* Each operation of a thread's plan, and the row it plans.
Deletes == {"deleteLocal", "deleteRemote"}
Makes   == {"upload", "download", "mkdirLocal", "mkdirRemote"}
Ops == Deletes \cup Makes \cup {"none", "noop", "skip"}
Free == [at |-> "free", folder |-> Root, seen |-> Bare, whole |-> TRUE, kids |-> {},
         plan |-> [x \in Items |-> Verdict("none", Nil)],
         todo |-> {}, done |-> {}, gone |-> {}, failed |-> {}, doomed |-> Nil]
OpOf(w, x) == job[w].plan[x].op
Side(op) == IF op = "deleteLocal" THEN "here" ELSE "there"

\* Another fault or move may come.
Troubled == (MaxFaults - faults) + (MaxMoves - moves) < MaxTroubles
Fault(kind) == kind \in Faults /\ Troubled /\ faults > 0 /\ faults' = faults - 1

-----------------------------------------------------------------------------
(* A run: begin, level after level, end.                                     *)

Tracked(t, ex) == Cardinality({g \in Filed(t) : ~Excluded(g, ex)})
Missing == LET known == Tracked(rows, excludes)
               here  == Tracked(tree["here"], excludes)
           IN  IF known > here THEN known - here ELSE 0
\* DeleteBudget::new makes none when the run could not go over it.
Guarded(r) == C.propagate /\ Allowed < Tracked(snap[r], skips[r])
Crew(r) == {w \in Workers : RunOf[w] = r}
AllFree(r) == \A w \in Crew(r) : job[w].at = "free"

Begin(r, folders, missing) ==
    /\ ~on[r]
    /\ on' = [on EXCEPT ![r] = TRUE]
    /\ snap' = [snap EXCEPT ![r] = rows] /\ skips' = [skips EXCEPT ![r] = excludes]
    /\ queue' = [queue EXCEPT ![r] = folders]
    /\ held' = [held EXCEPT ![r] = {}]
    /\ removed' = [removed EXCEPT ![r] = {}]
    /\ New(r, IF C.propagate /\ Allowed < Tracked(rows, excludes) THEN missing ELSE 0)
    /\ UNCHANGED <<world, store, next, cancelled, job, faults>>

\* run_sync_streaming: the pair's root first, after a census of the local files.
StartWalk == /\ Begin("walk", {Root}, Missing)
             /\ Overlap \/ ~on["burst"]
             /\ calm' = ~on["burst"]

\* run_sync_shallow_many: the folder a change event or the hot list names.
StartBurst == /\ \E folder \in Folders : Begin("burst", {folder}, 0)
              /\ Overlap \/ ~on["walk"]
              /\ calm' = FALSE

NextLevel(r) ==
    /\ on[r] /\ AllFree(r) /\ ~cancelled[r]
    /\ queue[r] = {} /\ next[r] # {}
    /\ queue' = [queue EXCEPT ![r] = next[r]]
    /\ next' = [next EXCEPT ![r] = {}]
    /\ UNCHANGED <<world, store, on, snap, skips, cancelled, held, job, faults, removed, calm,
                   budget>>

LeftOut(r) == {g \in Filed(tree["there"]) : Excluded(g, skips[r])}

\* The report of what was held back is the run's last word.
End(r) ==
    /\ on[r] /\ AllFree(r)
    /\ cancelled[r] \/ (queue[r] = {} /\ next[r] = {})
    /\ on' = [on EXCEPT ![r] = FALSE]
    /\ snap' = [snap EXCEPT ![r] = Bare] /\ skips' = [skips EXCEPT ![r] = {}]
    /\ queue' = [queue EXCEPT ![r] = {}] /\ next' = [next EXCEPT ![r] = {}]
    /\ cancelled' = [cancelled EXCEPT ![r] = FALSE]
    /\ held' = [held EXCEPT ![r] = {}]
    /\ removed' = [removed EXCEPT ![r] = {}]
    /\ spared' = IF r = "walk" /\ ~cancelled[r]
                 THEN spared \cup ({tree["there"].f[g] : g \in LeftOut(r)} \ Live("here"))
                 ELSE spared
    /\ UNCHANGED <<tree, trash, clock, moves, excludes, discarded, dismissed, restored,
                   store, job, faults, calm, budget>>

-----------------------------------------------------------------------------
(* A thread: one folder after another.                                       *)

At(w, place) == on[RunOf[w]] /\ job[w].at = place
Becomes(w, j) == job' = [job EXCEPT ![w] = j]
\* What a thread's step at its own job leaves alone.
quiet == <<runs, held, removed>>

TakeFolder(w) ==
    LET r == RunOf[w] IN
    /\ At(w, "free") /\ ~cancelled[r]
    /\ \E folder \in queue[r] :
          /\ queue' = [queue EXCEPT ![r] = @ \ {folder}]
          \* A folder left out is invisible: nothing to do in it.
          /\ IF Excluded(folder, skips[r]) THEN UNCHANGED job
             ELSE Becomes(w, [job[w] EXCEPT !.at = "local", !.folder = folder])
    /\ UNCHANGED <<world, store, on, snap, skips, next, cancelled, held, faults, removed, calm,
                   budget>>

\* read_dir of the folder; an empty root with enough on record is not believed.
ReadLocal(w) ==
    LET r      == RunOf[w]
        folder == job[w].folder
        found  == Listing(tree["here"], folder, skips[r])
        empty  == folder = Root /\ found = Bare /\ Tracked(snap[r], skips[r]) >= EmptyRootMin
    IN  /\ At(w, "local") /\ There(tree["here"], folder)
        /\ Becomes(w, [job[w] EXCEPT !.at = "remote", !.seen = found, !.whole = ~empty])
        /\ calm' = (calm /\ ~empty)
        /\ UNCHANGED <<world, store, quiet, faults, budget>>

\* It cannot be read, breaks off half way, or is not there: no deletions.
ReadLocalBlind(w) ==
    LET folder == job[w].folder IN
    /\ At(w, "local")
    /\ IF There(tree["here"], folder)
       THEN /\ Fault("blind")
            /\ \E missed \in {Children(folder)} \cup {{x} : x \in Children(folder)} :
                  Becomes(w, [job[w] EXCEPT
                      !.at = "remote", !.whole = FALSE,
                      !.seen = Cut(Listing(tree["here"], folder, skips[RunOf[w]]), missed)])
       ELSE /\ UNCHANGED faults
            /\ Becomes(w, [job[w] EXCEPT !.at = "remote", !.whole = FALSE, !.seen = Bare])
    /\ calm' = FALSE
    /\ UNCHANGED <<world, store, quiet, budget>>

\* (Slip) A folder counts for nothing.
FilesToDelete(P, op, rec) == {g \in Files : P[g].op = op}
\* planned_delete_sets: a folder counts as the files the baseline holds under it.
ToDelete(P, op, rec) ==
    (UNION {Within(rec, d) : d \in {x \in Dirs : P[x].op = op}})
        \cup {g \in Files : P[g].op = op}
PlannedDeletes(P, rec) ==
    {<<"here", g>> : g \in ToDelete(P, "deleteLocal", rec)}
        \cup {<<"there", g>> : g \in ToDelete(P, "deleteRemote", rec)}
Without(P) == [x \in Items |-> IF P[x].op \in Deletes THEN Verdict("none", P[x].row) ELSE P[x]]
Todo(P) == {x \in Items : P[x].op \in Deletes \cup Makes} \ backoff

\* The direct children of the folder, decided from the run's snapshot.
Decided(w, there) ==
    LET rec == Listing(snap[RunOf[w]], job[w].folder, skips[RunOf[w]]) IN
    [x \in Items |-> IF x \in Children(job[w].folder)
                     THEN Judge(EntryAt(job[w].seen, x), EntryAt(there, x), EntryAt(rec, x), C)
                     ELSE Verdict("none", Nil)]

\* Deletions need a whole view of both sides.
SeenWhole(w, listed) == job[w].whole /\ listed

PlanFolder(w, there, listed) ==
    LET r == RunOf[w]
        found == Decided(w, there)
        P == IF SeenWhole(w, listed) THEN found ELSE Without(found)
        asked == Cardinality(PlannedDeletes(P, snap[r]))
        asks  == asked > 0 /\ Guarded(r)
    IN  /\ At(w, "remote")
        /\ Becomes(w, [job[w] EXCEPT !.at = IF asks THEN "reserve" ELSE "apply",
                                     !.kids = job[w].seen.d \cup there.d,
                                     !.plan = P, !.todo = Todo(P)])
        /\ IF asks THEN Reserve(w, asked) ELSE UNCHANGED budget
        /\ UNCHANGED <<world, store, quiet>>

\* One listing of the remote folder.
ListRemote(w) ==
    /\ There(tree["there"], job[w].folder)
    /\ PlanFolder(w, Listing(tree["there"], job[w].folder, skips[RunOf[w]]), TRUE)
    /\ UNCHANGED <<faults, calm>>

\* It is not found, or the listing fails.
ListRemoteFails(w) ==
    /\ There(tree["there"], job[w].folder) => Fault("unlisted")
    /\ ~There(tree["there"], job[w].folder) => UNCHANGED faults
    /\ PlanFolder(w, Bare, FALSE)
    /\ calm' = FALSE

InReserve(w) == /\ At(w, "reserve") /\ pc[w] # "idle" /\ Answer(w)
                /\ UNCHANGED <<world, store, quiet, job, faults, calm>>

\* reserve has returned.
Granted(w) ==
    /\ At(w, "reserve") /\ pc[w] = "idle" /\ answer[w] = "granted"
    /\ Becomes(w, [job[w] EXCEPT !.at = "apply"])
    /\ UNCHANGED <<world, store, quiet, faults, calm, budget>>

HeldBack(w) ==
    LET r == RunOf[w]
        P == Without(job[w].plan)
    IN  /\ At(w, "reserve") /\ pc[w] = "idle" /\ answer[w] = "refused"
        /\ Becomes(w, [job[w] EXCEPT !.at = "apply", !.plan = P, !.todo = Todo(P)])
        /\ held' = [held EXCEPT ![r] = @ \cup PlannedDeletes(job[w].plan, snap[r])]
        /\ calm' = FALSE
        /\ UNCHANGED <<world, store, runs, faults, removed, budget>>

-----------------------------------------------------------------------------
(* apply: folders made, uploads, deletions, and last the downloads; what is  *)
(* in backoff is left out; then the commit.                                  *)

Rank(op) == CASE op \in {"mkdirLocal", "mkdirRemote"} -> 0
              [] op = "upload" -> 1 [] op \in Deletes -> 2 [] op = "download" -> 3

Takes(w, x, op) ==
    /\ At(w, "apply") /\ ~cancelled[RunOf[w]]
    /\ x \in job[w].todo /\ OpOf(w, x) = op
    /\ \A y \in job[w].todo : Rank(OpOf(w, y)) >= Rank(op)
Succeeds(w, x) ==
    Becomes(w, [job[w] EXCEPT !.at = "apply", !.todo = @ \ {x}, !.done = @ \cup {x},
                              !.gone = IF OpOf(w, x) \in Deletes THEN @ \cup {x} ELSE @])
Grow(side, t) == tree' = [tree EXCEPT ![side] = t]
Bin(side, files) ==
    trash' = [trash EXCEPT ![side] =
                 [g \in Files |-> IF g \in files THEN tree[side].f[g] ELSE @[g]]]
Remove(w, side, x) ==
    LET files == Within(tree[side], x) IN
    /\ Grow(side, Cut(tree[side], Subtree(x)))
    /\ Bin(side, files)
    /\ removed' = [removed EXCEPT ![RunOf[w]] = @ \cup {<<side, g>> : g \in files}]
    /\ UNCHANGED outer

MakeFolder(w, d) ==
    /\ \/ Takes(w, d, "mkdirLocal") /\ Grow("here", Made(tree["here"], d))
       \/ Takes(w, d, "mkdirRemote") /\ Grow("there", Made(tree["there"], d))
    /\ Succeeds(w, d)
    /\ UNCHANGED <<trash, outer, store, quiet, faults, calm, budget>>

\* Sends what the file holds now, making its folder first.
Upload(w, g) ==
    /\ Takes(w, g, "upload") /\ tree["here"].f[g] # 0
    /\ Grow("there", Put(tree["there"], g, tree["here"].f[g]))
    /\ Bin("there", Within(tree["there"], g))
    /\ Succeeds(w, g)
    /\ UNCHANGED <<outer, store, quiet, faults, calm, budget>>

\* The file is as the thread saw it.
Untouched(w, g) == tree["here"].f[g] = job[w].seen.f[g]

\* Installs the version that was listed, in place of the file that was seen.
Download(w, g) ==
    /\ Takes(w, g, "download")
    /\ tree["there"].f[g] = job[w].plan[g].row.v /\ Untouched(w, g)
    /\ Grow("here", Put(tree["here"], g, tree["there"].f[g]))
    /\ Succeeds(w, g)
    /\ UNCHANGED <<trash, outer, store, quiet, faults, calm, budget>>

DeleteFile(w, g) ==
    \E op \in Deletes :
        /\ Takes(w, g, op) /\ g \in Files
        /\ op = "deleteRemote" => tree["there"].f[g] # 0
        /\ Remove(w, Side(op), g)
        /\ Succeeds(w, g)
        /\ UNCHANGED <<store, runs, held, faults, calm, budget>>

\* (Slip) Names are compared, not contents.
KnownInsideByName(side, d, ex) ==
    Under(d) \cap ex = {} /\ \A g \in Within(tree[side], d) : rows.f[g] # 0

\* (Slip) What is left out is passed over, not kept.
KnownInsideButExcluded(side, d, ex) ==
    \A g \in Within(tree[side], d) : Excluded(g, ex) \/ rows.f[g] = tree[side].f[g]

\* folder_delete_hazard: nothing in it is left out; every file has its row, unchanged.
KnownInside(side, d, ex) ==
    Under(d) \cap ex = {} /\ \A g \in Within(tree[side], d) : rows.f[g] = tree[side].f[g]

CheckFolder(w, d) ==
    \E op \in Deletes :
        /\ Takes(w, d, op) /\ d \in Dirs
        /\ There(tree[Side(op)], d) /\ KnownInside(Side(op), d, skips[RunOf[w]])
        /\ Becomes(w, [job[w] EXCEPT !.at = "remove", !.doomed = d])
        /\ UNCHANGED <<world, store, quiet, faults, calm, budget>>

\* The folder stays, or cannot be looked through: neither done nor failed.
KeepFolder(w, d) ==
    \E op \in Deletes :
        /\ Takes(w, d, op) /\ d \in Dirs
        /\ IF There(tree[Side(op)], d) /\ KnownInside(Side(op), d, skips[RunOf[w]])
           THEN Fault("unlisted") ELSE UNCHANGED faults
        /\ Becomes(w, [job[w] EXCEPT !.todo = @ \ {d}])
        /\ calm' = FALSE
        /\ UNCHANGED <<world, store, quiet, budget>>

RemoveFolder(w) ==
    LET d == job[w].doomed IN
    /\ At(w, "remove")
    /\ Remove(w, Side(OpOf(w, d)), d)
    /\ Becomes(w, [job[w] EXCEPT !.at = "apply", !.doomed = Nil, !.todo = @ \ {d},
                                 !.done = @ \cup {d}, !.gone = @ \cup {d}])
    /\ UNCHANGED <<store, runs, held, faults, calm, budget>>

\* What cannot work: the file has gone, is not what was listed, or was edited here; the
\* remote folder was known to exist, and exists no more.
Hopeless(w, x) ==
    CASE OpOf(w, x) = "upload" -> \/ tree["here"].f[x] = 0
                                  \/ ~There(tree["there"], Parent[x])
      [] OpOf(w, x) = "download" -> \/ tree["there"].f[x] # job[w].plan[x].row.v
                                    \/ ~Untouched(w, x)
      [] OpOf(w, x) = "deleteRemote" -> x \in Files /\ tree["there"].f[x] = 0
      [] OTHER -> FALSE

OpFails(w, x) ==
    /\ Takes(w, x, OpOf(w, x))
    /\ Fault("opFails") \/ (Hopeless(w, x) /\ UNCHANGED faults)
    /\ Becomes(w, [job[w] EXCEPT !.todo = @ \ {x}, !.failed = @ \cup {x}])
    /\ calm' = FALSE
    /\ UNCHANGED <<world, store, quiet, budget>>

\* The rows of what was done, and of what needed nothing.
Confirmed(w, x) == /\ job[w].plan[x].row # Nil
                   /\ OpOf(w, x) \in Makes => x \in job[w].done

\* prune_excluded: the rows of the folder's children that are left out, not of what is in
\* them.
Pruned(w) == LET r == RunOf[w] IN
             {x \in Children(job[w].folder) \cap (Filed(snap[r]) \cup snap[r].d) :
                 Excluded(x, skips[r])}

Commit(w) ==
    /\ At(w, "apply")
    /\ job[w].todo = {} \/ cancelled[RunOf[w]]
    /\ LET kept == Cut(rows, job[w].gone \cup Pruned(w)) IN
       rows' = [f |-> [g \in Files |-> IF Confirmed(w, g) /\ g \notin job[w].gone
                                       THEN job[w].plan[g].row.v ELSE kept.f[g]],
                d |-> kept.d \cup {d \in Dirs : Confirmed(w, d)}]
    /\ backoff' = (backoff \cup job[w].failed) \ job[w].done
    /\ Becomes(w, [job[w] EXCEPT !.at = "purge"])
    /\ UNCHANGED <<world, quiet, faults, calm, budget>>

\* (Slip) The folders of this side alone are gone into.
KidsHere(w) == job[w].seen.d \ job[w].gone

\* The folders to go into next: those on either side, but for those removed.
Kids(w) == job[w].kids \ job[w].gone

\* A second transaction drops the snapshot's rows below the folders removed.
Purge(w) ==
    LET r == RunOf[w]
        below == UNION {Under(d) : d \in job[w].gone \cap Dirs}
        known == Filed(snap[r]) \cup snap[r].d
    IN  /\ At(w, "purge")
        /\ rows' = Cut(rows, below \cap known)
        /\ next' = [next EXCEPT ![r] = IF r = "walk" THEN @ \cup Kids(w) ELSE @]
        /\ Becomes(w, Free)
        /\ UNCHANGED <<world, backoff, on, snap, skips, queue, cancelled, held, faults, removed,
                       calm, budget>>

Cancel(r) ==
    /\ on[r] /\ ~cancelled[r] /\ Fault("cancel")
    /\ cancelled' = [cancelled EXCEPT ![r] = TRUE]
    /\ calm' = FALSE
    /\ UNCHANGED <<world, store, on, snap, skips, queue, next, held, job, removed, budget>>

Crash ==
    /\ \E r \in Runs : on[r]
    /\ Fault("crash")
    /\ on' = [r \in Runs |-> FALSE] /\ cancelled' = [r \in Runs |-> FALSE]
    /\ snap' = [r \in Runs |-> Bare] /\ skips' = [r \in Runs |-> {}]
    /\ queue' = [r \in Runs |-> {}] /\ next' = [r \in Runs |-> {}]
    /\ held' = [r \in Runs |-> {}]
    /\ job' = [w \in Workers |-> Free]
    /\ removed' = [r \in Runs |-> {}]
    /\ calm' = FALSE
    /\ Lost
    /\ UNCHANGED <<world, store>>

BackoffElapses(x) ==
    /\ x \in backoff
    /\ backoff' = backoff \ {x}
    /\ calm' = FALSE
    /\ UNCHANGED <<world, rows, runs, held, job, faults, removed, budget>>

-----------------------------------------------------------------------------
(* The user here, and the other devices there.  Nothing comes between the    *)
(* look through a folder and its removal.                                    *)

Undisturbed == <<store, runs, held, job, faults, removed, budget>>
MayMove(kind, side) ==
    /\ <<kind, side>> \in Moves
    /\ Troubled /\ moves > 0 /\ moves' = moves - 1
    /\ MidRun \/ \A r \in Runs : ~on[r]
    /\ \A w \in Workers : job[w].at # "remove"
    /\ calm' = FALSE

\* A new file, or a new version of one, in a folder that is made if need be.
Edit(side, g) ==
    /\ MayMove("edit", side) /\ clock < MaxClock
    /\ Grow(side, Put(tree[side], g, clock + 1))
    /\ clock' = clock + 1
    /\ discarded' = discarded \cup ({tree[side].f[g]} \ {0})
    /\ UNCHANGED <<trash, excludes, dismissed, restored, spared, Undisturbed>>

Drop(side, x) ==
    /\ Grow(side, Cut(tree[side], Subtree(x)))
    /\ Bin(side, Within(tree[side], x))
    /\ LET gone == {tree[side].f[g] : g \in Within(tree[side], x)} IN
       /\ dismissed' = dismissed \cup gone
       /\ restored' = restored \ gone
       /\ spared' = spared \ gone
    /\ UNCHANGED <<clock, excludes, discarded, Undisturbed>>

\* A file, or a folder with all that is in it.
Dismiss(side, x) ==
    /\ MayMove("delete", side)
    /\ IF x \in Dirs THEN x \in tree[side].d ELSE tree[side].f[x] # 0
    /\ Drop(side, x)

\* A file comes back from the trash, with its modification time.
Restore(side, g) ==
    /\ MayMove("restore", side)
    /\ trash[side][g] # 0 /\ tree[side].f[g] = 0
    /\ Grow(side, Put(tree[side], g, trash[side][g]))
    /\ trash' = [trash EXCEPT ![side][g] = 0]
    /\ restored' = restored \cup {trash[side][g]}
    /\ UNCHANGED <<clock, excludes, discarded, dismissed, spared, Undisturbed>>

\* The exclude editor leaves a folder out, or takes it in again; the next run reads it.
Exclude(d) ==
    /\ MayMove("exclude", "here") /\ ~Excluded(d, excludes)
    /\ excludes' = excludes \cup {d}
    /\ UNCHANGED <<tree, trash, clock, past, Undisturbed>>

Include(d) ==
    /\ MayMove("include", "here") /\ d \in excludes
    /\ excludes' = excludes \ {d}
    /\ UNCHANGED <<tree, trash, clock, past, Undisturbed>>

\* "Remove them from this computer to free up space? Your Proton copy stays untouched, and
\* they re-download if you include them again."
FreeUp(d) ==
    /\ MayMove("freeUp", "here") /\ d \in excludes \cap tree["here"].d
    /\ Drop("here", d)

-----------------------------------------------------------------------------
StartTree == [f |-> Start, d |-> Dirs]

Init ==
    /\ tree = [s \in Sides |-> StartTree] /\ trash = [s \in Sides |-> [g \in Files |-> 0]]
    /\ rows = StartTree /\ backoff = {}
    /\ on = [r \in Runs |-> FALSE] /\ snap = [r \in Runs |-> Bare]
    /\ queue = [r \in Runs |-> {}] /\ next = [r \in Runs |-> {}]
    /\ cancelled = [r \in Runs |-> FALSE]
    /\ held = [r \in Runs |-> {}]
    /\ job = [w \in Workers |-> Free]
    /\ clock = Cardinality(Filed(StartTree)) /\ faults = MaxFaults /\ moves = MaxMoves
    /\ removed = [r \in Runs |-> {}]
    /\ excludes = {} /\ skips = [r \in Runs |-> {}]
    /\ discarded = {} /\ dismissed = {} /\ restored = {} /\ spared = {} /\ calm = FALSE
    /\ BudgetInit

RunStep(r) == NextLevel(r) \/ End(r)
Thread(w) ==
    \/ TakeFolder(w) \/ ReadLocal(w) \/ ReadLocalBlind(w)
    \/ ListRemote(w) \/ ListRemoteFails(w) \/ InReserve(w) \/ Granted(w) \/ HeldBack(w)
    \/ RemoveFolder(w) \/ Commit(w) \/ Purge(w)
    \/ \E d \in Dirs : MakeFolder(w, d) \/ CheckFolder(w, d) \/ KeepFolder(w, d)
    \/ \E g \in Files : Upload(w, g) \/ Download(w, g) \/ DeleteFile(w, g)
    \/ \E x \in Items : OpFails(w, x)
Engine == StartWalk \/ StartBurst \/ (\E r \in Runs : RunStep(r)) \/ \E w \in Workers : Thread(w)
Environment ==
    \/ Crash \/ (\E r \in Runs : Cancel(r)) \/ (\E x \in Items : BackoffElapses(x))
    \/ \E d \in Dirs : Exclude(d) \/ Include(d) \/ FreeUp(d)
    \/ \E side \in Sides : \/ \E g \in Files : Edit(side, g) \/ Restore(side, g)
                           \/ \E x \in Items : Dismiss(side, x)
Next == Engine \/ Environment
Spec == Init /\ [][Next]_vars

-----------------------------------------------------------------------------
(* Properties.                                                               *)

Jobs == [at : {"free", "local", "remote", "reserve", "apply", "remove", "purge"},
         folder : Folders, seen : Trees, whole : BOOLEAN, kids : SUBSET Dirs,
         plan : [Items -> [op : Ops, row : Entries \cup {Nil}]],
         todo : SUBSET Items, done : SUBSET Items, gone : SUBSET Items,
         failed : SUBSET Items, doomed : Dirs \cup {Nil}]

TypeOK ==
    /\ tree \in [Sides -> Trees] /\ trash \in [Sides -> [Files -> 0..MaxClock]]
    /\ rows \in Trees /\ backoff \subseteq Items
    /\ on \in [Runs -> BOOLEAN] /\ snap \in [Runs -> Trees]
    /\ queue \in [Runs -> SUBSET Folders] /\ next \in [Runs -> SUBSET Dirs]
    /\ cancelled \in [Runs -> BOOLEAN]
    /\ held \in [Runs -> SUBSET (Sides \X Files)]
    /\ job \in [Workers -> Jobs]
    /\ clock \in 0..MaxClock /\ faults \in 0..MaxFaults /\ moves \in 0..MaxMoves
    /\ removed \in [Runs -> SUBSET (Sides \X Files)]
    /\ excludes \subseteq Dirs /\ skips \in [Runs -> SUBSET Dirs]
    /\ discarded \cup dismissed \cup restored \cup spared \subseteq Versions
    /\ calm \in BOOLEAN
    /\ BudgetTypeOK

\* No deletion that was held back is then made piecemeal by the same run, folder by folder
\* as it goes into the tree it did not delete: "it and every later one in the run is refused
\* (the deletions are held back, the transfers carry on)".
HeldStays == \A r \in Runs : removed[r] \cap held[r] = {}

\* A run deletes no more files than it may, counted as they are really deleted: the threads'
\* requests add up, and a folder takes no more with it than was asked for.
WithinAllowance == \A r \in Runs : Guarded(r) => Cardinality(removed[r]) <= Allowed

\* The guard against mass deletions, over a whole run: what it lets through is within the
\* allowance, and what it holds back stays.
GuardHolds == HeldStays /\ WithinAllowance

Alive == UNION {Live(s) : s \in Sides}

\* The runs remove the last copy in the two trees only of a version that somebody replaced,
\* or deleted and has not brought back.
Retired == Alive \ Alive'
OnlyDismissedRetire == [][Retired \subseteq discarded' \cup (dismissed' \ restored')]_vars

\* Whatever comes while the runs are in flight, no folder takes along a version that nobody
\* had ever deleted or replaced: nothing in it was unseen.
FoldersTakeOnlyDismissed ==
    [][(\E w \in Workers : job[w].at = "remove" /\ job'[w] # job[w])
          => Retired \subseteq discarded' \cup dismissed']_vars

\* What the run was told to leave out it leaves alone on both sides, even when all of the
\* folder around it is to be deleted.
ExcludedIsLeftAlone ==
    [][\A w \in Workers, s \in Sides, x \in Items :
           (job'[w] # job[w] /\ Excluded(x, skips[RunOf[w]])) =>
               EntryAt(tree'[s], x) = EntryAt(tree[s], x)]_vars

\* "Re-including a folder later re-downloads it from the cloud, so excluding can never delete
\* remote data": what was removed here to free space, and left out by a walk since, the runs do
\* not remove there as well.
ReIncludeRedownloads ==
    [][Retired \cap spared' \subseteq discarded']_vars

\* Both sides have changed the file; conflict = "skip" leaves it alone.
Contested(g) == tree["here"].f[g] # rows.f[g] /\ tree["there"].f[g] # rows.f[g]

\* A walk that nothing disturbed has gone through the whole tree, however the threads took
\* turns: both sides hold the same folders and files, but for those left out.
CalmWalkAgrees ==
    [][calm' /\ on["walk"] /\ ~on'["walk"] /\ ~cancelled["walk"] /\ backoff = {} =>
          \A x \in Items : \/ Excluded(x, skips["walk"])
                           \/ x \in Files /\ Contested(x)
                           \/ EntryAt(tree["here"], x) = EntryAt(tree["there"], x)]_vars

\* The runs, whatever their threads do, implement DeleteBudget: what holds of the allowance
\* there holds of every run, and no folder starts it afresh.
BudgetIsShared == BudgetSpec
=============================================================================
