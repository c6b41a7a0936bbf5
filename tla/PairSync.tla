------------------------------ MODULE PairSync ------------------------------
(***************************************************************************)
(* One folder pair and the whole-pair run of src/engine.rs                 *)
(* (sync_pair_scoped with no scope): scan here, list there, plan, carry    *)
(* out the operations one by one, commit the baseline, store the retry     *)
(* state - while the user and other devices change both sides, listings    *)
(* fail, operations fail or take effect and still report failure, and the  *)
(* process is cancelled or killed between any two steps.                   *)
(*                                                                         *)
(* The tree is flat, files only: the tree of folders is FolderRuns'.       *)
(***************************************************************************)
EXTENDS Merge, FiniteSets

CONSTANTS
    Paths,            \* relative paths of the pair
    CopyPaths,        \* those kept for conflict copies (the bound on copies)
    Start,            \* content both sides hold of each path at first, or Nil
    MaxClock,         \* bound on the versions ever written
    C,                \* the merge's settings (see Merge)
    LocalDelete,      \* Config::local_delete
    RemoteDigests,    \* whether listings carry claimedDigests
    MaxDeleteFiles,   \* Config::max_delete_files
    MaxDeletePercent, \* Config::max_delete_percent
    EmptyRootMin,     \* EMPTY_ROOT_MIN_FILES
    Faults,           \* kinds of fault that may happen
    MaxFaults,        \* bound on how many do
    Moves,            \* what the user and the other devices do
    MidRun            \* whose edits may come while a run is in flight

FaultKinds == {"blind", "carried", "emptyRoot", "unlisted", "rootMissing", "listFails",
               "opFails", "timeout", "commitFails", "cancel", "crash"}
MoveKinds == {"localEdit", "localDelete", "localRestore", "localRename",
              "remoteEdit", "remoteDelete", "remoteRestore", "remoteRename",
              "exclude", "resync", "confirm"}

File == [v : Versions, t : Nat]

ASSUME PairSyncAssumption ==
    /\ MaxClock \in Nat /\ Versions = 1..MaxClock
    /\ IsFiniteSet(Paths) /\ CopyPaths \subseteq Paths
    /\ Start \in [Paths -> Versions \cup {Nil}]
    /\ {Start[p] : p \in Paths} \ {Nil} = 1..Cardinality({p \in Paths : Start[p] # Nil})
    /\ Cardinality({p \in Paths : Start[p] # Nil}) <= MaxClock
    /\ C \in Settings
    /\ LocalDelete \in {"trash", "remove"}
    /\ RemoteDigests \in BOOLEAN
    /\ MaxDeleteFiles \in Nat /\ MaxDeletePercent \in 0..100
    /\ EmptyRootMin \in Nat /\ MaxFaults \in Nat
    /\ Faults \subseteq FaultKinds /\ Moves \subseteq MoveKinds
    /\ MidRun \subseteq {"local", "remote", "window"}
    /\ Nil \notin Paths \cup Versions \cup File

VARIABLES
    local, remote,           \* what each side holds at each path
    localTrash, remoteTrash, \* what can be restored there: <<path, file>>
    base, backoff,           \* the stats database: baseline rows, paths in retry backoff
    excluded,                \* Pair::exclude
    clock, faults,           \* versions written so far, faults still to come
    pc, mode,                \* where the run is; normal, resync or confirmed
    seen, blind,             \* the local scan, and whether it missed something
    plan,                    \* the operation and prospective row of each path
    todo, done, gone, failed,\* paths with an operation left; completed; rows to drop; failed
    copyOf, staged,          \* conflicts and downloads in flight
    cancelled,
    truth,                   \* history: both trees as they were when scanned
    discarded, dismissed,    \* history: versions their author replaced, versions deleted
    apart                    \* history: paths a run committed as excluded, not synced since

world  == <<local, remote, localTrash, remoteTrash>>
store  == <<base, backoff>>
input  == <<mode, seen, blind>>
work   == <<todo, done, gone, failed, copyOf, staged>>
history == <<discarded, dismissed, apart>>
vars   == <<world, store, excluded, clock, faults, pc, input, plan, work, cancelled,
            truth, history>>

Tree == [Paths -> File \cup {Nil}]
FileEntries == [dir : {FALSE}, v : Versions, t : Nat, h : BOOLEAN]
Rows == [Paths -> FileEntries \cup {Nil}]
NoTree == [p \in Paths |-> Nil]

LocalOps   == {"download", "renameLocal", "deleteLocal"}
RemoteOps  == {"upload", "renameRemote", "deleteRemote"}
Deletes    == {"deleteLocal", "deleteRemote"}
Renames    == {"renameLocal", "renameRemote"}
Executed   == LocalOps \cup RemoteOps \cup {"conflict"}
\* Operations whose row waits for their success (apply's `pending`).
Pending    == Executed \ Deletes
Planned == [op : Executed \cup {"none", "noop", "skip", "clash"},
            row : FileEntries \cup {Nil}, from : Paths \cup {Nil}]
Modes == {"normal", "resync", "confirmed"}
Idle == [op |-> "none", row |-> Nil, from |-> Nil]
NoPlan == [p \in Paths |-> Idle]
Staged == [f : File, at : {"fetched", "checked", "installed"}]

-----------------------------------------------------------------------------
(* What the scans report.                                                    *)

AsEntry(f, hashed) == [dir |-> FALSE, v |-> f.v, t |-> f.t, h |-> hashed]

\* scan_local: in sha1 mode a file that still has its row's size and time is not
\* read again, the row's digest stands for it.
LocalEntry(f, row) ==
    IF /\ C.compare = "sha1" /\ row # Nil /\ row.h
       /\ Size[row.v] = Size[f.v] /\ row.t = f.t
    THEN row
    ELSE AsEntry(f, C.compare = "sha1")

\* (Slip) A resync that keeps the old rows.
KnownAlways == base

\* A resync starts from no row at all.
Known == IF mode = "resync" THEN NoTree ELSE base
Tracked(rows) == Cardinality({p \in Paths \ excluded : rows[p] # Nil})

ScannedLocal(miss, carried, rows) ==
    [p \in Paths |-> IF p \in excluded \cup miss \/ local[p] = Nil THEN Nil
                     ELSE IF p \in carried THEN rows[p]
                     ELSE LocalEntry(local[p], rows[p])]

ScannedRemote(miss) ==
    [p \in Paths |-> IF p \in excluded \cup miss \/ remote[p] = Nil THEN Nil
                     ELSE AsEntry(remote[p], RemoteDigests)]

-----------------------------------------------------------------------------
(* Planning.                                                                 *)

\* (Slip) Size alone taken for a match.
RenameMatchBySize(a, b) == Size[a.v] = Size[b.v]

\* is_rename_match
RenameMatch(a, b) ==
    /\ Size[a.v] = Size[b.v]
    /\ IF a.h /\ b.h THEN a.v = b.v ELSE a.t # NoTime /\ b.t # NoTime /\ a.t = b.t

\* detect_renames: a delete and a create on one side that hold one content, confirmed
\* by hashing the local file when the remote listed a digest.
HashesTo(p, e) == e.h => local[p] # Nil /\ local[p].v = e.v
RenamedHere(V, rv) ==
    {m \in Paths \X Paths :
        /\ V[m[1]].op = "deleteRemote" /\ V[m[2]].op = "upload"
        /\ RenameMatch(Known[m[1]], seen[m[2]])
        /\ HashesTo(m[2], rv[m[1]])}
RenamedThere(V, rv) ==
    {m \in Paths \X Paths :
        /\ V[m[1]].op = "deleteLocal" /\ V[m[2]].op = "download"
        /\ RenameMatch(Known[m[1]], rv[m[2]])
        /\ HashesTo(m[1], rv[m[2]])}
Share(m, n) == m[1] = n[1] \/ m[2] = n[2]
\* The ways of pairing them off; which one depends on the order of the names.
Matchings(S) == {M \in SUBSET S : /\ \A m, n \in M : m # n => ~Share(m, n)
                                  /\ \A m \in S : \E n \in M : Share(m, n)}
WithRenames(V, M) ==
    [p \in Paths |->
        IF \E m \in M : m[2] = p
        THEN [op   |-> IF V[p].op = "upload" THEN "renameRemote" ELSE "renameLocal",
              row  |-> V[p].row,
              from |-> (CHOOSE m \in M : m[2] = p)[1]]
        ELSE IF \E m \in M : m[1] = p THEN Idle
        ELSE [op |-> V[p].op, row |-> V[p].row, from |-> Nil]]

\* DeleteBudget::new: no guard when the deletion was confirmed, or when the pair
\* tracks no more than a run may delete.
Larger(a, b) == IF a >= b THEN a ELSE b
Allowance == Larger(MaxDeleteFiles, (Tracked(base) * MaxDeletePercent) \div 100)
Guarded == mode = "normal" /\ C.propagate /\ Allowance < Tracked(base)

\* (Slip) Only the remote's files counted.
PlannedDeletesThere(V) == {p \in Paths : V[p].op = "deleteRemote"}

\* planned_delete_sets: both sides' files.
PlannedDeletes(V) == {p \in Paths : V[p].op \in Deletes}
OverBudget(V) == Guarded /\ Cardinality(PlannedDeletes(V)) > Allowance

Without(V, ops) == [p \in Paths |-> IF V[p].op \in ops THEN Idle ELSE V[p]]

\* (Slip) Failed listings forgotten.
IncompleteHere(missed, noRoot) == blind

\* Why a run may see less than there is, and so must not delete.
Incomplete(missed, noRoot) ==
    \/ missed \/ blind
    \/ mode # "resync" /\ seen = NoTree /\ Tracked(base) >= EmptyRootMin
    \/ mode # "resync" /\ noRoot /\ base # NoTree

\* The verdict of every path (plan's loop over the keys).
Verdicts(rv) == [p \in Paths |-> IF p \in excluded THEN Verdict("none", Nil)
                                 ELSE Judge(seen[p], rv[p], Known[p], C)]

-----------------------------------------------------------------------------
(* The run.                                                                  *)

Fault(kind) == kind \in Faults /\ faults > 0 /\ faults' = faults - 1

Reset == /\ pc' = "idle" /\ mode' = "normal" /\ seen' = NoTree /\ blind' = FALSE
         /\ plan' = NoPlan /\ todo' = {} /\ done' = {} /\ gone' = {} /\ failed' = {}
         /\ copyOf' = NoTree /\ staged' = NoTree /\ cancelled' = FALSE
         /\ truth' = [l |-> NoTree, r |-> NoTree]

\* plan, first half: load the baseline and scan the local folder.
Scan(m, miss, carried, isBlind) ==
    /\ pc = "idle"
    /\ m = "resync" => "resync" \in Moves
    /\ m = "confirmed" => "confirm" \in Moves
    /\ pc' = "listing"
    /\ mode' = m
    /\ seen' = ScannedLocal(miss, carried, IF m = "resync" THEN NoTree ELSE base)
    /\ blind' = isBlind
    /\ truth' = [truth EXCEPT !.l = local]
    /\ UNCHANGED <<world, store, excluded, clock, plan, work, cancelled, history>>

ScanLocal(m) == Scan(m, {}, {}, FALSE) /\ UNCHANGED faults
\* Some folder could not be opened.
ScanLocalBlind(m) ==
    /\ Fault("blind")
    /\ \E miss \in (SUBSET Paths) \ {{}} : Scan(m, miss, {}, TRUE)
\* Some tracked files could not be stat-ed, or are symlinks now.
ScanLocalCarried(m) ==
    /\ Fault("carried")
    /\ \E carried \in (SUBSET Paths) \ {{}} : Scan(m, {}, carried, FALSE)
\* The root came back empty: an unmounted drive's mount point.
ScanEmptyRoot(m) == Fault("emptyRoot") /\ Scan(m, Paths, {}, FALSE)

\* plan, second half: list the remote, decide every path, find the renames, apply the
\* deletion guard; sync_pair_scoped then drops what a partial view may not do, and
\* apply leaves out the paths in backoff.
Plan(miss, noRoot) ==
    LET rv == ScannedRemote(IF noRoot THEN Paths ELSE miss)
        V  == Verdicts(rv)
        partial == Incomplete(miss # {}, noRoot)
        Pairs == IF partial THEN {} ELSE RenamedHere(V, rv) \cup RenamedThere(V, rv)
    IN  /\ pc = "listing"
        /\ \E M \in Matchings(Pairs) :
             LET W == WithRenames(V, M)
                 P == Without(W, IF partial THEN Deletes \cup Renames
                                 ELSE IF OverBudget(W) THEN Deletes ELSE {})
             IN  /\ plan' = P
                 /\ todo' = {p \in Paths : P[p].op \in Executed} \ backoff
                 /\ pc' = IF \E p \in Paths : P[p].op \in {"upload", "conflict"}
                          THEN "base" ELSE "apply"
        /\ truth' = [truth EXCEPT !.r = remote]
        /\ UNCHANGED <<world, store, excluded, clock, input, done, gone, failed, copyOf,
                       staged, cancelled, history>>

ListAndPlan == Plan({}, FALSE) /\ UNCHANGED faults
ListPartly == /\ Fault("unlisted")
              /\ \E miss \in (SUBSET Paths) \ {{}} : Plan(miss, FALSE)
ListRootMissing == Fault("rootMissing") /\ Plan({}, TRUE)
\* The listing as a whole failed: the run ends with an error.
ListFails == /\ pc = "listing" /\ Fault("listFails") /\ Reset
             /\ UNCHANGED <<world, store, excluded, clock, history>>

\* apply: the pair's remote folder first, when something needs it.
EnsureBase == /\ pc = "base" /\ pc' = "apply"
              /\ UNCHANGED <<world, store, excluded, clock, faults, input, plan, work,
                             cancelled, truth, history>>
EnsureBaseFails == /\ pc = "base" /\ Fault("opFails") /\ Reset
                   /\ UNCHANGED <<world, store, excluded, clock, history>>

-----------------------------------------------------------------------------
(* apply: everything but the downloads in order_key order, then the          *)
(* downloads, concurrently.                                                  *)

Rank(p) == IF plan[p].op \in Deletes THEN 2 ELSE 1
Rest == {p \in todo : plan[p].op # "download"}
InFlight == {p \in Paths : staged[p] # Nil \/ copyOf[p] # Nil}

Takes(p, op) == /\ pc = "apply" /\ ~cancelled
                /\ p \in Rest /\ plan[p].op = op
                /\ InFlight = {}
                /\ \A q \in Rest : Rank(q) >= Rank(p)

Succeeded(p, rows) == /\ done' = done \cup {p}
                      /\ gone' = gone \cup rows
                      /\ todo' = todo \ {p}
                      /\ UNCHANGED <<failed, faults>>
Failed(p) == /\ failed' = failed \cup {p}
             /\ todo' = todo \ {p}
             /\ UNCHANGED <<done, gone>>
\* The remote did it, and the command was killed or lost its answer.
TimedOut(p) == Fault("timeout") /\ Failed(p)
Outcome(p, rows) == Succeeded(p, rows) \/ TimedOut(p)

steady == <<store, excluded, clock, pc, input, cancelled, truth, history>>

\* (Slip) The trash told of a file that is not there.
ReplacedAlways(tree, p) == {<<p, tree[p]>>}

\* What the remote trash receives when `p` is written over.
Replaced(tree, p) == IF tree[p] = Nil THEN {} ELSE {<<p, tree[p]>>}

\* The upload sends what the file holds now, not what the scan saw.
Upload(p) ==
    /\ Takes(p, "upload") /\ local[p] # Nil
    /\ remote' = [remote EXCEPT ![p] = local[p]]
    /\ remoteTrash' = remoteTrash \cup Replaced(remote, p)
    /\ Outcome(p, {})
    /\ UNCHANGED <<local, localTrash, plan, copyOf, staged, steady>>

\* Trashing what is already gone may be an error or not: either way nothing moves.
DeleteRemote(p) ==
    /\ Takes(p, "deleteRemote")
    /\ remote' = [remote EXCEPT ![p] = Nil]
    /\ remoteTrash' = remoteTrash \cup Replaced(remote, p)
    /\ Outcome(p, {p})
    /\ UNCHANGED <<local, localTrash, plan, copyOf, staged, steady>>

DeleteLocal(p) ==
    /\ Takes(p, "deleteLocal")
    /\ local' = [local EXCEPT ![p] = Nil]
    /\ localTrash' = IF LocalDelete = "trash" THEN localTrash \cup Replaced(local, p)
                     ELSE localTrash
    /\ Succeeded(p, {p})
    /\ UNCHANGED <<remote, remoteTrash, plan, copyOf, staged, steady>>

RenameRemote(p) ==
    LET from == plan[p].from IN
    /\ Takes(p, "renameRemote") /\ remote[from] # Nil
    /\ remote' = [remote EXCEPT ![p] = remote[from], ![from] = Nil]
    /\ remoteTrash' = remoteTrash \cup Replaced(remote, p)
    /\ Outcome(p, {from})
    /\ UNCHANGED <<local, localTrash, plan, copyOf, staged, steady>>

\* std::fs::rename replaces whatever is at the destination.
RenameLocal(p) ==
    LET from == plan[p].from IN
    /\ Takes(p, "renameLocal") /\ local[from] # Nil
    /\ local' = [local EXCEPT ![p] = [v |-> local[from].v, t |-> plan[p].row.t],
                              ![from] = Nil]
    /\ Succeeded(p, {from})
    /\ UNCHANGED <<remote, localTrash, remoteTrash, plan, copyOf, staged, steady>>

\* resolve_conflict, step by step: set the local file aside under a free name, fetch
\* the remote version into its place, upload the copy.
ConflictAside(p, c) ==
    /\ Takes(p, "conflict")
    /\ c \in CopyPaths /\ local[c] = Nil
    /\ remote[c] = Nil /\ base[c] = Nil /\ plan[c] = Idle /\ c \notin excluded \* a fresh name
    /\ local' = [local EXCEPT ![c] = local[p], ![p] = Nil]
    /\ copyOf' = [copyOf EXCEPT ![p] = c]
    /\ UNCHANGED <<remote, localTrash, remoteTrash, plan, todo, done, gone, failed,
                   staged, faults, steady>>

\* A download starts once the rest is through; a conflict's right away.
MayFetch(p) ==
    /\ pc = "apply" /\ p \in todo /\ staged[p] = Nil
    /\ \/ plan[p].op = "download" /\ Rest = {} /\ ~cancelled
       \/ plan[p].op = "conflict" /\ copyOf[p] # Nil

Fetch(p) ==
    /\ MayFetch(p) /\ remote[p] # Nil
    /\ staged' = [staged EXCEPT ![p] = [f |-> remote[p], at |-> "fetched"]]
    /\ UNCHANGED <<world, plan, todo, done, gone, failed, copyOf, faults, steady>>

\* How far the download of `p` has come.
At(p) == IF staged[p] = Nil THEN "none" ELSE staged[p].at

\* (Slips) Every download expects an absent file; no check of the local file.
ExpectedAbsent(p) == Nil
LocalMatchesAnything(p) == TRUE

\* staged.rs local_matches, against what the plan saw (conflicts: nothing).
Expected(p) == IF plan[p].op = "conflict" THEN Nil ELSE seen[p]
LocalMatches(p) ==
    IF Expected(p) = Nil THEN local[p] = Nil
    ELSE local[p] # Nil /\ Size[local[p].v] = Size[Expected(p).v] /\ local[p].t = Expected(p).t
SizeMatches(p) == LET want == Size[plan[p].row.v] IN
                  want = 0 \/ Size[staged[p].f.v] = want

\* Staging::install: the checks ...
InstallCheck(p) ==
    /\ At(p) = "fetched"
    /\ SizeMatches(p) /\ LocalMatches(p)
    /\ \E t \in {IF plan[p].row.t = NoTime THEN staged[p].f.t ELSE plan[p].row.t} :
         staged' = [staged EXCEPT ![p] = [f |-> [v |-> staged[p].f.v, t |-> t], at |-> "checked"]]
    /\ UNCHANGED <<world, plan, todo, done, gone, failed, copyOf, faults, steady>>

\* ... and the rename, which takes the place of whatever is there by then.
InstallRename(p) ==
    /\ At(p) = "checked"
    /\ local' = [local EXCEPT ![p] = staged[p].f]
    /\ IF plan[p].op = "conflict"
       THEN /\ staged' = [staged EXCEPT ![p].at = "installed"]
            /\ UNCHANGED <<todo, done, gone, failed, faults>>
       ELSE /\ staged' = [staged EXCEPT ![p] = Nil]
            /\ Succeeded(p, {})
    /\ UNCHANGED <<remote, localTrash, remoteTrash, plan, copyOf, steady>>

\* The copy's row records its size and nothing else.
ConflictUpload(p) ==
    LET c == copyOf[p] IN
    /\ At(p) = "installed" /\ local[c] # Nil
    /\ remote' = [remote EXCEPT ![c] = local[c]]
    /\ remoteTrash' = remoteTrash \cup Replaced(remote, c)
    /\ \/ /\ plan' = [plan EXCEPT ![c].row =
                         [dir |-> FALSE, v |-> local[c].v, t |-> NoTime, h |-> FALSE]]
          /\ Succeeded(p, {})
       \/ TimedOut(p) /\ UNCHANGED plan
    /\ staged' = [staged EXCEPT ![p] = Nil]
    /\ copyOf' = [copyOf EXCEPT ![p] = Nil]
    /\ UNCHANGED <<local, localTrash, steady>>

\* An operation that cannot work fails by itself: its file has gone, or the download
\* is not what was listed or would replace an edit.
Doomed(p) ==
    \/ plan[p].op = "upload" /\ local[p] = Nil
    \/ plan[p].op = "deleteRemote" /\ remote[p] = Nil
    \/ plan[p].op = "renameRemote" /\ (remote[plan[p].from] = Nil \/ remote[p] # Nil)
    \/ plan[p].op = "renameLocal" /\ local[plan[p].from] = Nil
    \/ plan[p].op \in {"download", "conflict"} /\ staged[p] = Nil /\ remote[p] = Nil
    \/ At(p) = "fetched" /\ ~(SizeMatches(p) /\ LocalMatches(p))
    \/ At(p) = "installed" /\ local[copyOf[p]] = Nil

\* The operation of `p` is the one being carried out.
Running(p) == Takes(p, plan[p].op) \/ MayFetch(p) \/ (p \in todo /\ p \in InFlight)

OpFails(p) ==
    /\ Running(p)
    /\ Failed(p)
    /\ \/ Doomed(p) /\ UNCHANGED faults
       \/ Fault("opFails")
    /\ staged' = [staged EXCEPT ![p] = Nil]
    /\ copyOf' = [copyOf EXCEPT ![p] = Nil]
    /\ UNCHANGED <<world, plan, steady>>

-----------------------------------------------------------------------------
(* The end of the run: two transactions, the baseline and the retry state.   *)

Drained == IF cancelled THEN InFlight = {} ELSE todo = {}

\* (Slips) Excluded rows kept; planned rows taken for confirmed ones.
PrunedNever == {}
ConfirmedByPlan(p) == plan[p].row # Nil

\* Rows of excluded paths are forgotten (prune_excluded).
Pruned == {p \in excluded : Known[p] # Nil}
Confirmed(p) == plan[p].row # Nil /\ (plan[p].op \in Pending => p \in done)

Commit ==
    /\ pc = "apply" /\ Drained
    /\ base' = [p \in Paths |-> IF p \in gone \cup Pruned THEN Nil
                                ELSE IF Confirmed(p) THEN plan[p].row
                                ELSE base[p]]
    /\ apart' = excluded \cup {p \in apart : base'[p] = Nil}
    /\ pc' = "retry"
    /\ UNCHANGED <<world, backoff, excluded, clock, faults, input, plan, work, cancelled,
                   truth, discarded, dismissed>>

CommitFails ==
    /\ pc = "apply" /\ Drained /\ Fault("commitFails")
    /\ pc' = "retry"
    /\ UNCHANGED <<world, store, excluded, clock, input, plan, work, cancelled,
                   truth, history>>

SaveRetries ==
    /\ pc = "retry"
    /\ backoff' = (backoff \cup failed) \ done
    /\ Reset
    /\ UNCHANGED <<world, base, excluded, clock, faults, history>>

\* A failed path's next_at passes.
BackoffElapses(p) ==
    /\ pc = "idle" /\ p \in backoff
    /\ backoff' = backoff \ {p}
    /\ UNCHANGED <<world, base, excluded, clock, faults, pc, input, plan, work, cancelled,
                   truth, history>>

Cancel ==
    /\ pc # "idle" /\ ~cancelled /\ Fault("cancel")
    /\ cancelled' = TRUE
    /\ UNCHANGED <<world, store, excluded, clock, pc, input, plan, work,
                   truth, history>>

\* Killed: what is in memory and the staged downloads are gone, the rest stands.
Crash ==
    /\ pc # "idle" /\ Fault("crash") /\ Reset
    /\ UNCHANGED <<world, store, excluded, clock, history>>

-----------------------------------------------------------------------------
(* The user here, and the other devices there.                               *)

\* Nothing comes between an install's check and its rename, unless "window".
LocalFree(kind) ==
    /\ kind \in Moves
    /\ pc = "idle" \/ "local" \in MidRun
    /\ \/ "window" \in MidRun
       \/ \A p \in Paths : At(p) # "checked"
RemoteFree(kind) == kind \in Moves /\ (pc = "idle" \/ "remote" \in MidRun)

localMove  == <<remote, remoteTrash, store, excluded, faults, pc, input, plan, work,
                cancelled, truth>>
remoteMove == <<local, localTrash, store, excluded, faults, pc, input, plan, work,
                cancelled, truth>>

\* Files are made at ordinary paths; conflict copies are edited once they exist.
Editable(tree, p) == p \notin CopyPaths \/ tree[p] # Nil
NewFile == [v |-> clock + 1, t |-> clock + 1]
Contents(tree, p) == IF tree[p] = Nil THEN {} ELSE {tree[p].v}

LocalEdit(p) ==
    /\ LocalFree("localEdit") /\ Editable(local, p) /\ clock < MaxClock
    /\ local' = [local EXCEPT ![p] = NewFile]
    /\ clock' = clock + 1
    /\ discarded' = discarded \cup Contents(local, p)
    /\ UNCHANGED <<localTrash, dismissed, apart, localMove>>

LocalDeletes(p) ==
    /\ LocalFree("localDelete") /\ local[p] # Nil
    /\ local' = [local EXCEPT ![p] = Nil]
    /\ localTrash' = localTrash \cup Replaced(local, p)
    /\ dismissed' = dismissed \cup Contents(local, p)
    /\ UNCHANGED <<clock, discarded, apart, localMove>>

\* Restored from the trash, with its modification time.
LocalRestore(p) ==
    /\ LocalFree("localRestore") /\ local[p] = Nil
    /\ \E e \in localTrash : /\ e[1] = p
                            /\ local' = [local EXCEPT ![p] = e[2]]
                            /\ localTrash' = localTrash \ {e}
                            /\ dismissed' = dismissed \ {e[2].v}
    /\ UNCHANGED <<clock, discarded, apart, localMove>>

LocalRename(p, q) ==
    /\ LocalFree("localRename") /\ local[p] # Nil /\ local[q] = Nil /\ q \notin CopyPaths
    /\ local' = [local EXCEPT ![q] = local[p], ![p] = Nil]
    /\ UNCHANGED <<localTrash, clock, history, localMove>>

RemoteEdit(p) ==
    /\ RemoteFree("remoteEdit") /\ Editable(remote, p) /\ clock < MaxClock
    /\ remote' = [remote EXCEPT ![p] = NewFile]
    /\ clock' = clock + 1
    /\ discarded' = discarded \cup Contents(remote, p)
    /\ UNCHANGED <<remoteTrash, dismissed, apart, remoteMove>>

RemoteDeletes(p) ==
    /\ RemoteFree("remoteDelete") /\ remote[p] # Nil
    /\ remote' = [remote EXCEPT ![p] = Nil]
    /\ remoteTrash' = remoteTrash \cup Replaced(remote, p)
    /\ dismissed' = dismissed \cup Contents(remote, p)
    /\ UNCHANGED <<clock, discarded, apart, remoteMove>>

RemoteRestore(p) ==
    /\ RemoteFree("remoteRestore") /\ remote[p] = Nil
    /\ \E e \in remoteTrash : /\ e[1] = p
                            /\ remote' = [remote EXCEPT ![p] = e[2]]
                            /\ remoteTrash' = remoteTrash \ {e}
                            /\ dismissed' = dismissed \ {e[2].v}
    /\ UNCHANGED <<clock, discarded, apart, remoteMove>>

RemoteRename(p, q) ==
    /\ RemoteFree("remoteRename") /\ remote[p] # Nil /\ remote[q] = Nil /\ q \notin CopyPaths
    /\ remote' = [remote EXCEPT ![q] = remote[p], ![p] = Nil]
    /\ UNCHANGED <<remoteTrash, clock, history, remoteMove>>

\* The user takes a path out of the sync, or back in.
ToggleExclude(p) ==
    /\ "exclude" \in Moves /\ pc = "idle"
    /\ excluded' = IF p \in excluded THEN excluded \ {p} ELSE excluded \cup {p}
    /\ UNCHANGED <<world, store, clock, faults, pc, input, plan, work, cancelled, truth, history>>

-----------------------------------------------------------------------------
StartFile(p) == IF Start[p] = Nil THEN Nil ELSE [v |-> Start[p], t |-> Start[p]]
StartTree == [p \in Paths |-> StartFile(p)]

\* The paths of Start were synced by an earlier run.
Init ==
    /\ local = StartTree /\ remote = StartTree
    /\ localTrash = {} /\ remoteTrash = {}
    /\ base = [p \in Paths |-> IF Start[p] = Nil THEN Nil
                               ELSE AsEntry(StartFile(p), C.compare = "sha1")]
    /\ backoff = {} /\ excluded = {}
    /\ clock = Cardinality({p \in Paths : Start[p] # Nil})
    /\ faults = MaxFaults
    /\ pc = "idle" /\ mode = "normal" /\ seen = NoTree /\ blind = FALSE
    /\ plan = NoPlan /\ todo = {} /\ done = {} /\ gone = {} /\ failed = {}
    /\ copyOf = NoTree /\ staged = NoTree /\ cancelled = FALSE
    /\ truth = [l |-> NoTree, r |-> NoTree]
    /\ discarded = {} /\ dismissed = {} /\ apart = {}

Begin == \E m \in Modes :
            ScanLocal(m) \/ ScanLocalBlind(m) \/ ScanLocalCarried(m) \/ ScanEmptyRoot(m)
List == ListAndPlan \/ ListPartly \/ ListRootMissing \/ ListFails
Op(p) == \/ Upload(p) \/ DeleteRemote(p) \/ DeleteLocal(p) \/ RenameRemote(p) \/ RenameLocal(p)
         \/ \E c \in Paths : ConflictAside(p, c)
         \/ Fetch(p) \/ InstallCheck(p) \/ InstallRename(p) \/ ConflictUpload(p) \/ OpFails(p)
Apply == EnsureBase \/ EnsureBaseFails \/ \E p \in Paths : Op(p)
Finish == Commit \/ CommitFails \/ SaveRetries
Engine == Begin \/ List \/ Apply \/ Finish

Environment ==
    \/ Cancel \/ Crash
    \/ \E p \in Paths :
          \/ BackoffElapses(p) \/ ToggleExclude(p)
          \/ LocalEdit(p) \/ LocalDeletes(p) \/ LocalRestore(p)
          \/ RemoteEdit(p) \/ RemoteDeletes(p) \/ RemoteRestore(p)
    \/ \E p, q \in Paths : LocalRename(p, q) \/ RemoteRename(p, q)

Next == Engine \/ Environment

Spec == Init /\ [][Next]_vars

\* A run is started again and again (the watcher's timer, the user), each of its steps
\* is eventually taken, and time passes whether a run is in flight or not; nothing is
\* assumed of faults, of the user or of the other devices.
Step == \/ ScanLocal("normal") \/ ListAndPlan \/ EnsureBase \/ Commit \/ SaveRetries
        \/ \E p \in Paths : Op(p)
LiveSpec == Spec /\ WF_vars(Step) /\ \A p \in Paths : SF_vars(BackoffElapses(p))

-----------------------------------------------------------------------------
(* Properties.                                                               *)

TypeOK ==
    /\ local \in Tree /\ remote \in Tree
    /\ localTrash \subseteq Paths \X File /\ remoteTrash \subseteq Paths \X File
    /\ base \in Rows
    /\ backoff \subseteq Paths /\ excluded \subseteq Paths
    /\ clock \in 0..MaxClock /\ faults \in 0..MaxFaults
    /\ pc \in {"idle", "listing", "base", "apply", "retry"}
    /\ mode \in Modes
    /\ seen \in Rows /\ blind \in BOOLEAN
    /\ plan \in [Paths -> Planned]
    /\ todo \subseteq Paths /\ done \subseteq Paths
    /\ gone \subseteq Paths /\ failed \subseteq Paths
    /\ copyOf \in [Paths -> Paths \cup {Nil}]
    /\ staged \in [Paths -> Staged \cup {Nil}]
    /\ cancelled \in BOOLEAN
    /\ truth \in [l : Tree, r : Tree]
    /\ discarded \subseteq Versions /\ dismissed \subseteq Versions
    /\ apart \subseteq Paths

Live == UNION {Contents(local, p) \cup Contents(remote, p) : p \in Paths}
Trashed == {e[2].v : e \in localTrash \cup remoteTrash}

\* Whatever anybody wrote, before or during a run, is still somewhere - in place, in a
\* conflict copy or in a trash - unless its author wrote over it: no order of edits,
\* deletions, downloads, conflicts and failures makes the engine destroy the only copy.
NothingLost == 1..clock \subseteq Live \cup Trashed \cup discarded

\* The operation of `p` is carried out, whether it is then reported done or failed.
Ended == done \cup failed
Completes(p, op) == p \in Ended' \ Ended /\ plan[p].op = op

\* The run removes the last copy in the two trees only of a version somebody deleted
\* or replaced: no scan that missed something, crash, cancellation or failed operation
\* turns into a deletion or an overwriting that nobody asked for.
Retired == Live \ Live'
OnlyDismissedRetire ==
    [][pc # "idle" => Retired \subseteq discarded' \cup dismissed']_vars

\* The same, of the uploads alone: one never replaces a remote edit that the run has not
\* seen ("Conflicts keep both ... never silently overwrite").
UploadsKeepRemoteEdits ==
    [][\A p \in Paths : Completes(p, "upload") =>
          Contents(remote, p) \subseteq Live' \cup discarded' \cup dismissed']_vars

\* An empty root with few files on record is believed (EMPTY_ROOT_MIN_FILES).
FewOnRecord == seen = NoTree /\ Tracked(base) < EmptyRootMin

\* A deletion is carried out on one side only if, when that run scanned, the file was
\* really absent from the other: a file that was merely not seen is never deleted.
DeletesOnlyWhatIsGone ==
    [][\A p \in Paths :
          /\ Completes(p, "deleteRemote") => truth.l[p] = Nil \/ FewOnRecord
          /\ Completes(p, "deleteLocal") => truth.r[p] = Nil]_vars

\* Once a run has left an excluded path out, taking the path back in never deletes it,
\* whatever happened to it meanwhile: "Re-including a folder re-downloads it, so
\* excluding can never delete remote data."
ReIncludeNeverDeletes ==
    [][\A p \in apart : ~Completes(p, "deleteRemote") /\ ~Completes(p, "deleteLocal")]_vars

\* A resync merges both sides: it deletes nothing and moves nothing.
ResyncOnlyAdds ==
    [][mode = "resync" =>
          \A p \in Ended' \ Ended : plan[p].op \notin Deletes \cup Renames]_vars

\* An unconfirmed run deletes no more files than it may, whatever it planned.
WithinAllowance ==
    pc = "apply" /\ Guarded => Cardinality({p \in Ended : plan[p].op \in Deletes}) <= Allowance

\* Both sides hold the same bytes at every path and nothing waits for a retry.
Converged == /\ \A p \in Paths : Contents(local, p) = Contents(remote, p)
             /\ backoff = {}

\* Once edits and faults stop, the two sides come to agree and stay so.
EventuallyConverges == <>[]Converged
=============================================================================
