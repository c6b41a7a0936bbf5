---------------------------- MODULE PairDatabase ----------------------------
(***************************************************************************)
(* What the database keeps of one pair, by the pair's name: the baseline,   *)
(* the retry backoff and the folders the baseline was taken from            *)
(* (src/src/stats.rs, src/src/state.rs).  Runs of any process pin the       *)
(* folders, load the baseline and commit; between them the user removes the *)
(* pair, adds one of the same name, or points it at other folders.  Every   *)
(* row here says where it was taken.  The database's rows do not: they are  *)
(* told apart by the pin alone.                                             *)
(***************************************************************************)
EXTENDS Naturals, FiniteSets, Sequences

CONSTANTS
    Roots,      \* places a pair can be: a local and a remote folder
    Rels,       \* paths below them
    Runs,       \* the runs, of this process or of another
    Nowhere,    \* no place
    Overlap,    \* when else the pair may be changed: "run" while a run is under way,
                \* "upgrade" before a run has taken over what an older build left
    MaxChanges  \* bounds what the user does to the pair

ASSUME DbAssumption ==
    /\ Nowhere \notin Roots
    /\ Overlap \subseteq {"run", "upgrade"}
    /\ MaxChanges \in Nat

VARIABLES
    dbConfig,   \* where the configuration says the pair is
    dbRows,     \* the baseline table: where each row was taken
    dbPending,  \* the rows an older build left half transferred
    dbRetries,  \* the retry_state table: where each failure was met
    dbPinned,   \* the pair_roots table
    dbLegacy,   \* the JSON baseline of an older build: where it was taken
    dbRuns,     \* the runs: how far, for which place, with which baseline
    dbForget,   \* how many tables a removal has emptied so far
    dbChanges

dbVars == <<dbConfig, dbRows, dbPending, dbRetries, dbPinned, dbLegacy, dbRuns,
            dbForget, dbChanges>>

Places == Roots \cup {Nowhere}
NoRows == [p \in Rels |-> Nowhere]
AllFrom(root) == [p \in Rels |-> root]
Put(rows, paths, root) == [p \in Rels |-> IF p \in paths THEN root ELSE rows[p]]
Off == [stage |-> "off", root |-> Nowhere, base |-> NoRows]
RunStates == [stage : {"off", "started", "pinned", "imported", "loaded"},
              root : Places, base : [Rels -> Places]]

\* The tables forget_pair and wipe empty, each statement a transaction of its own.
ForgetOrder == <<"baseline", "retry_state", "pair_roots">>

DbTypeOK ==
    /\ dbConfig \in Places
    /\ dbRows \in [Rels -> Places]
    /\ dbPending \in SUBSET Rels
    /\ dbRetries \in [Rels -> Places]
    /\ dbPinned \in Places
    /\ dbLegacy \in Places
    /\ dbRuns \in [Runs -> RunStates]
    /\ dbForget \in 0..Len(ForgetOrder)
    /\ dbChanges \in 0..MaxChanges

(***************************************************************************)
(* Three pasts: a new database, one an older build kept without pins and    *)
(* with rows of transfers it had not finished, and no database but the JSON *)
(* file of a still older one.                                               *)
(***************************************************************************)
DbInit ==
    /\ dbConfig \in Roots
    /\ dbRows \in {NoRows, AllFrom(dbConfig)}
    /\ dbPending \in IF dbRows = NoRows THEN {{}} ELSE SUBSET Rels
    /\ dbRetries = NoRows
    /\ dbPinned = Nowhere
    /\ dbLegacy \in {Nowhere, dbConfig}
    /\ dbRuns = [r \in Runs |-> Off]
    /\ dbForget = 0
    /\ dbChanges = 0

\* Opening the database drops the rows that stand for unfinished transfers.
Opened == Put(dbRows, dbPending, Nowhere)

RunVars == <<dbConfig, dbForget, dbChanges>>

(* A run works on the configuration as it was when it began. *)
BeginDbRun(r) ==
    /\ dbRuns[r].stage = "off"
    /\ dbConfig # Nowhere
    /\ dbForget = 0 \/ "run" \in Overlap
    /\ dbRuns' = [dbRuns EXCEPT ![r] = [Off EXCEPT !.stage = "started", !.root = dbConfig]]
    /\ UNCHANGED <<dbRows, dbPending, dbRetries, dbPinned, dbLegacy, RunVars>>

\* (Slip) The new place is noted and the old record kept.
AfterPinKept(table, root) == table

\* The tables once a pair at `root` has been pinned: a move empties them.
AfterPin(table, root) == IF dbPinned \in {Nowhere, root} THEN table ELSE NoRows

(* load_baseline_for, first half: pin_pair_roots, one transaction. *)
Pin(r) ==
    LET root == dbRuns[r].root IN
    /\ dbRuns[r].stage = "started"
    /\ dbRows' = AfterPin(Opened, root)
    /\ dbRetries' = AfterPin(dbRetries, root)
    /\ dbPinned' = root
    /\ dbPending' = {}
    /\ dbRuns' = [dbRuns EXCEPT ![r].stage = "pinned"]
    /\ UNCHANGED <<dbLegacy, RunVars>>

(* Second half: load_baseline reads the rows, ... *)
Load(r) ==
    /\ dbRuns[r].stage = "pinned"
    /\ Opened # NoRows \/ dbLegacy = Nowhere
    /\ dbRows' = Opened
    /\ dbPending' = {}
    /\ dbRuns' = [dbRuns EXCEPT ![r].stage = "loaded", ![r].base = Opened]
    /\ UNCHANGED <<dbRetries, dbPinned, dbLegacy, RunVars>>

(* ... or, where there are none, takes over the JSON file of an older build, *)
Import(r) ==
    /\ dbRuns[r].stage = "pinned"
    /\ Opened = NoRows /\ dbLegacy # Nowhere
    /\ dbRows' = AllFrom(dbLegacy)
    /\ dbPending' = {}
    /\ dbRuns' = [dbRuns EXCEPT ![r].stage = "imported", ![r].base = AllFrom(dbLegacy)]
    /\ UNCHANGED <<dbRetries, dbPinned, dbLegacy, RunVars>>

(* and sets it aside, unless the rename fails, which goes unnoticed. *)
SetAside(r) ==
    /\ dbRuns[r].stage = "imported"
    /\ dbLegacy' \in {Nowhere, dbLegacy}
    /\ dbRuns' = [dbRuns EXCEPT ![r].stage = "loaded"]
    /\ UNCHANGED <<dbRows, dbPending, dbRetries, dbPinned, RunVars>>

(* commit_baseline: rows for what the run found in agreement or brought there, and *)
(* none for what is gone.  A walk commits folder by folder.                        *)
Commit(r) ==
    /\ dbRuns[r].stage = "loaded"
    /\ \E entries \in SUBSET Rels : \E removed \in SUBSET (Rels \ entries) :
           dbRows' = Put(Put(Opened, entries, dbRuns[r].root), removed, Nowhere)
    /\ dbPending' = {}
    /\ UNCHANGED <<dbRetries, dbPinned, dbLegacy, dbRuns, RunVars>>

(* apply_retry_updates, the transaction after it. *)
NoteFailures(r) ==
    /\ dbRuns[r].stage = "loaded"
    /\ \E upserts \in SUBSET Rels : \E clears \in SUBSET (Rels \ upserts) :
           dbRetries' = Put(Put(dbRetries, upserts, dbRuns[r].root), clears, Nowhere)
    /\ UNCHANGED <<dbRows, dbPending, dbPinned, dbLegacy, dbRuns, RunVars>>

(* The run ends, or its process dies, between any two transactions. *)
EndDbRun(r) ==
    /\ dbRuns[r].stage # "off"
    /\ dbRuns' = [dbRuns EXCEPT ![r] = Off]
    /\ UNCHANGED <<dbRows, dbPending, dbRetries, dbPinned, dbLegacy, RunVars>>

(***************************************************************************)
(* The user changes the pair.                                               *)
(***************************************************************************)
Settled == dbLegacy = Nowhere /\ (dbRows = NoRows \/ dbPinned # Nowhere)
MayChange ==
    /\ dbChanges < MaxChanges
    /\ "run" \in Overlap \/ \A r \in Runs : dbRuns[r].stage = "off"
    /\ "upgrade" \in Overlap \/ Settled

Change == dbChanges' = dbChanges + 1
DbKept == UNCHANGED <<dbPending, dbLegacy, dbRuns>>

(* The window removes the pair: forget_pair empties one table after another, ... *)
Empty(table) ==
    /\ dbRows' = IF table = "baseline" THEN NoRows ELSE dbRows
    /\ dbRetries' = IF table = "retry_state" THEN NoRows ELSE dbRetries
    /\ dbPinned' = IF table = "pair_roots" THEN Nowhere ELSE dbPinned
Forget ==
    /\ dbConfig # Nowhere
    /\ dbForget < Len(ForgetOrder)
    /\ IF dbForget = 0 THEN MayChange /\ Change ELSE UNCHANGED dbChanges
    /\ Empty(ForgetOrder[dbForget + 1])
    /\ dbForget' = dbForget + 1
    /\ UNCHANGED dbConfig /\ DbKept
(* ... stops at the first statement that fails, which goes unnoticed, and the pair *)
(* leaves the configuration either way; ...                                        *)
Removed ==
    /\ dbForget > 0
    /\ dbConfig' = Nowhere
    /\ dbForget' = 0
    /\ UNCHANGED <<dbRows, dbRetries, dbPinned, dbChanges>> /\ DbKept
(* ... but not when the window dies half way. *)
RemovalDies ==
    /\ dbForget > 0
    /\ dbForget' = 0
    /\ UNCHANGED <<dbConfig, dbRows, dbRetries, dbPinned, dbChanges>> /\ DbKept

(* A pair of that name is added, pointed elsewhere in the configuration file, or *)
(* taken out of it there, which forgets nothing.                                 *)
Configure ==
    /\ MayChange /\ Change
    /\ dbForget = 0
    /\ dbConfig' \in Places \ {dbConfig}
    /\ UNCHANGED <<dbRows, dbRetries, dbPinned, dbForget>> /\ DbKept

DbNext ==
    \/ \E r \in Runs : BeginDbRun(r) \/ Pin(r) \/ Load(r) \/ Import(r) \/ SetAside(r)
                           \/ Commit(r) \/ NoteFailures(r) \/ EndDbRun(r)
    \/ Forget \/ Removed \/ RemovalDies \/ Configure

DbSpec == DbInit /\ [][DbNext]_dbVars

(***************************************************************************)
(* What a run reads of a pair's past, the baseline and the backoff, was     *)
(* taken from the very folders the run works on, whatever was removed,      *)
(* added or moved under that name, and wherever a removal was cut short: a  *)
(* baseline of other folders reads as everything deleted (pin_pair_roots).  *)
(***************************************************************************)
OwnRecord ==
    \A r \in Runs : dbRuns[r].stage = "loaded" =>
        \A p \in Rels : {dbRuns[r].base[p], dbRetries[p]} \subseteq {dbRuns[r].root, Nowhere}

(***************************************************************************)
(* Why: whatever the tables hold was taken where the pin says, and the pin  *)
(* is the last thing a removal lets go of.                                  *)
(***************************************************************************)
PinnedRecord ==
    dbPinned # Nowhere =>
        \A p \in Rels : {dbRows[p], dbRetries[p]} \subseteq {dbPinned, Nowhere}
=============================================================================
