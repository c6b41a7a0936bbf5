--------------------------- MODULE PairSyncProofs ---------------------------
(***************************************************************************)
(* What holds of a pair's run for every set of paths, contents, settings,  *)
(* faults and moves.                                                       *)
(***************************************************************************)
EXTENDS PairSync, FiniteSetTheorems, TLAPS

Slots == FileEntries \cup {Nil}
Transfers == {"upload", "download", "conflict"}
VerdictOps == Transfers \cup Deletes \cup {"none", "noop", "skip", "clash"}

\* What the proofs use of the constants.
LEMMA Constants ==
  /\ MaxClock \in Nat /\ MaxFaults \in Nat
  /\ Versions = 1..MaxClock /\ Versions \subseteq Nat
  /\ IsFiniteSet(Paths) /\ CopyPaths \subseteq Paths /\ Nil \notin Paths
  /\ Start \in [Paths -> Versions \cup {Nil}]
  /\ C \in Settings /\ RemoteDigests \in BOOLEAN
  /\ Cardinality({p \in Paths : Start[p] # Nil}) <= MaxClock
<1>1. Versions = 1..MaxClock /\ MaxClock \in Nat
  BY PairSyncAssumption
<1>2. Versions \subseteq Nat
  BY <1>1
<1> QED
  BY <1>1, <1>2, PairSyncAssumption

-----------------------------------------------------------------------------
(* Lemmas about the merge.                                                   *)

\* Each class says which of the two, the side's entry and the row, are there.
LEMMA ClassifyMeans ==
  ASSUME NEW cur, NEW row, NEW compare
  PROVE  LET k == Classify(cur, row, compare) IN
         /\ k \in {"absent", "created", "deleted", "unchanged", "modified"}
         /\ k = "absent" <=> cur = Nil /\ row = Nil
         /\ k = "created" <=> cur # Nil /\ row = Nil
         /\ k = "deleted" <=> cur = Nil /\ row # Nil
  BY DEF Classify

\* Hashing an entry leaves it an entry.
LEMMA DigestKeepsEntry ==
  ASSUME NEW l \in Slots, NEW r, NEW lc, NEW rc
  PROVE  /\ WithDigest(l, r, lc, rc) \in Slots
         /\ l \in FileEntries => WithDigest(l, r, lc, rc) \in FileEntries
         /\ l = Nil => WithDigest(l, r, lc, rc) = Nil
  BY DEF WithDigest, Slots, FileEntries

\* The verdict on files: a transfer has a row, a deletion was on record and is gone
\* from the other side.
LEMMA JudgeOfFiles ==
  ASSUME NEW l \in Slots, NEW r \in Slots, NEW b \in Slots, NEW c
  PROVE  LET V == Judge(l, r, b, c) IN
         /\ V.op \in VerdictOps
         /\ V.row \in Slots
         /\ V.op \in Transfers => V.row \in FileEntries
         /\ V.op = "deleteRemote" => l = Nil /\ b # Nil
         /\ V.op = "deleteLocal" => r = Nil /\ b # Nil
<1> DEFINE lc == Classify(l, b, c.compare)
           rc == Classify(r, b, c.compare)
           h  == WithDigest(l, r, lc, rc)
           V  == Judge(l, r, b, c)
<1>1. V = Decide(lc, rc, h, r, b, c)
  BY DEF Judge
<1>2. /\ h \in Slots
      /\ l \in FileEntries => h \in FileEntries
      /\ l = Nil => h = Nil
  BY DigestKeepsEntry
<1>3. /\ lc \in {"absent", "created", "deleted", "unchanged", "modified"}
      /\ lc = "absent" <=> l = Nil /\ b = Nil
      /\ lc = "created" <=> l # Nil /\ b = Nil
      /\ lc = "deleted" <=> l = Nil /\ b # Nil
  BY ClassifyMeans
<1>4. /\ rc \in {"absent", "created", "deleted", "unchanged", "modified"}
      /\ rc = "absent" <=> r = Nil /\ b = Nil
      /\ rc = "created" <=> r # Nil /\ b = Nil
      /\ rc = "deleted" <=> r = Nil /\ b # Nil
  BY ClassifyMeans
<1> HIDE DEF lc, rc, h
<1>5. ~IsDir(h, r, b) /\ Either(h, r) \in Slots
  BY <1>2 DEF IsDir, Either, Slots, FileEntries
<1>6. \/ V = Verdict("none", Either(h, r))
      \/ V = Verdict("clash", Nil)
      \/ V = DecideFile(lc, rc, h, r, c)
  BY <1>1, <1>5 DEF Decide
<1>7. CASE V = DecideFile(lc, rc, h, r, c)
  <2>1. lc \in Edited => h \in FileEntries
    BY <1>2, <1>3 DEF Edited, Slots
  <2>2. rc \in Edited => r \in FileEntries
    BY <1>4 DEF Edited, Slots
  <2>3. ASSUME lc \in Edited, rc \in Edited
        PROVE  \/ BothEdited(h, r, c) = Verdict("none", h)
               \/ BothEdited(h, r, c) = Verdict("skip", Nil)
               \/ BothEdited(h, r, c) = Verdict("upload", h)
               \/ BothEdited(h, r, c) = Verdict("download", r)
               \/ BothEdited(h, r, c) = Verdict("conflict", r)
    BY DEF BothEdited, EmitConflict, EmitUpload, EmitDownload
  <2>4. \/ V = Verdict("none", Either(h, r))
        \/ V = Verdict("none", Nil)
        \/ V = Verdict("none", h)
        \/ V = Verdict("noop", h)
        \/ V = Verdict("noop", r)
        \/ V = Verdict("skip", Nil)
        \/ V = Verdict("upload", h) /\ lc \in Edited
        \/ V = Verdict("download", r) /\ rc \in Edited
        \/ V = Verdict("conflict", r) /\ rc \in Edited
        \/ V = Verdict("deleteRemote", Nil) /\ lc = "deleted"
        \/ V = Verdict("deleteLocal", Nil) /\ rc = "deleted"
    BY <1>7, <2>3
       DEF DecideFile, Edited, EmitUpload, EmitDownload, EmitDeleteRemote, EmitDeleteLocal
  <2> QED
    BY <1>2, <1>3, <1>4, <1>5, <2>1, <2>2, <2>4
       DEF Verdict, VerdictOps, Transfers, Deletes, Slots
<1> QED
  BY <1>5, <1>6, <1>7 DEF Verdict, VerdictOps, Transfers, Deletes, Slots

-----------------------------------------------------------------------------
(* The inductive invariant behind the typing.                                *)

\* What is to be transferred has its row, what is to be renamed its old name.
PlansAreComplete ==
    \A p \in Paths : /\ plan[p].op \in Pending => plan[p].row \in FileEntries
                     /\ plan[p].op \in Renames => plan[p].from \in Paths

\* Only downloads and conflicts stage a file, and a conflict has its copy by then.
StagedAreTransfers ==
    \A p \in Paths :
        /\ staged[p] # Nil => \/ plan[p].op = "download" /\ staged[p].at # "installed"
                              \/ plan[p].op = "conflict" /\ copyOf[p] # Nil
        /\ copyOf[p] # Nil => plan[p].op = "conflict"

\* Nothing is under way before there is a plan.
NoWorkBeforePlan ==
    pc \in {"idle", "listing", "base"} =>
        done = {} /\ copyOf = NoTree /\ staged = NoTree

IInv == TypeOK /\ PlansAreComplete /\ StagedAreTransfers /\ NoWorkBeforePlan

LEMMA InitEstablishes == Init => IInv
<1> SUFFICES ASSUME Init PROVE IInv
  OBVIOUS
<1>1. Cardinality({p \in Paths : Start[p] # Nil}) \in 0..MaxClock
  <2>1. IsFiniteSet({p \in Paths : Start[p] # Nil})
    BY Constants, FS_Subset
  <2> QED
    BY <2>1, Constants, FS_CardinalityType
<1>2. \A p \in Paths : Start[p] # Nil => StartFile(p) \in File
  BY Constants DEF StartFile, File
<1>3. StartTree \in Tree
  BY <1>2 DEF StartTree, StartFile, Tree
<1>4. base \in Rows
  BY <1>2 DEF Init, Rows, FileEntries, AsEntry, File
<1>5. NoTree \in Tree /\ NoTree \in Rows /\ NoPlan \in [Paths -> Planned]
  BY DEF NoTree, Tree, Rows, NoPlan, Planned, Idle
<1>6. TypeOK
  <2>1. /\ local \in Tree /\ remote \in Tree /\ base \in Rows /\ seen \in Rows
        /\ plan \in [Paths -> Planned] /\ truth \in [l : Tree, r : Tree]
    BY <1>3, <1>4, <1>5 DEF Init
  <2>2. /\ clock \in 0..MaxClock /\ faults \in 0..MaxFaults
        /\ mode \in Modes /\ pc \in {"idle", "listing", "base", "apply", "retry"}
    BY <1>1, Constants DEF Init, Modes
  <2>3. copyOf \in [Paths -> Paths \cup {Nil}] /\ staged \in [Paths -> Staged \cup {Nil}]
    BY DEF Init, NoTree
  <2>4. blind \in BOOLEAN /\ cancelled \in BOOLEAN
    BY DEF Init
  <2> QED
    BY <2>1, <2>2, <2>3, <2>4 DEF Init, TypeOK
<1>7. PlansAreComplete /\ StagedAreTransfers /\ NoWorkBeforePlan
  BY DEF Init, PlansAreComplete, StagedAreTransfers, NoWorkBeforePlan, NoPlan, NoTree,
         Idle, Pending, Executed, Renames, LocalOps, RemoteOps, Deletes
<1> QED
  BY <1>6, <1>7 DEF IInv

-----------------------------------------------------------------------------
(* Scanning and planning.                                                    *)

LEMMA ScannedLocalTyped ==
  ASSUME local \in Tree, NEW rows \in Rows, NEW miss, NEW carried
  PROVE  ScannedLocal(miss, carried, rows) \in Rows
<1>1. ASSUME NEW p \in Paths, local[p] # Nil
      PROVE  LocalEntry(local[p], rows[p]) \in FileEntries
  <2>1. \A hashed \in BOOLEAN : AsEntry(local[p], hashed) \in FileEntries
    BY <1>1 DEF AsEntry, Tree, File, FileEntries
  <2>2. (C.compare = "sha1") \in BOOLEAN
    OBVIOUS
  <2>3. rows[p] # Nil => rows[p] \in FileEntries
    BY DEF Rows
  <2> QED
    BY <2>1, <2>2, <2>3 DEF LocalEntry
<1>2. \A p \in Paths : rows[p] \in FileEntries \cup {Nil}
  BY DEF Rows
<1> QED
  BY <1>1, <1>2 DEF ScannedLocal, Rows

LEMMA ScannedRemoteTyped ==
  ASSUME remote \in Tree, NEW miss
  PROVE  ScannedRemote(miss) \in Rows
<1>1. \A p \in Paths : remote[p] # Nil => AsEntry(remote[p], RemoteDigests) \in FileEntries
  BY Constants DEF AsEntry, Tree, File, FileEntries
<1> QED
  BY <1>1 DEF ScannedRemote, Rows

LEMMA KnownTyped ==
  ASSUME base \in Rows PROVE Known \in Rows
<1>1. NoTree \in Rows
  BY DEF NoTree, Rows
<1> QED
  BY <1>1 DEF Known

\* The verdict of every path is one on files.
LEMMA VerdictsTyped ==
  ASSUME TypeOK, NEW rv \in Rows, NEW p \in Paths
  PROVE  LET V == Verdicts(rv)[p] IN
         /\ V.op \in VerdictOps /\ V.row \in Slots
         /\ V.op \in Transfers => V.row \in FileEntries
         /\ V.op = "deleteRemote" => seen[p] = Nil /\ Known[p] # Nil /\ p \notin excluded
         /\ V.op = "deleteLocal" => rv[p] = Nil /\ Known[p] # Nil /\ p \notin excluded
<1>1. seen[p] \in Slots /\ rv[p] \in Slots /\ Known[p] \in Slots
  BY KnownTyped DEF TypeOK, Rows, Slots
<1>2. CASE p \in excluded
  BY <1>2 DEF Verdicts, Verdict, VerdictOps, Transfers, Deletes, Slots
<1>3. CASE p \notin excluded
  <2>1. Verdicts(rv)[p] = Judge(seen[p], rv[p], Known[p], C)
    BY <1>3 DEF Verdicts
  <2> QED
    BY <1>1, <1>3, <2>1, JudgeOfFiles
<1> QED
  BY <1>2, <1>3

\* Pairing off the renames leaves every operation with what it needs, makes no deletion,
\* and uses one up.
LEMMA RenamesTyped ==
  ASSUME TypeOK, NEW rv \in Rows, NEW S \in SUBSET (Paths \X Paths),
         S \subseteq RenamedHere(Verdicts(rv), rv) \cup RenamedThere(Verdicts(rv), rv),
         NEW M \in SUBSET S, NEW p \in Paths
  PROVE  LET W == WithRenames(Verdicts(rv), M)[p] IN
         /\ W \in Planned
         /\ W.op \in Pending => W.row \in FileEntries
         /\ W.op \in Renames => W.from \in Paths
         /\ W.op \in Deletes => W.op = Verdicts(rv)[p].op
         /\ W.op \in Renames => \E q \in Paths : Verdicts(rv)[q].op \in Deletes
<1> DEFINE V == Verdicts(rv)
           W == WithRenames(V, M)[p]
<1>1. /\ V[p].op \in VerdictOps /\ V[p].row \in Slots
      /\ V[p].op \in Transfers => V[p].row \in FileEntries
  BY VerdictsTyped
<1>2. CASE \E m \in M : m[2] = p
  <2>1. PICK m \in M : m[2] = p
    BY <1>2
  <2>2. /\ V[p].op \in {"upload", "download"}
        /\ \E q \in Paths : V[q].op \in Deletes
    BY <2>1 DEF RenamedHere, RenamedThere, Deletes
  <2>3. (CHOOSE n \in M : n[2] = p)[1] \in Paths
    BY <2>1
  <2>4. W = [op   |-> IF V[p].op = "upload" THEN "renameRemote" ELSE "renameLocal",
             row  |-> V[p].row,
             from |-> (CHOOSE n \in M : n[2] = p)[1]]
    BY <1>2 DEF WithRenames
  <2> QED
    BY <1>1, <2>2, <2>3, <2>4 DEF Planned, Pending, Renames, Deletes, Executed, LocalOps,
                                  RemoteOps, Transfers
<1>3. CASE ~(\E m \in M : m[2] = p) /\ \E m \in M : m[1] = p
  <2>1. W = Idle
    BY <1>3 DEF WithRenames
  <2> QED
    BY <2>1 DEF Idle, Planned, Pending, Renames, Deletes, Executed, LocalOps, RemoteOps
<1>4. CASE ~(\E m \in M : m[2] = p) /\ ~(\E m \in M : m[1] = p)
  <2>1. W = [op |-> V[p].op, row |-> V[p].row, from |-> Nil]
    BY <1>4 DEF WithRenames
  <2> QED
    BY <1>1, <2>1 DEF Planned, Pending, Renames, Deletes, Executed, LocalOps, RemoteOps,
                      Transfers, VerdictOps, Slots
<1> QED
  BY <1>2, <1>3, <1>4
LEMMA TrackedTyped == Tracked(base) \in Nat
<1>1. {p \in Paths \ excluded : base[p] # Nil} \in SUBSET Paths
  OBVIOUS
<1> QED
  BY <1>1, Constants, FS_Subset, FS_CardinalityType DEF Tracked

LEMMA AllowanceTyped == Allowance \in Nat
<1>1. Tracked(base) \in Nat
  BY TrackedTyped
<1>2. MaxDeleteFiles \in Nat /\ MaxDeletePercent \in Nat
  <2>1. MaxDeleteFiles \in Nat /\ MaxDeletePercent \in 0..100
    BY PairSyncAssumption
  <2> QED
    BY <2>1
<1>3. (Tracked(base) * MaxDeletePercent) \div 100 \in Nat
  BY <1>1, <1>2
<1> QED
  BY <1>2, <1>3 DEF Allowance, Larger

\* The run saw all there is, as far as it can tell.
FullView(miss, noRoot) == ~Incomplete(miss # {}, noRoot)

\* What a run plans is complete, and its deletions are verdicts of a full view.
LEMMA PlanTyped ==
  ASSUME TypeOK, NEW miss, NEW noRoot, Plan(miss, noRoot)
  PROVE  LET rv == ScannedRemote(IF noRoot THEN Paths ELSE miss) IN
         /\ plan' \in [Paths -> Planned]
         /\ todo' \subseteq Paths
         /\ \A p \in Paths :
              /\ plan'[p].op \in Pending => plan'[p].row \in FileEntries
              /\ plan'[p].op \in Renames => plan'[p].from \in Paths
              /\ plan'[p].op \in Deletes => /\ plan'[p].op = Verdicts(rv)[p].op
                                            /\ FullView(miss, noRoot)
              /\ plan'[p].op \in Renames => \E q \in Paths : Verdicts(rv)[q].op \in Deletes
              /\ p \in excluded => plan'[p].row = Nil
         /\ Guarded => Cardinality({p \in Paths : plan'[p].op \in Deletes}) <= Allowance
<1> DEFINE rv == ScannedRemote(IF noRoot THEN Paths ELSE miss)
           V == Verdicts(rv)
           partial == Incomplete(miss # {}, noRoot)
           S == IF partial THEN {} ELSE RenamedHere(V, rv) \cup RenamedThere(V, rv)
<1>1. PICK M \in Matchings(S) :
         LET W == WithRenames(V, M)
             P == Without(W, IF partial THEN Deletes \cup Renames
                             ELSE IF OverBudget(W) THEN Deletes ELSE {})
         IN  plan' = P /\ todo' = {p \in Paths : P[p].op \in Executed} \ backoff
  BY Zenon DEF Plan
<1> DEFINE W == WithRenames(V, M)
           out == IF partial THEN Deletes \cup Renames
                  ELSE IF OverBudget(W) THEN Deletes ELSE {}
<1>2. rv \in Rows
  BY ScannedRemoteTyped DEF TypeOK
<1>3. /\ S \in SUBSET (Paths \X Paths)
      /\ S \subseteq RenamedHere(V, rv) \cup RenamedThere(V, rv)
      /\ M \in SUBSET S
  BY DEF Matchings, RenamedHere, RenamedThere
<1>4. plan' = Without(W, out) /\ todo' \subseteq Paths
  BY <1>1
<1> HIDE DEF rv, V, partial, S, W, out
<1>5. ASSUME NEW p \in Paths
      PROVE  /\ W[p] \in Planned
             /\ W[p].op \in Pending => W[p].row \in FileEntries
             /\ W[p].op \in Renames => W[p].from \in Paths
             /\ W[p].op \in Deletes => W[p].op = V[p].op
             /\ W[p].op \in Renames => \E q \in Paths : V[q].op \in Deletes
  BY <1>2, <1>3, RenamesTyped DEF V, W
<1>6. Idle \in Planned /\ Idle.op \notin Pending \cup Renames \cup Deletes
  BY DEF Idle, Planned, Pending, Renames, Deletes, Executed, LocalOps, RemoteOps
<1>7. \A p \in Paths : plan'[p] = IF W[p].op \in out THEN Idle ELSE W[p]
  BY <1>4 DEF Without
<1>8. plan' \in [Paths -> Planned]
  BY <1>4, <1>5, <1>6 DEF Without
<1>9. ASSUME NEW p \in Paths, plan'[p].op \in Deletes PROVE plan'[p].op = V[p].op /\ ~partial
  BY <1>5, <1>6, <1>7, <1>9 DEF out
<1>10. ASSUME NEW p \in Paths, p \in excluded PROVE plan'[p].row = Nil
  <2>1. V[p] = Verdict("none", Nil)
    BY <1>10 DEF V, Verdicts
  <2>2. W[p].row = Nil
    BY <2>1 DEF W, WithRenames, Verdict, Idle
  <2> QED
    BY <1>7, <2>2 DEF Idle
<1>11. ASSUME Guarded PROVE Cardinality({p \in Paths : plan'[p].op \in Deletes}) <= Allowance
  <2>1. CASE out = {} /\ ~OverBudget(W)
    <3>1. {p \in Paths : plan'[p].op \in Deletes} = PlannedDeletes(W)
      BY <1>7, <2>1 DEF PlannedDeletes
    <3>2. PlannedDeletes(W) \in SUBSET Paths
      BY DEF PlannedDeletes
    <3>3. Cardinality(PlannedDeletes(W)) \in Nat
      BY <3>2, Constants, FS_Subset, FS_CardinalityType
    <3>4. Cardinality(PlannedDeletes(W)) <= Allowance
      BY <1>11, <2>1, <3>3, AllowanceTyped DEF OverBudget
    <3> QED
      BY <3>1, <3>4
  <2>2. CASE Deletes \subseteq out
    <3>1. {p \in Paths : plan'[p].op \in Deletes} = {}
      BY <1>6, <1>7, <2>2
    <3> QED
      BY <3>1, FS_EmptySet, AllowanceTyped
  <2> QED
    BY <2>1, <2>2 DEF out
<1> QED
  BY <1>4, <1>5, <1>6, <1>7, <1>8, <1>9, <1>10, <1>11 DEF rv, V, partial, FullView
-----------------------------------------------------------------------------
(* Every step preserves the invariant.                                       *)

LEMMA FaultTyped ==
  ASSUME TypeOK, NEW kind, Fault(kind) PROVE faults' \in 0..MaxFaults
  BY Constants DEF TypeOK, Fault

\* A run that is over leaves nothing behind.
LEMMA ResetPreserves ==
  ASSUME IInv, Reset, UNCHANGED <<world, excluded, clock, history>>,
         base' = base, backoff' \subseteq Paths, faults' \in 0..MaxFaults
  PROVE  IInv'
<1>1. /\ NoTree \in Rows /\ NoTree \in Tree /\ NoPlan \in [Paths -> Planned]
      /\ NoTree \in [Paths -> Paths \cup {Nil}] /\ NoTree \in [Paths -> Staged \cup {Nil}]
  BY DEF NoTree, Tree, Rows, NoPlan, Planned, Idle
<1>2. TypeOK'
  BY <1>1 DEF IInv, TypeOK, Reset, world, history, Modes
<1>3. /\ PlansAreComplete' /\ StagedAreTransfers' /\ NoWorkBeforePlan'
  BY DEF Reset, PlansAreComplete, StagedAreTransfers, NoWorkBeforePlan, NoPlan, NoTree,
         Idle, Pending, Executed, Renames, LocalOps, RemoteOps, Deletes
<1> QED
  BY <1>2, <1>3 DEF IInv

LEMMA ScanPreserves ==
  ASSUME IInv, NEW m \in Modes, NEW miss, NEW carried, NEW isBlind \in BOOLEAN,
         Scan(m, miss, carried, isBlind), faults' \in 0..MaxFaults
  PROVE  IInv'
<1>1. NoTree \in Rows
  BY DEF NoTree, Rows
<1>2. seen' \in Rows
  BY <1>1, ScannedLocalTyped DEF IInv, TypeOK, Scan
<1>3. truth' \in [l : Tree, r : Tree]
  BY DEF IInv, TypeOK, Scan
<1>4. TypeOK'
  BY <1>2, <1>3 DEF IInv, TypeOK, Scan, world, store, work, history
<1>5. PlansAreComplete' /\ StagedAreTransfers' /\ NoWorkBeforePlan'
  BY DEF IInv, PlansAreComplete, StagedAreTransfers, NoWorkBeforePlan, Scan, work
<1> QED
  BY <1>4, <1>5 DEF IInv

LEMMA BeginPreserves ==
  ASSUME IInv, Begin PROVE IInv'
<1>1. PICK m \in Modes :
         ScanLocal(m) \/ ScanLocalBlind(m) \/ ScanLocalCarried(m) \/ ScanEmptyRoot(m)
  BY DEF Begin
<1>2. faults \in 0..MaxFaults
  BY DEF IInv, TypeOK
<1>3. CASE ScanLocal(m)
  BY <1>2, <1>3, ScanPreserves DEF ScanLocal
<1>4. CASE ScanLocalBlind(m)
  BY <1>4, FaultTyped, ScanPreserves DEF ScanLocalBlind, IInv
<1>5. CASE ScanLocalCarried(m)
  BY <1>5, FaultTyped, ScanPreserves DEF ScanLocalCarried, IInv
<1>6. CASE ScanEmptyRoot(m)
  BY <1>6, FaultTyped, ScanPreserves DEF ScanEmptyRoot, IInv
<1> QED
  BY <1>1, <1>3, <1>4, <1>5, <1>6

LEMMA PlanPreserves ==
  ASSUME IInv, NEW miss, NEW noRoot, Plan(miss, noRoot), faults' \in 0..MaxFaults
  PROVE  IInv'
<1>1. /\ plan' \in [Paths -> Planned] /\ todo' \subseteq Paths
      /\ PlansAreComplete'
  BY PlanTyped DEF IInv, PlansAreComplete
<1>2. /\ pc = "listing" /\ pc' \in {"base", "apply"}
      /\ truth' = [truth EXCEPT !.r = remote]
      /\ UNCHANGED <<world, store, excluded, clock, input, done, gone, failed, copyOf,
                     staged, cancelled, history>>
  BY DEF Plan
<1>3. TypeOK'
  BY <1>1, <1>2 DEF IInv, TypeOK, world, store, input, history
<1>4. StagedAreTransfers' /\ NoWorkBeforePlan'
  BY <1>2 DEF IInv, StagedAreTransfers, NoWorkBeforePlan, NoTree
<1> QED
  BY <1>1, <1>3, <1>4 DEF IInv

LEMMA ListPreserves ==
  ASSUME IInv, List PROVE IInv'
<1>1. faults \in 0..MaxFaults
  BY DEF IInv, TypeOK
<1>2. CASE ListAndPlan
  BY <1>1, <1>2, PlanPreserves DEF ListAndPlan
<1>3. CASE ListPartly
  BY <1>3, FaultTyped, PlanPreserves DEF ListPartly, IInv
<1>4. CASE ListRootMissing
  BY <1>4, FaultTyped, PlanPreserves DEF ListRootMissing, IInv
<1>5. CASE ListFails
  BY <1>5, FaultTyped, ResetPreserves DEF ListFails, IInv, TypeOK, store
<1> QED
  BY <1>2, <1>3, <1>4, <1>5 DEF List
\* The bookkeeping of an operation stays within the paths.
LEMMA OutcomeTyped ==
  ASSUME TypeOK, NEW p \in Paths, NEW rows \in SUBSET Paths,
         Outcome(p, rows) \/ Succeeded(p, rows) \/ (Failed(p) /\ faults' \in 0..MaxFaults)
  PROVE  /\ todo' \subseteq Paths /\ done' \subseteq Paths
         /\ gone' \subseteq Paths /\ failed' \subseteq Paths
         /\ faults' \in 0..MaxFaults
  BY FaultTyped DEF TypeOK, Outcome, Succeeded, Failed, TimedOut

\* What an operation does to the trees, if only the plan, the copies and the staged
\* files hold together afterwards.
LEMMA OperationPreserves ==
  ASSUME IInv, pc \in {"apply", "retry"}, UNCHANGED steady,
         local' \in Tree, remote' \in Tree,
         localTrash' \subseteq Paths \X File, remoteTrash' \subseteq Paths \X File,
         todo' \subseteq Paths, done' \subseteq Paths, gone' \subseteq Paths,
         failed' \subseteq Paths, faults' \in 0..MaxFaults,
         plan' \in [Paths -> Planned], PlansAreComplete',
         copyOf' \in [Paths -> Paths \cup {Nil}],
         staged' \in [Paths -> Staged \cup {Nil}], StagedAreTransfers'
  PROVE  IInv'
<1>1. TypeOK'
  BY DEF IInv, TypeOK, steady, store, input, history
<1>2. NoWorkBeforePlan'
  BY DEF NoWorkBeforePlan, steady
<1> QED
  BY <1>1, <1>2 DEF IInv

LEMMA ReplacedTyped ==
  ASSUME NEW tree \in Tree, NEW p \in Paths PROVE Replaced(tree, p) \subseteq Paths \X File
  BY DEF Replaced, Tree

LEMMA TreesTyped ==
  ASSUME NEW tree \in Tree, NEW p \in Paths, NEW q \in Paths,
         NEW f \in File \cup {Nil}, NEW g \in File \cup {Nil}
  PROVE  [tree EXCEPT ![p] = f] \in Tree /\ [tree EXCEPT ![p] = f, ![q] = g] \in Tree
  BY DEF Tree

\* An operation done in one go leaves the plan and the staged files alone.
LEMMA PlainOperationPreserves ==
  ASSUME IInv, pc = "apply", UNCHANGED <<plan, copyOf, staged, steady>>,
         NEW p \in Paths, NEW rows \in SUBSET Paths, Outcome(p, rows) \/ Succeeded(p, rows),
         local' \in Tree, remote' \in Tree,
         localTrash' \subseteq Paths \X File, remoteTrash' \subseteq Paths \X File
  PROVE  IInv'
<1>1. PlansAreComplete' /\ StagedAreTransfers'
  BY DEF IInv, PlansAreComplete, StagedAreTransfers
<1>2. TypeOK
  BY DEF IInv
<1> QED
  BY <1>1, <1>2, OutcomeTyped, OperationPreserves DEF TypeOK

LEMMA WorldTyped ==
  ASSUME IInv
  PROVE  /\ local \in Tree /\ remote \in Tree
         /\ \A p \in Paths : local[p] \in File \cup {Nil} /\ remote[p] \in File \cup {Nil}
         /\ localTrash \subseteq Paths \X File /\ remoteTrash \subseteq Paths \X File
         /\ \A p \in Paths : plan[p].op \in Renames => plan[p].from \in Paths
  BY DEF IInv, TypeOK, Tree, PlansAreComplete

LEMMA UploadPreserves ==
  ASSUME IInv, NEW p \in Paths, Upload(p) PROVE IInv'
<1>1. remote' \in Tree /\ remoteTrash' \subseteq Paths \X File
  BY WorldTyped, TreesTyped, ReplacedTyped DEF Upload
<1>2. /\ pc = "apply" /\ UNCHANGED <<local, localTrash, plan, copyOf, staged, steady>>
      /\ Outcome(p, {})
  BY DEF Upload, Takes
<1> QED
  BY <1>1, <1>2, WorldTyped, PlainOperationPreserves

LEMMA DeleteRemotePreserves ==
  ASSUME IInv, NEW p \in Paths, DeleteRemote(p) PROVE IInv'
<1>1. remote' \in Tree /\ remoteTrash' \subseteq Paths \X File
  BY WorldTyped, TreesTyped, ReplacedTyped DEF DeleteRemote
<1>2. /\ pc = "apply" /\ UNCHANGED <<local, localTrash, plan, copyOf, staged, steady>>
      /\ Outcome(p, {p})
  BY DEF DeleteRemote, Takes
<1> QED
  BY <1>1, <1>2, WorldTyped, PlainOperationPreserves

LEMMA DeleteLocalPreserves ==
  ASSUME IInv, NEW p \in Paths, DeleteLocal(p) PROVE IInv'
<1>1. local' \in Tree /\ localTrash' \subseteq Paths \X File
  BY WorldTyped, TreesTyped, ReplacedTyped DEF DeleteLocal
<1>2. /\ pc = "apply" /\ UNCHANGED <<remote, remoteTrash, plan, copyOf, staged, steady>>
      /\ Succeeded(p, {p})
  BY DEF DeleteLocal, Takes
<1> QED
  BY <1>1, <1>2, WorldTyped, PlainOperationPreserves

LEMMA RenameRemotePreserves ==
  ASSUME IInv, NEW p \in Paths, RenameRemote(p) PROVE IInv'
<1>1. plan[p].from \in Paths
  BY WorldTyped DEF RenameRemote, Takes, Renames
<1>2. remote' \in Tree /\ remoteTrash' \subseteq Paths \X File
  BY <1>1, WorldTyped, TreesTyped, ReplacedTyped DEF RenameRemote
<1>3. /\ pc = "apply" /\ UNCHANGED <<local, localTrash, plan, copyOf, staged, steady>>
      /\ Outcome(p, {plan[p].from})
  BY DEF RenameRemote, Takes
<1> QED
  BY <1>1, <1>2, <1>3, WorldTyped, PlainOperationPreserves

LEMMA RenameLocalPreserves ==
  ASSUME IInv, NEW p \in Paths, RenameLocal(p) PROVE IInv'
<1>1. plan[p].from \in Paths /\ plan[p].row \in FileEntries
  BY DEF IInv, PlansAreComplete, RenameLocal, Takes, Renames, Pending, Executed, LocalOps,
         Deletes
<1>2. local[plan[p].from] \in File
  BY <1>1, WorldTyped DEF RenameLocal
<1>3. [v |-> local[plan[p].from].v, t |-> plan[p].row.t] \in File
  BY <1>1, <1>2 DEF File, FileEntries
<1>4. local' \in Tree
  BY <1>1, <1>3, WorldTyped, TreesTyped DEF RenameLocal
<1>5. /\ pc = "apply" /\ UNCHANGED <<remote, remoteTrash, localTrash, plan, copyOf, staged, steady>>
      /\ Succeeded(p, {plan[p].from})
  BY DEF RenameLocal, Takes
<1> QED
  BY <1>1, <1>4, <1>5, WorldTyped, PlainOperationPreserves
LEMMA ConflictAsidePreserves ==
  ASSUME IInv, NEW p \in Paths, NEW c \in Paths, ConflictAside(p, c) PROVE IInv'
<1>1. local' \in Tree
  BY WorldTyped, TreesTyped DEF ConflictAside
<1>2. copyOf' = [copyOf EXCEPT ![p] = c] /\ c # Nil
  BY Constants DEF ConflictAside
<1>3. copyOf' \in [Paths -> Paths \cup {Nil}]
  BY <1>2 DEF IInv, TypeOK
<1>4. /\ pc = "apply" /\ plan[p].op = "conflict" /\ UNCHANGED steady
      /\ UNCHANGED <<remote, localTrash, remoteTrash, plan, todo, done, gone, failed,
                     staged, faults>>
  BY DEF ConflictAside, Takes
<1>5. StagedAreTransfers' /\ PlansAreComplete'
  BY <1>2, <1>4 DEF IInv, TypeOK, StagedAreTransfers, PlansAreComplete
<1> QED
  BY <1>1, <1>3, <1>4, <1>5, OperationPreserves DEF IInv, TypeOK

LEMMA FetchPreserves ==
  ASSUME IInv, NEW p \in Paths, Fetch(p) PROVE IInv'
<1>1. /\ pc = "apply" /\ UNCHANGED <<world, plan, todo, done, gone, failed, copyOf, faults, steady>>
      /\ staged' = [staged EXCEPT ![p] = [f |-> remote[p], at |-> "fetched"]]
      /\ plan[p].op = "download" \/ (plan[p].op = "conflict" /\ copyOf[p] # Nil)
  BY DEF Fetch, MayFetch
<1>2. [f |-> remote[p], at |-> "fetched"] \in Staged
  BY WorldTyped DEF Fetch, Staged
<1>3. staged' \in [Paths -> Staged \cup {Nil}]
  BY <1>1, <1>2 DEF IInv, TypeOK
<1>4. StagedAreTransfers' /\ PlansAreComplete'
  <2>1. staged \in [Paths -> Staged \cup {Nil}]
    BY DEF IInv, TypeOK
  <2>2. /\ \A q \in Paths : q # p => staged'[q] = staged[q]
        /\ staged'[p] = [f |-> remote[p], at |-> "fetched"]
    BY <1>1, <2>1
  <2>3. staged'[p].at = "fetched"
    BY <2>2
  <2> QED
    BY <1>1, <2>2, <2>3 DEF IInv, StagedAreTransfers, PlansAreComplete
<1> QED
  BY <1>1, <1>3, <1>4, OperationPreserves DEF IInv, TypeOK, world

\* Nothing is staged, and no conflict has its copy, outside the run's last stages.
LEMMA InFlightWhen ==
  ASSUME IInv, NEW p \in Paths, staged[p] # Nil \/ copyOf[p] # Nil
  PROVE  pc \in {"apply", "retry"}
  BY DEF IInv, TypeOK, NoWorkBeforePlan, NoTree

LEMMA InstallCheckPreserves ==
  ASSUME IInv, NEW p \in Paths, InstallCheck(p) PROVE IInv'
<1>1. /\ staged[p] # Nil /\ staged[p] \in Staged /\ staged[p].at = "fetched"
  BY DEF InstallCheck, At, IInv, TypeOK
<1>2. plan[p].row \in FileEntries
  BY <1>1 DEF IInv, StagedAreTransfers, PlansAreComplete, Pending, Executed, LocalOps, Deletes
<1>3. PICK t \in Nat :
         staged' = [staged EXCEPT ![p] = [f |-> [v |-> staged[p].f.v, t |-> t], at |-> "checked"]]
  BY <1>1, <1>2 DEF InstallCheck, FileEntries, Staged, File
<1>4. [f |-> [v |-> staged[p].f.v, t |-> t], at |-> "checked"] \in Staged
  BY <1>1, <1>3 DEF Staged, File
<1>5. staged' \in [Paths -> Staged \cup {Nil}]
  BY <1>3, <1>4 DEF IInv, TypeOK
<1>6. UNCHANGED <<world, plan, todo, done, gone, failed, copyOf, faults, steady>>
  BY DEF InstallCheck
<1>7. StagedAreTransfers' /\ PlansAreComplete'
  BY <1>1, <1>3, <1>6 DEF IInv, TypeOK, StagedAreTransfers, PlansAreComplete
<1>8. pc \in {"apply", "retry"}
  BY <1>1, InFlightWhen
<1> QED
  BY <1>5, <1>6, <1>7, <1>8, OperationPreserves DEF IInv, TypeOK, world

LEMMA InstallRenamePreserves ==
  ASSUME IInv, NEW p \in Paths, InstallRename(p) PROVE IInv'
<1>1. staged[p] # Nil /\ staged[p] \in Staged /\ staged[p].at = "checked"
  BY DEF InstallRename, At, IInv, TypeOK
<1>2. staged[p].f \in File /\ staged[p] = [f |-> staged[p].f, at |-> "checked"]
  BY <1>1 DEF Staged
<1>3. local' \in Tree
  BY <1>2, WorldTyped, TreesTyped DEF InstallRename
<1>4. pc \in {"apply", "retry"}
  BY <1>1, InFlightWhen
<1>5. UNCHANGED <<remote, localTrash, remoteTrash, plan, copyOf, steady>>
  BY DEF InstallRename
<1>6. /\ staged' \in [Paths -> Staged \cup {Nil}] /\ StagedAreTransfers'
      /\ todo' \subseteq Paths /\ done' \subseteq Paths /\ gone' \subseteq Paths
      /\ failed' \subseteq Paths /\ faults' \in 0..MaxFaults
  <2>1. CASE plan[p].op = "conflict"
    <3>1. staged' = [staged EXCEPT ![p] = [f |-> staged[p].f, at |-> "installed"]]
      BY <1>2, <2>1 DEF InstallRename, IInv, TypeOK, Staged
    <3>2. [f |-> staged[p].f, at |-> "installed"] \in Staged
      BY <1>2 DEF Staged
    <3>3. UNCHANGED <<todo, done, gone, failed, faults>>
      BY <2>1 DEF InstallRename
    <3> QED
      BY <1>1, <1>5, <2>1, <3>1, <3>2, <3>3 DEF IInv, TypeOK, StagedAreTransfers
  <2>2. CASE plan[p].op # "conflict"
    <3>1. staged' = [staged EXCEPT ![p] = Nil] /\ Succeeded(p, {})
      BY <2>2 DEF InstallRename
    <3> QED
      BY <1>5, <3>1, OutcomeTyped DEF IInv, TypeOK, StagedAreTransfers
  <2> QED
    BY <2>1, <2>2
<1>7. PlansAreComplete'
  BY <1>5 DEF IInv, PlansAreComplete
<1> QED
  BY <1>3, <1>4, <1>5, <1>6, <1>7, OperationPreserves DEF IInv, TypeOK

LEMMA ConflictUploadPreserves ==
  ASSUME IInv, NEW p \in Paths, ConflictUpload(p) PROVE IInv'
<1> DEFINE c == copyOf[p]
           row == [dir |-> FALSE, v |-> local[c].v, t |-> NoTime, h |-> FALSE]
<1>1. staged[p] # Nil /\ staged[p].at = "installed"
  BY DEF ConflictUpload, At
<1>2. c \in Paths /\ local[c] \in File
  <2>1. copyOf[p] # Nil
    BY <1>1 DEF IInv, StagedAreTransfers
  <2>2. c \in Paths
    BY <2>1 DEF IInv, TypeOK
  <2> QED
    BY <2>2, WorldTyped DEF ConflictUpload
<1>3. pc \in {"apply", "retry"}
  BY <1>1, InFlightWhen
<1>4. remote' \in Tree /\ remoteTrash' \subseteq Paths \X File
  BY <1>2, WorldTyped, TreesTyped, ReplacedTyped DEF ConflictUpload
<1>5. /\ todo' \subseteq Paths /\ done' \subseteq Paths /\ gone' \subseteq Paths
      /\ failed' \subseteq Paths /\ faults' \in 0..MaxFaults
  BY OutcomeTyped DEF ConflictUpload, Outcome, IInv
<1>6. row \in FileEntries
  BY <1>2 DEF FileEntries, NoTime, File
<1>7. plan' = [plan EXCEPT ![c].row = row] \/ plan' = plan
  BY DEF ConflictUpload
<1> HIDE DEF c, row
<1>8. /\ plan' \in [Paths -> Planned]
      /\ \A q \in Paths : /\ plan'[q].op = plan[q].op /\ plan'[q].from = plan[q].from
                          /\ plan'[q].row = plan[q].row \/ plan'[q].row = row
  <2>1. plan \in [Paths -> Planned]
    BY DEF IInv, TypeOK
  <2>2. CASE plan' = plan
    BY <2>1, <2>2
  <2>3. CASE plan' = [plan EXCEPT ![c].row = row]
    <3>1. plan' = [plan EXCEPT ![c] = [op |-> plan[c].op, row |-> row, from |-> plan[c].from]]
      <4>1. plan[c] \in Planned
        BY <1>2, <2>1
      <4>2. [plan[c] EXCEPT !.row = row] = [op |-> plan[c].op, row |-> row, from |-> plan[c].from]
        BY <4>1 DEF Planned
      <4>3. plan' = [plan EXCEPT ![c] = [plan[c] EXCEPT !.row = row]]
        BY <2>3
      <4> QED
        BY <4>2, <4>3
    <3>2. [op |-> plan[c].op, row |-> row, from |-> plan[c].from] \in Planned
      BY <1>2, <1>6, <2>1 DEF Planned
    <3> QED
      BY <2>1, <3>1, <3>2
  <2> QED
    BY <1>7, <2>2, <2>3
<1>9. PlansAreComplete'
  BY <1>6, <1>8 DEF IInv, PlansAreComplete
<1>10. /\ staged' = [staged EXCEPT ![p] = Nil] /\ copyOf' = [copyOf EXCEPT ![p] = Nil]
       /\ UNCHANGED <<local, localTrash, steady>>
  BY DEF ConflictUpload
<1>11. /\ staged' \in [Paths -> Staged \cup {Nil}]
       /\ copyOf' \in [Paths -> Paths \cup {Nil}]
       /\ StagedAreTransfers'
  BY <1>8, <1>10 DEF IInv, TypeOK, StagedAreTransfers
<1> QED
  BY <1>3, <1>4, <1>5, <1>8, <1>9, <1>10, <1>11, OperationPreserves DEF IInv, TypeOK

LEMMA OpFailsPreserves ==
  ASSUME IInv, NEW p \in Paths, OpFails(p) PROVE IInv'
<1>1. pc \in {"apply", "retry"}
  BY InFlightWhen DEF OpFails, Running, Takes, MayFetch, InFlight
<1>2. Failed(p) /\ faults' \in 0..MaxFaults
  BY FaultTyped DEF OpFails, IInv, TypeOK
<1>3. /\ staged' = [staged EXCEPT ![p] = Nil] /\ copyOf' = [copyOf EXCEPT ![p] = Nil]
      /\ UNCHANGED <<world, plan, steady>>
  BY DEF OpFails
<1>4. /\ staged' \in [Paths -> Staged \cup {Nil}]
      /\ copyOf' \in [Paths -> Paths \cup {Nil}]
      /\ StagedAreTransfers' /\ PlansAreComplete'
  BY <1>3 DEF IInv, TypeOK, StagedAreTransfers, PlansAreComplete
<1> QED
  BY <1>1, <1>2, <1>3, <1>4, OutcomeTyped, OperationPreserves DEF IInv, TypeOK, world

LEMMA ApplyPreserves ==
  ASSUME IInv, Apply PROVE IInv'
<1>1. CASE EnsureBase
  BY <1>1 DEF IInv, EnsureBase, TypeOK, PlansAreComplete, StagedAreTransfers, NoWorkBeforePlan,
              world, store, input, work, history
<1>2. CASE EnsureBaseFails
  BY <1>2, FaultTyped, ResetPreserves DEF EnsureBaseFails, IInv, TypeOK, store
<1>3. ASSUME NEW p \in Paths, Op(p) PROVE IInv'
  BY <1>3, UploadPreserves, DeleteRemotePreserves, DeleteLocalPreserves, RenameRemotePreserves,
     RenameLocalPreserves, ConflictAsidePreserves, FetchPreserves, InstallCheckPreserves,
     InstallRenamePreserves, ConflictUploadPreserves, OpFailsPreserves DEF Op
<1> QED
  BY <1>1, <1>2, <1>3 DEF Apply

\* A row enters the baseline only from a plan.
LEMMA CommitPreserves ==
  ASSUME IInv, Commit PROVE IInv'
<1>1. \A p \in Paths : base'[p] \in FileEntries \cup {Nil}
  BY DEF Commit, Confirmed, IInv, TypeOK, Rows, Planned
<1>2. base' \in Rows
  BY <1>1 DEF Commit, Rows
<1>3. apart' \subseteq Paths
  BY DEF Commit, IInv, TypeOK
<1>4. /\ pc' = "retry"
      /\ UNCHANGED <<world, backoff, excluded, clock, faults, input, plan, work, cancelled,
                     truth, discarded, dismissed>>
  BY DEF Commit
<1> QED
  BY <1>2, <1>3, <1>4
     DEF IInv, TypeOK, PlansAreComplete, StagedAreTransfers, NoWorkBeforePlan, world, input, work

LEMMA FinishPreserves ==
  ASSUME IInv, Finish PROVE IInv'
<1>1. CASE CommitFails
  <2>1. faults' \in 0..MaxFaults
    BY <1>1, FaultTyped DEF CommitFails, IInv
  <2>2. /\ pc' = "retry"
        /\ UNCHANGED <<world, store, excluded, clock, input, plan, work, cancelled, truth, history>>
    BY <1>1 DEF CommitFails
  <2> QED
    BY <2>1, <2>2 DEF IInv, TypeOK, PlansAreComplete, StagedAreTransfers, NoWorkBeforePlan,
                      world, store, input, work, history
<1>2. CASE SaveRetries
  BY <1>2, ResetPreserves DEF SaveRetries, IInv, TypeOK
<1> QED
  BY <1>1, <1>2, CommitPreserves DEF Finish

\* What is not the run's changes the two trees, their trashes and the histories only.
LEMMA MovePreserves ==
  ASSUME IInv, local' \in Tree, remote' \in Tree,
         localTrash' \subseteq Paths \X File, remoteTrash' \subseteq Paths \X File,
         clock' \in 0..MaxClock, discarded' \subseteq Versions, dismissed' \subseteq Versions,
         UNCHANGED <<store, excluded, faults, pc, input, plan, work, cancelled, truth, apart>>
  PROVE  IInv'
  BY DEF IInv, TypeOK, PlansAreComplete, StagedAreTransfers, NoWorkBeforePlan, store, input, work

LEMMA ContentsTyped ==
  ASSUME NEW tree \in Tree, NEW p \in Paths PROVE Contents(tree, p) \subseteq Versions
  BY DEF Contents, Tree, File

LEMMA HistoryTyped ==
  ASSUME IInv
  PROVE  clock \in 0..MaxClock /\ discarded \subseteq Versions /\ dismissed \subseteq Versions
  BY DEF IInv, TypeOK

LEMMA NewFileTyped ==
  ASSUME IInv, clock < MaxClock PROVE NewFile \in File /\ clock + 1 \in 0..MaxClock
  BY HistoryTyped, Constants DEF NewFile, File

LEMMA LocalMovePreserves ==
  ASSUME IInv, NEW p \in Paths, NEW q \in Paths,
         LocalEdit(p) \/ LocalDeletes(p) \/ LocalRestore(p) \/ LocalRename(p, q)
  PROVE  IInv'
<1> USE WorldTyped, HistoryTyped
<1>1. UNCHANGED <<remote, remoteTrash, store, excluded, faults, pc, input, plan, work,
                  cancelled, truth, apart>>
  BY DEF LocalEdit, LocalDeletes, LocalRestore, LocalRename, localMove, history
<1>2. CASE LocalEdit(p)
  <2>1. local' \in Tree /\ clock' \in 0..MaxClock
    BY <1>2, TreesTyped, NewFileTyped DEF LocalEdit
  <2>2. discarded' \subseteq Versions
    BY <1>2, ContentsTyped DEF LocalEdit
  <2>3. UNCHANGED <<localTrash, dismissed>>
    BY <1>2 DEF LocalEdit
  <2> QED
    BY <1>1, <2>1, <2>2, <2>3, MovePreserves
<1>3. CASE LocalDeletes(p)
  <2>1. local' \in Tree /\ localTrash' \subseteq Paths \X File
    BY <1>3, TreesTyped, ReplacedTyped DEF LocalDeletes
  <2>2. dismissed' \subseteq Versions
    BY <1>3, ContentsTyped DEF LocalDeletes
  <2>3. UNCHANGED <<clock, discarded>>
    BY <1>3 DEF LocalDeletes
  <2> QED
    BY <1>1, <2>1, <2>2, <2>3, MovePreserves
<1>4. CASE LocalRestore(p)
  <2>1. PICK e \in localTrash : /\ e[1] = p
                                /\ local' = [local EXCEPT ![p] = e[2]]
                                /\ localTrash' = localTrash \ {e}
                                /\ dismissed' = dismissed \ {e[2].v}
    BY <1>4 DEF LocalRestore
  <2>2. local' \in Tree
    BY <2>1, TreesTyped
  <2>3. UNCHANGED <<clock, discarded>>
    BY <1>4 DEF LocalRestore
  <2> QED
    BY <1>1, <2>1, <2>2, <2>3, MovePreserves
<1>5. CASE LocalRename(p, q)
  <2>1. local' \in Tree
    BY <1>5, TreesTyped DEF LocalRename
  <2>2. UNCHANGED <<localTrash, clock, discarded, dismissed>>
    BY <1>5 DEF LocalRename, history
  <2> QED
    BY <1>1, <2>1, <2>2, MovePreserves
<1> QED
  BY <1>2, <1>3, <1>4, <1>5

LEMMA RemoteMovePreserves ==
  ASSUME IInv, NEW p \in Paths, NEW q \in Paths,
         RemoteEdit(p) \/ RemoteDeletes(p) \/ RemoteRestore(p) \/ RemoteRename(p, q)
  PROVE  IInv'
<1> USE WorldTyped, HistoryTyped
<1>1. UNCHANGED <<local, localTrash, store, excluded, faults, pc, input, plan, work,
                  cancelled, truth, apart>>
  BY DEF RemoteEdit, RemoteDeletes, RemoteRestore, RemoteRename, remoteMove, history
<1>2. CASE RemoteEdit(p)
  <2>1. remote' \in Tree /\ clock' \in 0..MaxClock
    BY <1>2, TreesTyped, NewFileTyped DEF RemoteEdit
  <2>2. discarded' \subseteq Versions
    BY <1>2, ContentsTyped DEF RemoteEdit
  <2>3. UNCHANGED <<remoteTrash, dismissed>>
    BY <1>2 DEF RemoteEdit
  <2> QED
    BY <1>1, <2>1, <2>2, <2>3, MovePreserves
<1>3. CASE RemoteDeletes(p)
  <2>1. remote' \in Tree /\ remoteTrash' \subseteq Paths \X File
    BY <1>3, TreesTyped, ReplacedTyped DEF RemoteDeletes
  <2>2. dismissed' \subseteq Versions
    BY <1>3, ContentsTyped DEF RemoteDeletes
  <2>3. UNCHANGED <<clock, discarded>>
    BY <1>3 DEF RemoteDeletes
  <2> QED
    BY <1>1, <2>1, <2>2, <2>3, MovePreserves
<1>4. CASE RemoteRestore(p)
  <2>1. PICK e \in remoteTrash : /\ e[1] = p
                                /\ remote' = [remote EXCEPT ![p] = e[2]]
                                /\ remoteTrash' = remoteTrash \ {e}
                                /\ dismissed' = dismissed \ {e[2].v}
    BY <1>4 DEF RemoteRestore
  <2>2. remote' \in Tree
    BY <2>1, TreesTyped
  <2>3. UNCHANGED <<clock, discarded>>
    BY <1>4 DEF RemoteRestore
  <2> QED
    BY <1>1, <2>1, <2>2, <2>3, MovePreserves
<1>5. CASE RemoteRename(p, q)
  <2>1. remote' \in Tree
    BY <1>5, TreesTyped DEF RemoteRename
  <2>2. UNCHANGED <<remoteTrash, clock, discarded, dismissed>>
    BY <1>5 DEF RemoteRename, history
  <2> QED
    BY <1>1, <2>1, <2>2, MovePreserves
<1> QED
  BY <1>2, <1>3, <1>4, <1>5

LEMMA EnvironmentPreserves ==
  ASSUME IInv, Environment PROVE IInv'
<1>1. CASE Cancel
  <2>1. faults' \in 0..MaxFaults
    BY <1>1, FaultTyped DEF Cancel, IInv
  <2>2. cancelled' \in BOOLEAN
    BY <1>1 DEF Cancel
  <2> QED
    BY <1>1, <2>1, <2>2 DEF Cancel, IInv, TypeOK, PlansAreComplete, StagedAreTransfers,
                            NoWorkBeforePlan, world, store, input, work, history
<1>2. CASE Crash
  BY <1>2, FaultTyped, ResetPreserves DEF Crash, IInv, TypeOK, store
<1>3. ASSUME NEW p \in Paths, BackoffElapses(p) PROVE IInv'
  BY <1>3 DEF BackoffElapses, IInv, TypeOK, PlansAreComplete, StagedAreTransfers,
              NoWorkBeforePlan, world, input, work, history
<1>4. ASSUME NEW p \in Paths, ToggleExclude(p) PROVE IInv'
  BY <1>4 DEF ToggleExclude, IInv, TypeOK, PlansAreComplete, StagedAreTransfers,
              NoWorkBeforePlan, world, store, input, work, history
<1> QED
  BY <1>1, <1>2, <1>3, <1>4, LocalMovePreserves, RemoteMovePreserves DEF Environment

LEMMA StepPreserves == IInv /\ [Next]_vars => IInv'
<1> SUFFICES ASSUME IInv, [Next]_vars PROVE IInv'
  OBVIOUS
<1>1. CASE UNCHANGED vars
  BY <1>1 DEF vars, IInv, TypeOK, PlansAreComplete, StagedAreTransfers, NoWorkBeforePlan,
              world, store, input, work, history
<1>2. CASE Engine
  BY <1>2, BeginPreserves, ListPreserves, ApplyPreserves, FinishPreserves DEF Engine
<1>3. CASE Environment
  BY <1>3, EnvironmentPreserves
<1> QED
  BY <1>1, <1>2, <1>3 DEF Next

LEMMA Invariance == Spec => []IInv
  BY InitEstablishes, StepPreserves, PTL DEF Spec

\* Type correctness of the pair's run: every operation has, when it is carried out, the
\* row, the old name and the copy that it needs.
THEOREM TypeCorrect == Spec => []TypeOK
<1>1. IInv => TypeOK
  BY DEF IInv
<1> QED
  BY <1>1, Invariance, PTL

-----------------------------------------------------------------------------
(***************************************************************************)
(* The deletions of a pair's run: only what was gone when the run scanned,  *)
(* never more than the allowance, never on a resync, and never of a path    *)
(* that was left out of the sync.                                           *)
(***************************************************************************)

\* The run has its plan.
InRun == pc \in {"base", "apply"}

\* Between the scan and the listing: a file on record that the scan has not seen was not
\* there, unless the scan could not look or saw nothing at all.
ScanIsTrue ==
    pc = "listing" => \A p \in Paths \ excluded :
        seen[p] = Nil /\ Known[p] # Nil => truth.l[p] = Nil \/ blind \/ seen = NoTree

\* A planned deletion was decided in full view of the side it follows.
DeletionsSeen ==
    InRun => \A p \in Paths :
        /\ plan[p].op = "deleteRemote" => truth.l[p] = Nil \/ FewOnRecord
        /\ plan[p].op = "deleteLocal" => truth.r[p] = Nil

\* A resync plans none.
ResyncPlansNone ==
    InRun /\ mode = "resync" => \A p \in Paths : plan[p].op \notin Deletes \cup Renames

\* The plan keeps within the allowance.
PlanWithinAllowance ==
    InRun /\ Guarded => Cardinality({p \in Paths : plan[p].op \in Deletes}) <= Allowance

SInv == IInv /\ ScanIsTrue /\ DeletionsSeen /\ ResyncPlansNone /\ PlanWithinAllowance

LEMMA TruthTyped ==
  ASSUME IInv PROVE truth \in [l : Tree, r : Tree]
  BY DEF IInv, TypeOK

LEMMA EntriesAreNotNil ==
  ASSUME NEW f \in File, NEW hashed \in BOOLEAN PROVE AsEntry(f, hashed) # Nil
<1>1. AsEntry(f, hashed) \in Entries
  BY DEF AsEntry, File, Entries
<1> QED
  BY <1>1, NilAssumption

\* A scan that sees nothing of a file on record and is not blind saw an empty folder or
\* a file that is not there.
LEMMA ScanEstablishes ==
  ASSUME IInv, NEW m \in Modes, NEW miss, NEW carried, NEW isBlind \in BOOLEAN,
         Scan(m, miss, carried, isBlind), miss = {} \/ isBlind \/ Paths \subseteq miss
  PROVE  ScanIsTrue'
<1>1. /\ base' = base /\ mode' = m /\ blind' = isBlind /\ excluded' = excluded
      /\ seen' = ScannedLocal(miss, carried, IF m = "resync" THEN NoTree ELSE base)
      /\ truth' = [truth EXCEPT !.l = local]
  BY DEF Scan, store
<1>2. truth'.l = local
  BY <1>1, TruthTyped
<1> SUFFICES ASSUME NEW p \in Paths \ excluded, seen'[p] = Nil, (Known[p])' # Nil
             PROVE  local[p] = Nil \/ isBlind \/ seen' = NoTree
  BY <1>1, <1>2 DEF ScanIsTrue
<1>3. CASE Paths \subseteq miss
  BY <1>1, <1>3 DEF ScannedLocal, NoTree
<1>4. CASE miss = {}
  <2> DEFINE rows == IF m = "resync" THEN NoTree ELSE base
  <2>1. Known' = rows
    BY <1>1 DEF Known
  <2>2. CASE p \in carried /\ local[p] # Nil
    BY <1>1, <1>4, <2>1, <2>2 DEF ScannedLocal
  <2>3. CASE p \notin carried /\ local[p] # Nil
    <3>1. seen'[p] = LocalEntry(local[p], rows[p])
      BY <1>1, <1>4, <2>3 DEF ScannedLocal
    <3>2. CASE LocalEntry(local[p], rows[p]) = rows[p]
      BY <2>1, <3>1, <3>2
    <3>3. CASE LocalEntry(local[p], rows[p]) = AsEntry(local[p], C.compare = "sha1")
      <4>1. local[p] \in File /\ (C.compare = "sha1") \in BOOLEAN
        BY <2>3, WorldTyped
      <4> QED
        BY <3>1, <3>3, <4>1, EntriesAreNotNil
    <3> QED
      BY <3>2, <3>3 DEF LocalEntry
  <2> QED
    BY <2>2, <2>3
<1> QED
  BY <1>3, <1>4
LEMMA BeginEstablishes ==
  ASSUME SInv, Begin PROVE SInv'
<1>1. PICK m \in Modes :
         ScanLocal(m) \/ ScanLocalBlind(m) \/ ScanLocalCarried(m) \/ ScanEmptyRoot(m)
  BY DEF Begin
<1>2. IInv' /\ IInv
  BY BeginPreserves DEF SInv
<1>3. ScanIsTrue'
  <2>1. CASE ScanLocal(m)
    BY <1>2, <2>1, ScanEstablishes DEF ScanLocal
  <2>2. CASE ScanLocalBlind(m)
    BY <1>2, <2>2, ScanEstablishes DEF ScanLocalBlind
  <2>3. CASE ScanLocalCarried(m)
    BY <1>2, <2>3, ScanEstablishes DEF ScanLocalCarried
  <2>4. CASE ScanEmptyRoot(m)
    BY <1>2, <2>4, ScanEstablishes DEF ScanEmptyRoot
  <2> QED
    BY <1>1, <2>1, <2>2, <2>3, <2>4
<1>4. pc' = "listing"
  BY <1>1 DEF ScanLocal, ScanLocalBlind, ScanLocalCarried, ScanEmptyRoot, Scan
<1> QED
  BY <1>2, <1>3, <1>4 DEF SInv, DeletionsSeen, ResyncPlansNone, PlanWithinAllowance, InRun

\* What a plan deletes, the run saw to be gone from the other side.
LEMMA PlanEstablishes ==
  ASSUME SInv, NEW miss, NEW noRoot, Plan(miss, noRoot), noRoot \in BOOLEAN,
         faults' \in 0..MaxFaults
  PROVE  SInv'
<1> DEFINE rv == ScannedRemote(IF noRoot THEN Paths ELSE miss)
           V == Verdicts(rv)
<1>1. IInv /\ IInv' /\ TypeOK /\ rv \in Rows
  BY PlanPreserves, ScannedRemoteTyped DEF SInv, IInv, TypeOK
<1>2. /\ pc = "listing" /\ pc' \in {"base", "apply"}
      /\ truth' = [truth EXCEPT !.r = remote]
      /\ base' = base /\ excluded' = excluded /\ mode' = mode /\ seen' = seen
  BY DEF Plan, store, input
<1>3. truth'.l = truth.l /\ truth'.r = remote
  BY <1>1, <1>2, TruthTyped
<1>4. ASSUME NEW p \in Paths
      PROVE  /\ plan'[p].op \in Deletes => /\ plan'[p].op = V[p].op
                                           /\ FullView(miss, noRoot)
             /\ plan'[p].op \in Renames => \E q \in Paths : V[q].op \in Deletes
  BY <1>1, PlanTyped
<1>5. Guarded => Cardinality({p \in Paths : plan'[p].op \in Deletes}) <= Allowance
  BY <1>1, PlanTyped
<1> HIDE DEF V, rv
<1>6. ASSUME NEW p \in Paths, V[p].op \in Deletes
      PROVE  /\ V[p].op = "deleteRemote" => seen[p] = Nil
             /\ V[p].op = "deleteLocal" => rv[p] = Nil
             /\ Known[p] # Nil /\ p \notin excluded
  BY <1>1, <1>6, VerdictsTyped DEF V, Deletes
<1>7. mode = "resync" => \A p \in Paths : V[p].op \notin Deletes
  BY <1>6 DEF Known, NoTree
<1>8. ASSUME NEW p \in Paths, plan'[p].op = "deleteRemote"
      PROVE  truth.l[p] = Nil \/ (seen = NoTree /\ Tracked(base) < EmptyRootMin)
  <2>1. /\ V[p].op = "deleteRemote" /\ FullView(miss, noRoot)
        /\ mode # "resync" /\ seen[p] = Nil /\ Known[p] # Nil /\ p \notin excluded
    BY <1>4, <1>6, <1>7, <1>8 DEF Deletes
  <2>2. truth.l[p] = Nil \/ blind \/ seen = NoTree
    BY <1>2, <2>1 DEF SInv, ScanIsTrue
  <2>3. ~blind /\ (seen = NoTree => ~(Tracked(base) >= EmptyRootMin))
    BY <2>1 DEF FullView, Incomplete
  <2>4. Tracked(base) \in Nat /\ EmptyRootMin \in Nat
    BY TrackedTyped, PairSyncAssumption
  <2> QED
    BY <2>2, <2>3, <2>4
<1>9. ASSUME NEW p \in Paths, plan'[p].op = "deleteLocal" PROVE remote[p] = Nil
  <2>1. /\ V[p].op = "deleteLocal" /\ FullView(miss, noRoot)
        /\ mode # "resync" /\ rv[p] = Nil /\ Known[p] # Nil /\ p \notin excluded
    BY <1>4, <1>6, <1>7, <1>9 DEF Deletes
  <2>2. miss = {} /\ (noRoot => base = NoTree)
    BY <2>1 DEF FullView, Incomplete
  <2>3. ~noRoot
    BY <2>1, <2>2 DEF Known, NoTree
  <2>4. remote[p] # Nil => rv[p] = AsEntry(remote[p], RemoteDigests)
    BY <2>1, <2>2, <2>3 DEF rv, ScannedRemote
  <2>5. remote[p] # Nil => remote[p] \in File
    BY <1>1, WorldTyped
  <2> QED
    BY <2>1, <2>4, <2>5, Constants, EntriesAreNotNil
<1>10. DeletionsSeen'
  BY <1>2, <1>3, <1>8, <1>9 DEF DeletionsSeen, FewOnRecord, Tracked
<1>11. ResyncPlansNone'
  BY <1>2, <1>4, <1>7 DEF ResyncPlansNone
<1>12. PlanWithinAllowance'
  BY <1>2, <1>5 DEF PlanWithinAllowance, Guarded, Allowance, Tracked
<1>13. ScanIsTrue'
  BY <1>2 DEF ScanIsTrue
<1> QED
  BY <1>1, <1>10, <1>11, <1>12, <1>13 DEF SInv
LEMMA ListEstablishes ==
  ASSUME SInv, List PROVE SInv'
<1>1. IInv /\ IInv' /\ TypeOK /\ faults \in 0..MaxFaults
  BY ListPreserves DEF SInv, IInv, TypeOK
<1>2. CASE ListAndPlan
  BY <1>1, <1>2, PlanEstablishes DEF ListAndPlan
<1>3. CASE ListPartly
  BY <1>1, <1>3, FaultTyped, PlanEstablishes DEF ListPartly
<1>4. CASE ListRootMissing
  BY <1>1, <1>4, FaultTyped, PlanEstablishes DEF ListRootMissing
<1>5. CASE ListFails
  BY <1>1, <1>5 DEF ListFails, Reset, SInv, ScanIsTrue, DeletionsSeen, ResyncPlansNone,
                    PlanWithinAllowance, InRun
<1> QED
  BY <1>2, <1>3, <1>4, <1>5 DEF List

\* A step that leaves the run where it is, and the plan's operations as they are.
LEMMA SettledPreserves ==
  ASSUME SInv, IInv', UNCHANGED <<base, excluded, mode, seen, blind, truth>>,
         pc' = pc \/ (pc = "base" /\ pc' = "apply"),
         \A p \in Paths : plan'[p].op = plan[p].op
  PROVE  SInv'
<1>1. ScanIsTrue'
  BY DEF SInv, ScanIsTrue, Known
<1>2. InRun' => InRun
  BY DEF InRun
<1>3. DeletionsSeen' /\ ResyncPlansNone'
  BY <1>2 DEF SInv, DeletionsSeen, ResyncPlansNone, FewOnRecord, Tracked
<1>4. PlanWithinAllowance'
  <2>1. {p \in Paths : plan'[p].op \in Deletes} = {p \in Paths : plan[p].op \in Deletes}
    OBVIOUS
  <2>2. Guarded' <=> Guarded
    BY DEF Guarded, Allowance, Tracked
  <2>3. Allowance' = Allowance
    BY DEF Allowance, Tracked
  <2> QED
    BY <1>2, <2>1, <2>2, <2>3 DEF SInv, PlanWithinAllowance
<1> QED
  BY <1>1, <1>3, <1>4 DEF SInv

\* No operation changes what is planned.
LEMMA OperationsKeepThePlan ==
  ASSUME IInv, NEW p \in Paths, Op(p)
  PROVE  /\ UNCHANGED <<base, excluded, mode, seen, blind, truth, pc, apart>>
         /\ \A q \in Paths : plan'[q].op = plan[q].op
<1>1. UNCHANGED steady
  BY DEF Op, Upload, DeleteRemote, DeleteLocal, RenameRemote, RenameLocal, ConflictAside, Fetch,
         InstallCheck, InstallRename, ConflictUpload, OpFails
<1>2. \/ plan' = plan
      \/ \E c \in Paths, row \in {[dir |-> FALSE, v |-> local[copyOf[p]].v, t |-> NoTime, h |-> FALSE]} :
            plan' = [plan EXCEPT ![c].row = row]
  <2>1. CASE ConflictUpload(p)
    <3>1. copyOf[p] \in Paths
      BY <2>1 DEF ConflictUpload, At, IInv, TypeOK, StagedAreTransfers
    <3> QED
      BY <2>1, <3>1 DEF ConflictUpload
  <2> QED
    BY <2>1 DEF Op, Upload, DeleteRemote, DeleteLocal, RenameRemote, RenameLocal, ConflictAside,
                Fetch, InstallCheck, InstallRename, OpFails
<1>3. plan \in [Paths -> Planned]
  BY DEF IInv, TypeOK
<1>4. \A q \in Paths : plan'[q].op = plan[q].op
  BY <1>2, <1>3 DEF Planned
<1> QED
  BY <1>1, <1>4 DEF steady, store, input, history

LEMMA ApplyEstablishes ==
  ASSUME SInv, Apply PROVE SInv'
<1>1. IInv /\ IInv'
  BY ApplyPreserves DEF SInv
<1>2. CASE EnsureBase
  BY <1>1, <1>2, SettledPreserves DEF EnsureBase, store, input
<1>3. CASE EnsureBaseFails
  BY <1>1, <1>3 DEF EnsureBaseFails, Reset, SInv, ScanIsTrue, DeletionsSeen, ResyncPlansNone,
                    PlanWithinAllowance, InRun
<1>4. ASSUME NEW p \in Paths, Op(p) PROVE SInv'
  BY <1>1, <1>4, OperationsKeepThePlan, SettledPreserves
<1> QED
  BY <1>2, <1>3, <1>4 DEF Apply

LEMMA FinishEstablishes ==
  ASSUME SInv, Finish PROVE SInv'
<1>1. IInv'
  BY FinishPreserves DEF SInv
<1>2. pc' \in {"idle", "retry"}
  BY DEF Finish, Commit, CommitFails, SaveRetries, Reset
<1> QED
  BY <1>1, <1>2 DEF SInv, ScanIsTrue, DeletionsSeen, ResyncPlansNone, PlanWithinAllowance, InRun

LEMMA EnvironmentEstablishes ==
  ASSUME SInv, Environment PROVE SInv'
<1>1. IInv'
  BY EnvironmentPreserves DEF SInv
<1>2. CASE pc' = "idle"
  BY <1>1, <1>2 DEF SInv, ScanIsTrue, DeletionsSeen, ResyncPlansNone, PlanWithinAllowance, InRun
<1>3. CASE pc' # "idle"
  <2>1. UNCHANGED <<base, excluded, mode, seen, blind, truth, pc, plan>>
    BY <1>3 DEF Environment, Cancel, Crash, Reset, BackoffElapses, ToggleExclude, LocalEdit,
                LocalDeletes, LocalRestore, LocalRename, RemoteEdit, RemoteDeletes,
                RemoteRestore, RemoteRename, localMove, remoteMove, store, input
  <2> QED
    BY <1>1, <2>1, SettledPreserves
<1> QED
  BY <1>2, <1>3

LEMMA SafetyInvariance == Spec => []SInv
<1>1. Init => SInv
  BY InitEstablishes DEF Init, SInv, ScanIsTrue, DeletionsSeen, ResyncPlansNone,
                         PlanWithinAllowance, InRun
<1>2. SInv /\ [Next]_vars => SInv'
  <2> SUFFICES ASSUME SInv, [Next]_vars PROVE SInv'
    OBVIOUS
  <2>1. CASE UNCHANGED vars
    <3>1. UNCHANGED <<base, excluded, mode, seen, blind, truth, pc, plan>>
      BY <2>1 DEF vars, store, input
    <3>2. IInv'
      BY <2>1, StepPreserves DEF SInv
    <3> QED
      BY <3>1, <3>2, SettledPreserves
  <2>2. CASE Engine
    BY <2>2, BeginEstablishes, ListEstablishes, ApplyEstablishes, FinishEstablishes DEF Engine
  <2>3. CASE Environment
    BY <2>3, EnvironmentEstablishes
  <2> QED
    BY <2>1, <2>2, <2>3 DEF Next
<1> QED
  BY <1>1, <1>2, PTL DEF Spec

-----------------------------------------------------------------------------
(* The theorems.                                                             *)

\* A deletion or a rename is only carried out in the stage that applies the plan.
LEMMA CompletesWhileApplying ==
  ASSUME IInv, [Next]_vars, NEW p \in Paths, p \in Ended' \ Ended,
         plan[p].op \in Deletes \cup Renames
  PROVE  pc = "apply"
<1>1. Ended' # Ended /\ ~Reset
  BY DEF Reset, Ended
<1>2. \E q \in Paths : Op(q)
  BY <1>1 DEF vars, Next, Engine, Environment, Begin, List, Apply, Finish, ScanLocal, ScanLocalBlind,
         ScanLocalCarried, ScanEmptyRoot, Scan, ListAndPlan, ListPartly, ListRootMissing,
         ListFails, Plan, EnsureBase, EnsureBaseFails, Commit, CommitFails, SaveRetries,
         Cancel, Crash, BackoffElapses, ToggleExclude, LocalEdit, LocalDeletes, LocalRestore,
         LocalRename, RemoteEdit, RemoteDeletes, RemoteRestore, RemoteRename, localMove,
         remoteMove, work, Ended
<1>3. PICK q \in Paths : Op(q)
  BY <1>2
<1>4. CASE pc # "apply"
  <2>1. InstallRename(q) \/ ConflictUpload(q) \/ OpFails(q) \/ InstallCheck(q)
    BY <1>3, <1>4 DEF Op, Upload, DeleteRemote, DeleteLocal, RenameRemote, RenameLocal,
                      ConflictAside, Fetch, Takes, MayFetch
  <2>2. staged[q] # Nil \/ copyOf[q] # Nil
    BY <1>4, <2>1 DEF InstallRename, ConflictUpload, OpFails, InstallCheck, At, Running, Takes,
                      MayFetch, InFlight
  <2>3. Ended' \subseteq Ended \cup {q}
    BY <2>1 DEF InstallRename, ConflictUpload, OpFails, InstallCheck, Succeeded, Failed, TimedOut,
                Ended
  <2>4. plan[q].op \in {"download", "conflict"}
    BY <2>2 DEF IInv, StagedAreTransfers
  <2> QED
    BY <2>3, <2>4 DEF Deletes, Renames
<1> QED
  BY <1>4

\* A file is deleted on one side only if it was gone from the other when the run scanned,
\* whatever was unreadable, unlisted, carried forward, unmounted or moved meanwhile.
THEOREM OnlyWhatIsGoneIsDeleted == Spec => DeletesOnlyWhatIsGone
<1>1. SInv /\ [Next]_vars =>
        [\A p \in Paths :
           /\ Completes(p, "deleteRemote") => truth.l[p] = Nil \/ FewOnRecord
           /\ Completes(p, "deleteLocal") => truth.r[p] = Nil]_vars
  <2> SUFFICES ASSUME SInv, [Next]_vars, NEW p \in Paths
               PROVE  /\ Completes(p, "deleteRemote") => truth.l[p] = Nil \/ FewOnRecord
                      /\ Completes(p, "deleteLocal") => truth.r[p] = Nil
    OBVIOUS
  <2>1. Completes(p, "deleteRemote") \/ Completes(p, "deleteLocal") => InRun
    BY CompletesWhileApplying DEF Completes, SInv, InRun, Deletes
  <2> QED
    BY <2>1 DEF SInv, DeletionsSeen, Completes
<1> QED
  BY <1>1, SafetyInvariance, PTL DEF Spec, DeletesOnlyWhatIsGone

\* A resync deletes nothing and moves nothing.
THEOREM ResyncIsSafe == Spec => ResyncOnlyAdds
<1>1. SInv /\ [Next]_vars =>
        [mode = "resync" =>
            \A p \in Ended' \ Ended : plan[p].op \notin Deletes \cup Renames]_vars
  <2> SUFFICES ASSUME SInv, [Next]_vars, mode = "resync", NEW p \in Ended' \ Ended,
                      plan[p].op \in Deletes \cup Renames
               PROVE  FALSE
    OBVIOUS
  <2>1. p \in Paths
    BY StepPreserves DEF SInv, IInv, TypeOK, Ended
  <2>2. InRun
    BY <2>1, CompletesWhileApplying DEF SInv, InRun
  <2> QED
    BY <2>1, <2>2 DEF SInv, ResyncPlansNone
<1> QED
  BY <1>1, SafetyInvariance, PTL DEF Spec, ResyncOnlyAdds

\* An unconfirmed run never deletes more files than it may.
THEOREM DeletionsAreBounded == Spec => []WithinAllowance
<1>1. SInv => WithinAllowance
  <2> SUFFICES ASSUME SInv, pc = "apply", Guarded
               PROVE  Cardinality({p \in Ended : plan[p].op \in Deletes}) <= Allowance
    BY DEF WithinAllowance
  <2> DEFINE D == {p \in Ended : plan[p].op \in Deletes}
             P == {p \in Paths : plan[p].op \in Deletes}
  <2>1. D \in SUBSET P /\ P \in SUBSET Paths
    BY DEF SInv, IInv, TypeOK, Ended
  <2>2. IsFiniteSet(P)
    BY <2>1, Constants, FS_Subset
  <2>3. /\ Cardinality(D) <= Cardinality(P) /\ Cardinality(D) \in Nat /\ Cardinality(P) \in Nat
    BY <2>1, <2>2, FS_Subset, FS_CardinalityType
  <2>4. Cardinality(P) <= Allowance
    BY DEF SInv, PlanWithinAllowance, InRun
  <2> QED
    BY <2>3, <2>4, AllowanceTyped
<1> QED
  BY <1>1, SafetyInvariance, PTL

-----------------------------------------------------------------------------
(* Exclusion.  A resync is left out: it keeps the rows of excluded paths.    *)

\* Nothing on record and nothing planned for what a run left out.
ApartForgotten ==
    /\ mode # "resync"
    /\ \A p \in apart : base[p] = Nil
    /\ InRun => \A p \in apart : plan[p].op \notin Deletes
    /\ pc \in {"base", "apply", "retry"} =>
         \A p \in excluded : plan[p].row = Nil /\ \A q \in Paths : copyOf[q] # p

LEMMA ApartPreserved ==
  ASSUME "resync" \notin Moves, IInv, IInv', ApartForgotten, [Next]_vars
  PROVE  ApartForgotten'
<1>1. apart \subseteq Paths /\ excluded \subseteq Paths
  BY DEF IInv, TypeOK
<1>2. ASSUME Reset, base' = base, apart' = apart PROVE ApartForgotten'
  BY <1>2 DEF ApartForgotten, Reset, InRun
<1>3. ASSUME UNCHANGED <<base, apart, excluded, mode, plan, copyOf>>,
             pc' = pc \/ (pc = "base" /\ pc' = "apply") \/ (pc = "apply" /\ pc' = "retry")
      PROVE  ApartForgotten'
  BY <1>3 DEF ApartForgotten, InRun
<1>4. CASE UNCHANGED vars
  BY <1>3, <1>4 DEF vars, store, input, history, work
<1>5. CASE Begin
  <2>1. \E m, miss, carried, isBlind : Scan(m, miss, carried, isBlind)
    BY <1>5 DEF Begin, ScanLocal, ScanLocalBlind, ScanLocalCarried, ScanEmptyRoot
  <2>2. mode' # "resync" /\ pc' = "listing" /\ UNCHANGED <<base, apart>>
    BY <2>1 DEF Scan, store, history
  <2> QED
    BY <2>2 DEF ApartForgotten, InRun
<1>6. ASSUME NEW miss, NEW noRoot \in BOOLEAN, Plan(miss, noRoot) PROVE ApartForgotten'
  <2>1. /\ UNCHANGED <<base, apart, excluded, mode, copyOf>> /\ pc = "listing"
        /\ TypeOK
    BY <1>6 DEF Plan, store, input, history, IInv
  <2>2. \A p \in apart : plan'[p].op \notin Deletes
    <3> SUFFICES ASSUME NEW p \in apart, plan'[p].op \in Deletes PROVE FALSE
      OBVIOUS
    <3> DEFINE rv == ScannedRemote(IF noRoot THEN Paths ELSE miss)
    <3>1. p \in Paths
      BY <1>1
    <3>2. plan'[p].op = Verdicts(rv)[p].op
      BY <1>6, <2>1, <3>1, PlanTyped
    <3>3. rv \in Rows
      BY <2>1, ScannedRemoteTyped DEF TypeOK
    <3>4. Known[p] # Nil
      BY <2>1, <3>1, <3>3, <3>2, VerdictsTyped DEF Deletes
    <3> QED
      BY <3>4 DEF ApartForgotten, Known
  <2>3. \A p \in excluded : plan'[p].row = Nil
    BY <1>1, <1>6, <2>1, PlanTyped
  <2>4. copyOf' = NoTree
    BY <2>1 DEF IInv, NoWorkBeforePlan
  <2>5. \A p \in excluded : \A q \in Paths : copyOf'[q] # p
    BY <1>1, <2>4, Constants DEF NoTree
  <2> QED
    BY <2>1, <2>2, <2>3, <2>5 DEF ApartForgotten
<1>7. CASE List
  BY <1>2, <1>6, <1>7 DEF List, ListAndPlan, ListPartly, ListRootMissing, ListFails, store, history
<1>8. CASE EnsureBase \/ EnsureBaseFails
  BY <1>2, <1>3, <1>8 DEF EnsureBase, EnsureBaseFails, store, input, history, work
<1>9. ASSUME NEW p \in Paths, Op(p) PROVE ApartForgotten'
  <2>1. /\ UNCHANGED <<base, excluded, mode, pc, apart>>
        /\ \A q \in Paths : plan'[q].op = plan[q].op
    BY <1>9, OperationsKeepThePlan
  <2>2. CASE pc \notin {"base", "apply", "retry"}
    BY <2>1, <2>2 DEF ApartForgotten, InRun
  <2>3. CASE pc \in {"base", "apply", "retry"}
    <3>1. \A q \in Paths : copyOf'[q] \notin excluded
      <4>1. \/ copyOf' = copyOf \/ copyOf' = [copyOf EXCEPT ![p] = Nil]
            \/ \E c \in Paths \ excluded : copyOf' = [copyOf EXCEPT ![p] = c]
        BY <1>9 DEF Op, Upload, DeleteRemote, DeleteLocal, RenameRemote, RenameLocal,
                    ConflictAside, Fetch, InstallCheck, InstallRename, ConflictUpload, OpFails
      <4>2. Nil \notin excluded /\ copyOf \in [Paths -> Paths \cup {Nil}]
        BY <1>1, Constants DEF IInv, TypeOK
      <4> QED
        BY <2>3, <4>1, <4>2 DEF ApartForgotten
    <3>2. \A q \in excluded : plan'[q].row = Nil
      <4>1. CASE plan' = plan
        BY <2>3, <4>1 DEF ApartForgotten
      <4>2. CASE \E row : plan' = [plan EXCEPT ![copyOf[p]].row = row]
        <5>1. copyOf[p] \notin excluded
          BY <2>3 DEF ApartForgotten
        <5>2. plan \in [Paths -> Planned]
          BY DEF IInv, TypeOK
        <5>3. PICK row : plan' = [plan EXCEPT ![copyOf[p]].row = row]
          BY <4>2
        <5>4. \A q \in excluded : plan'[q] = plan[q]
          BY <1>1, <5>1, <5>2, <5>3
        <5> QED
          BY <2>3, <5>4 DEF ApartForgotten
      <4> QED
        BY <1>9, <4>1, <4>2
           DEF Op, Upload, DeleteRemote, DeleteLocal, RenameRemote, RenameLocal,
               ConflictAside, Fetch, InstallCheck, InstallRename, ConflictUpload, OpFails
    <3> QED
      BY <1>1, <2>1, <3>1, <3>2 DEF ApartForgotten, InRun
  <2> QED
    BY <2>2, <2>3
<1>10. CASE Commit
  <2>1. /\ pc = "apply" /\ pc' = "retry" /\ UNCHANGED <<excluded, mode, plan, copyOf>>
        /\ apart' = excluded \cup {p \in apart : base'[p] = Nil}
        /\ base' = [p \in Paths |-> IF p \in gone \cup Pruned THEN Nil
                                    ELSE IF Confirmed(p) THEN plan[p].row
                                    ELSE base[p]]
    BY <1>10 DEF Commit, input, work
  <2>2. \A p \in excluded : base'[p] = Nil
    BY <1>1, <2>1 DEF ApartForgotten, Pruned, Known, Confirmed
  <2> QED
    BY <2>1, <2>2 DEF ApartForgotten, InRun
<1>11. CASE CommitFails \/ SaveRetries
  BY <1>2, <1>3, <1>11 DEF CommitFails, SaveRetries, store, input, history, work
<1>12. CASE Environment
  <2>1. CASE Crash
    BY <1>2, <2>1 DEF Crash, store, history
  <2>2. CASE \E p \in Paths : ToggleExclude(p)
    BY <2>2 DEF ToggleExclude, ApartForgotten, InRun, store, input, history
  <2>3. CASE ~Crash /\ ~\E p \in Paths : ToggleExclude(p)
    <3>1. UNCHANGED <<base, apart, excluded, mode, plan, copyOf, pc>>
      BY <1>12, <2>3 DEF Environment, Cancel, BackoffElapses, LocalEdit, LocalDeletes,
                 LocalRestore, LocalRename, RemoteEdit, RemoteDeletes, RemoteRestore,
                 RemoteRename, localMove, remoteMove, store, input, work, history
    <3> QED
      BY <1>3, <3>1
  <2> QED
    BY <2>1, <2>2, <2>3
<1> QED
  BY <1>4, <1>5, <1>7, <1>8, <1>9, <1>10, <1>11, <1>12 DEF Next, Engine, Apply, Finish

\* Taking an excluded path back in never deletes it, on either side, where no resync is
\* made meanwhile.
THEOREM ReIncludingIsSafe ==
  ASSUME "resync" \notin Moves
  PROVE  Spec => ReIncludeNeverDeletes
<1>1. Init => ApartForgotten
  BY DEF Init, ApartForgotten, InRun
<1>2. IInv /\ IInv' /\ ApartForgotten /\ [Next]_vars => ApartForgotten'
  BY ApartPreserved
<1>3. IInv /\ ApartForgotten /\ [Next]_vars =>
        [\A p \in apart : ~Completes(p, "deleteRemote") /\ ~Completes(p, "deleteLocal")]_vars
  <2> SUFFICES ASSUME IInv, ApartForgotten, [Next]_vars, NEW p \in apart,
                      Completes(p, "deleteRemote") \/ Completes(p, "deleteLocal")
               PROVE  FALSE
    OBVIOUS
  <2>1. p \in Paths
    BY DEF IInv, TypeOK
  <2>2. InRun /\ plan[p].op \in Deletes
    BY <2>1, CompletesWhileApplying DEF Completes, InRun, Deletes
  <2> QED
    BY <2>2 DEF ApartForgotten
<1> QED
  BY <1>1, <1>2, <1>3, Invariance, PTL DEF Spec, ReIncludeNeverDeletes

-----------------------------------------------------------------------------
(***************************************************************************)
(* Nothing is lost.  What would be lost of a step is what it writes over   *)
(* in the local folder: the argument is that such a file is one the remote *)
(* or a trash has, or its author replaced, and that no later step takes    *)
(* that away.                                                              *)
(***************************************************************************)

\* No two contents of one size: what the run compares then tells them apart.
SizesTell == \A m, n \in Versions : Size[m] = Size[n] => m = n

\* The user leaves the folder alone while a run is in flight ...
Undisturbed == "local" \notin MidRun

\* ... or edits and deletes at any time but never between an install's check and its
\* rename, nobody renames or restores, no content is empty, and deletions go to the trash.
StayInPlace ==
    /\ Moves \cap {"localRename", "localRestore", "remoteRename", "remoteRestore"} = {}
    /\ "window" \notin MidRun
    /\ \A m \in Versions : Size[m] > 0
    /\ LocalDelete = "trash"

Calm == /\ SizesTell /\ C.conflict # "newer" /\ "carried" \notin Faults
        /\ Undisturbed \/ StayInPlace

\* A version that no step of the run, and no move, can take away any more.
Safe(v) == \/ v \in discarded
           \/ \E p \in Paths : remote[p] # Nil /\ remote[p].v = v
           \/ \E e \in remoteTrash : e[2].v = v
           \/ StayInPlace /\ \E e \in localTrash : e[2].v = v

Holds(p, v) == local[p] # Nil /\ local[p].v = v
Saved(v) == \/ Safe(v)
            \/ \E p \in Paths : Holds(p, v)
            \/ \E e \in localTrash : e[2].v = v
Replaceable(p) == local[p] = Nil \/ Safe(local[p].v)

\* The run has its plan, or is committing it.
Working == pc \in {"base", "apply", "retry"}

\* What the database has on record is safe.
RowsAreSafe == \A p \in Paths : base[p] # Nil => Safe(base[p].v)

\* What the scan saw is safe or still there, and an undisturbed scan that could look
\* everywhere and found something saw every file as it is.
ScanIsKept ==
    pc = "listing" =>
        /\ \A p \in Paths : seen[p] # Nil => Safe(seen[p].v) \/ Holds(p, seen[p].v)
        /\ Undisturbed /\ ~blind /\ seen # NoTree =>
              \A p \in Paths \ excluded :
                 /\ seen[p] = Nil => local[p] = Nil
                 /\ seen[p] # Nil => Holds(p, seen[p].v)

\* The row a path is to get is safe by the time it is confirmed.
RowIsKept(p) ==
    plan[p].row # Nil => \/ Safe(plan[p].row.v)
                         \/ /\ plan[p].op = "upload" /\ p \notin done
                            /\ p \in todo => Holds(p, plan[p].row.v)

\* What an operation is about to write over, or to remove, is safe.
Overwrites(p) == \/ At(p) = "checked"
                 \/ Undisturbed /\ p \in todo /\ plan[p].op \in {"renameLocal", "deleteLocal"}
TargetIsSafe(p) == /\ plan[p].op = "download" /\ seen[p] # Nil => Safe(seen[p].v)
                   /\ Overwrites(p) => Replaceable(p)

\* The old name of a rename has no operation of its own.
SourceIsIdle(p) == plan[p].op \in Renames => plan[plan[p].from].op = "none"

PlanIsKept ==
    Working => \A p \in Paths : RowIsKept(p) /\ TargetIsSafe(p) /\ SourceIsIdle(p)

AllSaved == \A v \in 1..clock : Saved(v)

LInv == RowsAreSafe /\ ScanIsKept /\ PlanIsKept /\ AllSaved
-----------------------------------------------------------------------------
(* What the verdicts mean when sizes tell contents apart.                    *)

LEMMA SameMeansEqual ==
  ASSUME SizesTell, NEW x \in FileEntries, NEW y \in FileEntries, NEW compare
  PROVE  SameContent(x, y, compare) => x.v = y.v
  BY DEF SizesTell, SameContent, FileEntries

LEMMA WithDigestKeeps ==
  ASSUME NEW l \in Slots, NEW r, NEW lc, NEW rc
  PROVE  /\ WithDigest(l, r, lc, rc) = Nil <=> l = Nil
         /\ WithDigest(l, r, lc, rc) \in Slots
         /\ l # Nil => /\ WithDigest(l, r, lc, rc).v = l.v
                       /\ WithDigest(l, r, lc, rc).t = l.t
<1>1. l # Nil => l \in FileEntries /\ [l EXCEPT !.h = TRUE] \in FileEntries
  BY DEF Slots, FileEntries
<1>2. Nil \notin FileEntries
  BY NilAssumption DEF FileEntries, Entries
<1>3. l # Nil => [l EXCEPT !.h = TRUE].v = l.v /\ [l EXCEPT !.h = TRUE].t = l.t
  BY <1>1 DEF FileEntries
<1> QED
  BY <1>1, <1>2, <1>3 DEF WithDigest, Slots

\* Where the row of a verdict comes from, and what is in the way of a download, a rename
\* or a deletion here: what the row before said.
LEMMA JudgeKeeps ==
  ASSUME SizesTell, NEW l \in Slots, NEW r \in Slots, NEW b \in Slots, NEW c,
         c.conflict # "newer"
  PROVE  LET V == Judge(l, r, b, c) IN
         /\ V.op = "upload" => l # Nil /\ V.row # Nil /\ V.row.v = l.v
         /\ V.op \in {"download", "conflict"} => r # Nil /\ V.row = r
         /\ V.row # Nil /\ V.op # "upload" => \/ r # Nil /\ V.row.v = r.v
                                              \/ b # Nil /\ V.row.v = b.v
         /\ V.op = "download" => l = Nil \/ (b # Nil /\ l.v = b.v)
         /\ V.op = "deleteLocal" => l # Nil /\ b # Nil /\ l.v = b.v
         /\ V.op = "deleteRemote" => r # Nil /\ b # Nil /\ r.v = b.v
         /\ V.op = "conflict" => l # Nil /\ ~SameContent(WithDigest(l, r, Classify(l, b, c.compare),
                                                          Classify(r, b, c.compare)), r, c.compare)
<1> DEFINE lc == Classify(l, b, c.compare)
           rc == Classify(r, b, c.compare)
           h  == WithDigest(l, r, lc, rc)
           V  == Judge(l, r, b, c)
<1>1. V = Decide(lc, rc, h, r, b, c)
  BY DEF Judge
<1>2. /\ h = Nil <=> l = Nil
      /\ h \in Slots
      /\ l # Nil => h.v = l.v
  BY WithDigestKeeps
<1>3. /\ lc \in {"absent", "created", "deleted", "unchanged", "modified"}
      /\ lc = "absent" <=> l = Nil /\ b = Nil
      /\ lc = "created" <=> l # Nil /\ b = Nil
      /\ lc = "deleted" <=> l = Nil /\ b # Nil
  BY ClassifyMeans
<1>4. /\ rc \in {"absent", "created", "deleted", "unchanged", "modified"}
      /\ rc = "absent" <=> r = Nil /\ b = Nil
      /\ rc = "created" <=> r # Nil /\ b = Nil
      /\ rc = "deleted" <=> r = Nil /\ b # Nil
  BY ClassifyMeans
<1>5. \A x \in Slots : x # Nil => x \in FileEntries
  BY DEF Slots
<1>6. lc = "unchanged" => l.v = b.v
  <2>1. lc = "unchanged" => SameContent(l, b, c.compare)
    BY <1>3 DEF Classify
  <2> QED
    BY <1>3, <1>5, <2>1, SameMeansEqual
<1>7. rc = "unchanged" => r.v = b.v
  <2>1. rc = "unchanged" => SameContent(r, b, c.compare)
    BY <1>4 DEF Classify
  <2> QED
    BY <1>4, <1>5, <2>1, SameMeansEqual
<1>8. ASSUME l # Nil, r # Nil, SameContent(h, r, c.compare) \/ SameDigest(h, r) PROVE h.v = r.v
  BY <1>2, <1>5, <1>8, SameMeansEqual DEF SameDigest
<1>9. ~IsDir(h, r, b) /\ ~TypeClash(h, r)
  BY <1>2 DEF IsDir, Either, Slots, FileEntries, TypeClash
<1> SUFFICES /\ V.op = "upload" => l # Nil /\ V.row # Nil /\ V.row.v = l.v
             /\ V.op \in {"download", "conflict"} => r # Nil /\ V.row = r
             /\ V.row # Nil /\ V.op # "upload" => \/ r # Nil /\ V.row.v = r.v
                                                  \/ b # Nil /\ V.row.v = b.v
             /\ V.op = "download" => l = Nil \/ (b # Nil /\ l.v = b.v)
             /\ V.op = "deleteLocal" => l # Nil /\ b # Nil /\ l.v = b.v
             /\ V.op = "deleteRemote" => r # Nil /\ b # Nil /\ r.v = b.v
             /\ V.op = "conflict" => l # Nil /\ ~SameContent(h, r, c.compare)
  OBVIOUS
<1> HIDE DEF lc, rc, h, V
<1>10. \/ V = Verdict("none", Either(h, r)) /\ lc = "unchanged" /\ rc = "unchanged"
       \/ V = DecideFile(lc, rc, h, r, c)
  BY <1>1, <1>9 DEF Decide
<1>11. CASE V = Verdict("none", Either(h, r)) /\ lc = "unchanged" /\ rc = "unchanged"
  BY <1>2, <1>3, <1>6, <1>11 DEF Verdict, Either
<1>12. CASE lc \in Edited /\ rc \in Edited /\ V = BothEdited(h, r, c)
  <2>1. l # Nil /\ r # Nil
    BY <1>3, <1>4, <1>12 DEF Edited
  <2>2. \/ V = Verdict("none", h) /\ h.v = r.v
        \/ V = Verdict("skip", Nil)
        \/ V = Verdict("conflict", r) /\ ~SameContent(h, r, c.compare)
    BY <1>8, <1>12, <2>1 DEF BothEdited, EmitConflict
  <2> QED
    BY <1>2, <2>1, <2>2 DEF Verdict
<1>13. CASE V = DecideFile(lc, rc, h, r, c) /\ ~(lc \in Edited /\ rc \in Edited)
  <2>1. \/ V = Verdict("upload", h) /\ lc \in Edited
        \/ V = Verdict("download", r) /\ rc \in Edited /\ lc \in {"unchanged", "absent", "deleted"}
        \/ V = Verdict("deleteRemote", Nil) /\ rc = "unchanged"
        \/ V = Verdict("noop", r) /\ rc = "unchanged"
        \/ V = Verdict("deleteLocal", Nil) /\ lc = "unchanged"
        \/ V = Verdict("noop", h) /\ lc = "unchanged"
        \/ V = Verdict("none", Nil)
        \/ V = Verdict("none", Either(h, r)) /\ lc \notin Edited /\ rc \notin Edited
    BY <1>3, <1>4, <1>13
       DEF DecideFile, Edited, EmitUpload, EmitDownload, EmitDeleteRemote, EmitDeleteLocal
  <2>2. lc \in Edited => l # Nil
    BY <1>3 DEF Edited
  <2>3. rc \in Edited => r # Nil
    BY <1>4 DEF Edited
  <2>4. lc = "unchanged" => l # Nil /\ b # Nil
    BY <1>3
  <2>5. rc = "unchanged" => r # Nil /\ b # Nil
    BY <1>4
  <2>6. lc \notin Edited => l = Nil \/ (l.v = b.v /\ b # Nil)
    BY <1>3, <1>6 DEF Edited
  <2> QED
    BY <1>2, <1>3, <1>6, <1>7, <2>1, <2>2, <2>3, <2>4, <2>5, <2>6 DEF Verdict, Either
<1>14. V = DecideFile(lc, rc, h, r, c) /\ lc \in Edited /\ rc \in Edited => V = BothEdited(h, r, c)
  BY DEF DecideFile, Edited
<1> QED
  BY <1>10, <1>11, <1>12, <1>13, <1>14
-----------------------------------------------------------------------------
(* Scanning and planning, once more.                                         *)

LEMMA FilesAreNotNil ==
  /\ Nil \notin FileEntries
  /\ \A p \in Paths : base[p] # Nil /\ base \in Rows => base[p] \in FileEntries
  BY NilAssumption DEF FileEntries, Entries, Rows

\* The local scan reports the bytes each file holds, its row's digest or not.
LEMMA LocalEntryTells ==
  ASSUME SizesTell, NEW f \in File, NEW row \in Slots
  PROVE  /\ LocalEntry(f, row) \in FileEntries
         /\ LocalEntry(f, row).v = f.v
         /\ LocalEntry(f, row).t = f.t
<1>1. (C.compare = "sha1") \in BOOLEAN
  OBVIOUS
<1>2. CASE LocalEntry(f, row) = AsEntry(f, C.compare = "sha1")
  BY <1>1, <1>2 DEF AsEntry, File, FileEntries
<1>3. CASE LocalEntry(f, row) = row /\ row # Nil /\ Size[row.v] = Size[f.v] /\ row.t = f.t
  BY <1>3 DEF SizesTell, Slots, FileEntries, File
<1> QED
  BY <1>2, <1>3 DEF LocalEntry

LEMMA ScanTells ==
  ASSUME IInv, SizesTell, NEW m \in Modes, NEW miss, NEW isBlind,
         Scan(m, miss, {}, isBlind), NEW p \in Paths
  PROVE  /\ seen'[p] # Nil => local[p] # Nil /\ seen'[p].v = local[p].v /\ seen'[p].t = local[p].t
         /\ p \notin excluded \cup miss /\ local[p] # Nil => seen'[p] # Nil
<1> DEFINE rows == IF m = "resync" THEN NoTree ELSE base
<1>1. seen'[p] = IF p \in excluded \cup miss \/ local[p] = Nil THEN Nil
                 ELSE LocalEntry(local[p], rows[p])
  BY DEF Scan, ScannedLocal
<1>2. rows[p] \in Slots
  BY DEF IInv, TypeOK, Rows, NoTree, Slots
<1>3. local[p] # Nil => local[p] \in File
  BY WorldTyped
<1> QED
  BY <1>1, <1>2, <1>3, LocalEntryTells, FilesAreNotNil

\* Every scan that can happen, calm, is one that carries nothing forward.
LEMMA BeginMeans ==
  ASSUME Begin, "carried" \notin Faults
  PROVE  \E m \in Modes, isBlind \in BOOLEAN : \E miss :
            Scan(m, miss, {}, isBlind) /\ (miss = {} \/ isBlind \/ Paths \subseteq miss)
<1>1. PICK m \in Modes : ScanLocal(m) \/ ScanLocalBlind(m) \/ ScanEmptyRoot(m)
  BY DEF Begin, ScanLocalCarried, Fault
<1>2. CASE ScanLocal(m)
  BY <1>2 DEF ScanLocal
<1>3. CASE ScanLocalBlind(m)
  BY <1>3 DEF ScanLocalBlind
<1>4. CASE ScanEmptyRoot(m)
  BY <1>4 DEF ScanEmptyRoot
<1> QED
  BY <1>1, <1>2, <1>3, <1>4

\* Every listing that leads to a plan.
LEMMA ListMeans ==
  ASSUME List
  PROVE  ListFails \/ \E noRoot \in BOOLEAN : \E miss : Plan(miss, noRoot)
  BY DEF List, ListAndPlan, ListPartly, ListRootMissing

Listed(miss, noRoot) == ScannedRemote(IF noRoot THEN Paths ELSE miss)

\* What a path's plan is made of: nothing, its verdict, or a rename that a full view found.
LEMMA PlanMeans ==
  ASSUME TypeOK, NEW miss, NEW noRoot, Plan(miss, noRoot), NEW p \in Paths
  PROVE  LET rv == Listed(miss, noRoot)
             V  == Verdicts(rv)
         IN  \/ plan'[p] = Idle
             \/ /\ plan'[p] = [op |-> V[p].op, row |-> V[p].row, from |-> Nil]
                /\ V[p].op \in Deletes => FullView(miss, noRoot)
             \/ /\ FullView(miss, noRoot) /\ plan'[p].row = V[p].row
                /\ plan'[p].from \in Paths /\ plan'[plan'[p].from] = Idle
                /\ \/ /\ plan'[p].op = "renameRemote"
                      /\ <<plan'[p].from, p>> \in RenamedHere(V, rv)
                   \/ /\ plan'[p].op = "renameLocal"
                      /\ <<plan'[p].from, p>> \in RenamedThere(V, rv)
<1> DEFINE rv == Listed(miss, noRoot)
           V == Verdicts(rv)
           partial == Incomplete(miss # {}, noRoot)
           S == IF partial THEN {} ELSE RenamedHere(V, rv) \cup RenamedThere(V, rv)
<1>1. PICK M \in Matchings(S) :
         LET W == WithRenames(V, M)
             P == Without(W, IF partial THEN Deletes \cup Renames
                             ELSE IF OverBudget(W) THEN Deletes ELSE {})
         IN  plan' = P
  BY Zenon DEF Plan, Listed
<1> DEFINE W == WithRenames(V, M)
           out == IF partial THEN Deletes \cup Renames
                  ELSE IF OverBudget(W) THEN Deletes ELSE {}
<1>2. plan' = Without(W, out)
  BY <1>1
<1>3. M \subseteq S /\ \A m \in M : m \in RenamedHere(V, rv) \cup RenamedThere(V, rv) /\ ~partial
  BY DEF Matchings
<1>4. \A m \in RenamedHere(V, rv) : /\ m = <<m[1], m[2]>> /\ m[1] \in Paths /\ m[2] \in Paths
                                    /\ V[m[1]].op = "deleteRemote" /\ V[m[2]].op = "upload"
  BY DEF RenamedHere
<1>5. \A m \in RenamedThere(V, rv) : /\ m = <<m[1], m[2]>> /\ m[1] \in Paths /\ m[2] \in Paths
                                     /\ V[m[1]].op = "deleteLocal" /\ V[m[2]].op = "download"
  BY DEF RenamedThere
<1>6. FullView(miss, noRoot) <=> ~partial
  BY DEF FullView
<1> HIDE DEF rv, V, partial, S, out
<1>7. ASSUME NEW q \in Paths PROVE plan'[q] = IF W[q].op \in out THEN Idle ELSE W[q]
  BY <1>2 DEF Without
<1>8. CASE \E m \in M : m[2] = p
  <2> DEFINE n == CHOOSE m \in M : m[2] = p
  <2>1. n \in M /\ n[2] = p
    BY <1>8
  <2>2. W[p] = [op   |-> IF V[p].op = "upload" THEN "renameRemote" ELSE "renameLocal",
                row  |-> V[p].row, from |-> n[1]]
    BY <1>8 DEF WithRenames
  <2> HIDE DEF n
  <2>3. n \in RenamedHere(V, rv) \/ n \in RenamedThere(V, rv)
    BY <1>3, <2>1
  <2>4. W[n[1]] = Idle
    <3>1. ~(\E m \in M : m[2] = n[1])
      BY <1>3, <1>4, <1>5, <2>1, <2>3
    <3>2. n[1] \in Paths
      BY <1>4, <1>5, <2>3
    <3> QED
      BY <2>1, <3>1, <3>2 DEF WithRenames
  <2>5. plan'[n[1]] = Idle
    BY <1>4, <1>5, <1>7, <2>3, <2>4
  <2>6. CASE n \in RenamedHere(V, rv)
    <3>1. W[p].op = "renameRemote" /\ W[p].from = n[1] /\ W[p].row = V[p].row /\ n = <<n[1], p>>
      BY <1>4, <2>1, <2>2, <2>6
    <3> HIDE DEF W
    <3> QED
      BY <1>3, <1>4, <1>6, <1>7, <2>1, <2>5, <2>6, <3>1 DEF rv, V
  <2>7. CASE n \in RenamedThere(V, rv)
    <3>1. W[p].op = "renameLocal" /\ W[p].from = n[1] /\ W[p].row = V[p].row /\ n = <<n[1], p>>
      BY <1>5, <2>1, <2>2, <2>7
    <3> HIDE DEF W
    <3> QED
      BY <1>3, <1>5, <1>6, <1>7, <2>1, <2>5, <2>7, <3>1 DEF rv, V
  <2> QED
    BY <2>3, <2>6, <2>7
<1>9. CASE ~(\E m \in M : m[2] = p) /\ \E m \in M : m[1] = p
  <2>1. W[p] = Idle
    BY <1>9 DEF WithRenames
  <2> QED
    BY <1>7, <2>1
<1>10. CASE ~(\E m \in M : m[2] = p) /\ ~(\E m \in M : m[1] = p)
  <2>1. W[p] = [op |-> V[p].op, row |-> V[p].row, from |-> Nil]
    BY <1>10 DEF WithRenames
  <2>2. plan'[p] # Idle => plan'[p] = W[p] /\ (V[p].op \in Deletes => ~partial)
    BY <1>7, <2>1 DEF out
  <2> QED
    BY <1>6, <2>1, <2>2 DEF rv, V
<1> QED
  BY <1>8, <1>9, <1>10
-----------------------------------------------------------------------------
(* Scans, plans and commits keep everything.                                 *)

\* What is safe depends on the remote, the trashes and what was replaced.
LEMMA SafeFrame ==
  ASSUME UNCHANGED <<remote, remoteTrash, localTrash, discarded>>
  PROVE  \A v : Safe(v)' <=> Safe(v)
  BY DEF Safe

LEMMA SavedFrame ==
  ASSUME UNCHANGED <<local, remote, remoteTrash, localTrash, discarded, clock>>, AllSaved
  PROVE  AllSaved'
  BY DEF AllSaved, Saved, Safe, Holds

LEMMA BeginKeeps ==
  ASSUME IInv, IInv', LInv, Calm, Begin PROVE LInv'
<1>1. PICK m \in Modes, isBlind \in BOOLEAN :
         \E miss : Scan(m, miss, {}, isBlind) /\ (miss = {} \/ isBlind \/ Paths \subseteq miss)
  BY BeginMeans DEF Calm
<1>2. PICK miss : Scan(m, miss, {}, isBlind) /\ (miss = {} \/ isBlind \/ Paths \subseteq miss)
  BY <1>1
<1>3. /\ pc' = "listing" /\ blind' = isBlind
      /\ UNCHANGED <<local, remote, localTrash, remoteTrash, base, excluded, clock, discarded>>
  BY <1>2 DEF Scan, world, store, history
<1>4. \A v : Safe(v)' <=> Safe(v)
  BY <1>3, SafeFrame
<1>5. \A p \in Paths :
        /\ seen'[p] # Nil => local[p] # Nil /\ seen'[p].v = local[p].v
        /\ p \notin excluded \cup miss /\ local[p] # Nil => seen'[p] # Nil
  BY <1>2, ScanTells DEF Calm
<1>6. ASSUME ~isBlind, seen' # NoTree PROVE miss = {}
  <2>1. Paths \subseteq miss => \A p \in Paths : seen'[p] = Nil
    BY <1>2 DEF Scan, ScannedLocal
  <2>2. seen' \in Rows
    BY DEF IInv, TypeOK
  <2>3. (\A p \in Paths : seen'[p] = Nil) => seen' = NoTree
    BY <2>2 DEF Rows, NoTree
  <2> QED
    BY <1>2, <1>6, <2>1, <2>3
<1>7. ScanIsKept'
  BY <1>3, <1>5, <1>6 DEF ScanIsKept, Holds
<1>8. RowsAreSafe' /\ PlanIsKept'
  BY <1>3, <1>4 DEF LInv, RowsAreSafe, PlanIsKept, Working
<1>9. AllSaved'
  BY <1>3, SavedFrame DEF LInv
<1> QED
  BY <1>7, <1>8, <1>9 DEF LInv

\* What the verdict of each path says of the files in place.
LEMMA VerdictTells ==
  ASSUME IInv, LInv, Calm, pc = "listing", NEW miss, NEW noRoot, NEW p \in Paths
  PROVE  LET V == Verdicts(Listed(miss, noRoot))[p] IN
         /\ V.row # Nil => Safe(V.row.v) \/ V.op = "upload"
         /\ V.op = "upload" => seen[p] # Nil /\ V.row # Nil /\ V.row.v = seen[p].v
         /\ V.op \in {"download", "deleteLocal"} =>
               p \notin excluded /\ (seen[p] = Nil \/ Safe(seen[p].v))
         /\ V.op = "deleteLocal" => seen[p] # Nil
         /\ V.op = "deleteRemote" => Known[p] # Nil /\ Safe(Known[p].v)
<1> DEFINE rv == Listed(miss, noRoot)
           V == Verdicts(rv)[p]
<1>1. seen[p] \in Slots /\ rv[p] \in Slots /\ Known[p] \in Slots
  BY KnownTyped, ScannedRemoteTyped DEF IInv, TypeOK, Rows, Slots, Listed
<1>2. rv[p] # Nil => Safe(rv[p].v)
  BY DEF Listed, ScannedRemote, AsEntry, Safe
<1>3. Known[p] # Nil => Safe(Known[p].v)
  BY DEF Known, NoTree, LInv, RowsAreSafe
<1> HIDE DEF rv
<1>4. CASE p \in excluded
  BY <1>4 DEF Verdicts, Verdict
<1>5. CASE p \notin excluded
  <2>1. V = Judge(seen[p], rv[p], Known[p], C)
    BY <1>5 DEF Verdicts
  <2> HIDE DEF V
  <2>2. /\ V.op = "upload" => seen[p] # Nil /\ V.row # Nil /\ V.row.v = seen[p].v
        /\ V.row # Nil /\ V.op # "upload" => \/ rv[p] # Nil /\ V.row.v = rv[p].v
                                             \/ Known[p] # Nil /\ V.row.v = Known[p].v
        /\ V.op = "download" => seen[p] = Nil \/ (Known[p] # Nil /\ seen[p].v = Known[p].v)
        /\ V.op = "deleteLocal" => seen[p] # Nil /\ Known[p] # Nil /\ seen[p].v = Known[p].v
        /\ V.op = "deleteRemote" => Known[p] # Nil
    <3>1. SizesTell /\ C.conflict # "newer"
      BY DEF Calm
    <3> DEFINE s == seen[p]
               r == rv[p]
               b == Known[p]
    <3>2. s \in Slots /\ r \in Slots /\ b \in Slots /\ V = Judge(s, r, b, C)
      BY <1>1, <2>1
    <3> HIDE DEF s, r, b
    <3>3. /\ V.op = "upload" => s # Nil /\ V.row # Nil /\ V.row.v = s.v
          /\ V.row # Nil /\ V.op # "upload" => (r # Nil /\ V.row.v = r.v) \/ (b # Nil /\ V.row.v = b.v)
          /\ V.op = "download" => s = Nil \/ (b # Nil /\ s.v = b.v)
          /\ V.op = "deleteLocal" => s # Nil /\ b # Nil /\ s.v = b.v
          /\ V.op = "deleteRemote" => b # Nil
      BY <3>1, <3>2, JudgeKeeps
    <3> QED
      BY <3>3 DEF s, r, b
  <2>3. /\ V.row # Nil => Safe(V.row.v) \/ V.op = "upload"
        /\ V.op \in {"download", "deleteLocal"} => seen[p] = Nil \/ Safe(seen[p].v)
    BY <1>2, <1>3, <2>2
  <2> QED
    BY <1>3, <1>5, <2>2, <2>3 DEF V, rv
<1> QED
  BY <1>4, <1>5

LEMMA PlanKeeps ==
  ASSUME IInv, IInv', LInv, Calm, NEW miss, NEW noRoot \in BOOLEAN, Plan(miss, noRoot)
  PROVE  LInv'
<1> DEFINE rv == Listed(miss, noRoot)
           V == Verdicts(rv)
<1>1. /\ pc = "listing" /\ pc' \in {"base", "apply"}
      /\ UNCHANGED <<local, remote, localTrash, remoteTrash, base, excluded, clock, discarded,
                     seen, done, staged>>
  BY DEF Plan, world, store, input, history
<1>2. \A v : Safe(v)' <=> Safe(v)
  BY <1>1, SafeFrame
<1>3. done' = {} /\ \A p \in Paths : At(p)' = "none"
  BY <1>1 DEF IInv, NoWorkBeforePlan, NoTree, At
<1>4. RowsAreSafe' /\ ScanIsKept'
  BY <1>1, <1>2 DEF LInv, RowsAreSafe, ScanIsKept
<1>5. AllSaved'
  BY <1>1, SavedFrame DEF LInv
<1>6. ASSUME NEW p \in Paths PROVE (RowIsKept(p) /\ TargetIsSafe(p) /\ SourceIsIdle(p))'
  <2> DEFINE W == plan'[p]
  <2>1. /\ V[p].row # Nil => Safe(V[p].row.v) \/ V[p].op = "upload"
        /\ V[p].op = "upload" => seen[p] # Nil /\ V[p].row # Nil /\ V[p].row.v = seen[p].v
        /\ V[p].op \in {"download", "deleteLocal"} =>
              p \notin excluded /\ (seen[p] = Nil \/ Safe(seen[p].v))
    BY <1>1, VerdictTells
  <2>2. seen[p] # Nil => Safe(seen[p].v) \/ Holds(p, seen[p].v)
    BY <1>1 DEF LInv, ScanIsKept
  <2>3. ASSUME Undisturbed, FullView(miss, noRoot), V[p].op \in {"download", "deleteLocal"},
               seen # NoTree
        PROVE  Replaceable(p)
    <3>1. ~blind /\ p \in Paths \ excluded
      BY <2>1, <2>3 DEF FullView, Incomplete
    <3>2. (seen[p] = Nil => local[p] = Nil) /\ (seen[p] # Nil => Holds(p, seen[p].v))
      BY <1>1, <2>3, <3>1 DEF LInv, ScanIsKept
    <3> QED
      BY <2>1, <2>3, <3>2 DEF Replaceable, Holds
  <2>4. Replaceable(p)' <=> Replaceable(p)
    BY <1>1, <1>2 DEF Replaceable
  <2>5. TypeOK
    BY DEF IInv
  <2>6. CASE W = Idle
    <3>1. W.op = "none" /\ W.row = Nil
      BY <2>6 DEF Idle
    <3> QED
      BY <1>3, <3>1 DEF RowIsKept, TargetIsSafe, Overwrites, SourceIsIdle, Renames
  <2>7. CASE /\ W = [op |-> V[p].op, row |-> V[p].row, from |-> Nil]
             /\ V[p].op \in Deletes => FullView(miss, noRoot)
    <3>1. W.op = V[p].op /\ W.row = V[p].row
      BY <2>7
    <3>2. V[p].op \in VerdictOps
      BY <2>5, VerdictsTyped, ScannedRemoteTyped DEF TypeOK, Listed
    <3> HIDE DEF V, rv, W
    <3>3. W.op \notin Renames
      BY <3>1, <3>2 DEF VerdictOps, Transfers, Deletes, Renames
    <3>4. W.row # Nil => \/ Safe(W.row.v)
                         \/ W.op = "upload" /\ Holds(p, W.row.v)
      BY <2>1, <2>2, <3>1
    <3>5. RowIsKept(p)'
      BY <1>1, <1>2, <1>3, <3>4 DEF RowIsKept, Holds, W
    <3>6. W.op = "deleteLocal" => seen # NoTree
      <4>1. V[p].op = "deleteLocal" => seen[p] # Nil
        BY <1>1, VerdictTells DEF V, rv
      <4> QED
        BY <3>1, <4>1 DEF NoTree
    <3>7. W.op = "deleteLocal" /\ Undisturbed => Replaceable(p)
      BY <2>3, <2>7, <3>1, <3>6 DEF Deletes
    <3>8. W.op = "download" /\ seen[p] # Nil => Safe(seen[p].v)
      BY <2>1, <3>1
    <3>9. TargetIsSafe(p)'
      BY <1>1, <1>2, <1>3, <2>4, <3>3, <3>7, <3>8 DEF TargetIsSafe, Overwrites, Renames, W
    <3> QED
      BY <3>3, <3>5, <3>9 DEF SourceIsIdle, W
  <2>8. CASE /\ FullView(miss, noRoot) /\ W.row = V[p].row
             /\ W.from \in Paths /\ plan'[W.from] = Idle
             /\ W.op = "renameRemote" /\ <<W.from, p>> \in RenamedHere(V, rv)
    <3>1. /\ V[W.from].op = "deleteRemote" /\ V[p].op = "upload"
          /\ RenameMatch(Known[W.from], seen[p])
      BY <2>8 DEF RenamedHere
    <3>2. Known[W.from] # Nil /\ Safe(Known[W.from].v)
      BY <1>1, <2>8, <3>1, VerdictTells
    <3>3. Known[W.from] \in FileEntries /\ seen[p] \in FileEntries
      BY <2>1, <2>8, <3>1, <3>2, KnownTyped DEF IInv, TypeOK, Rows
    <3>4. Known[W.from].v = seen[p].v
      BY <3>1, <3>3 DEF RenameMatch, Calm, SizesTell, FileEntries
    <3>5. Safe(W.row.v)
      BY <2>1, <2>8, <3>1, <3>2, <3>4
    <3>6. plan'[W.from].op = "none"
      BY <2>8 DEF Idle
    <3> QED
      BY <1>2, <1>3, <2>8, <3>5, <3>6 DEF RowIsKept, TargetIsSafe, Overwrites, SourceIsIdle
  <2>9. CASE /\ FullView(miss, noRoot) /\ W.row = V[p].row
             /\ W.from \in Paths /\ plan'[W.from] = Idle
             /\ W.op = "renameLocal" /\ <<W.from, p>> \in RenamedThere(V, rv)
    <3>1. V[W.from].op = "deleteLocal" /\ V[p].op = "download"
      BY <2>9 DEF RenamedThere
    <3>2. seen[W.from] # Nil
      BY <1>1, <2>9, <3>1, VerdictTells
    <3>3. Undisturbed => Replaceable(p)
      BY <2>3, <2>9, <3>1, <3>2 DEF NoTree
    <3>4. W.row # Nil => Safe(W.row.v)
      BY <2>1, <2>9, <3>1
    <3>5. plan'[W.from].op = "none"
      BY <2>9 DEF Idle
    <3> QED
      BY <1>2, <1>3, <2>4, <2>9, <3>3, <3>4, <3>5 DEF RowIsKept, TargetIsSafe, Overwrites, SourceIsIdle
  <2> QED
    BY <2>5, <2>6, <2>7, <2>8, <2>9, PlanMeans
<1>7. PlanIsKept'
  BY <1>6 DEF PlanIsKept
<1> QED
  BY <1>4, <1>5, <1>7 DEF LInv

LEMMA CommitKeeps ==
  ASSUME IInv, LInv, Commit PROVE LInv'
<1>1. /\ pc = "apply" /\ pc' = "retry"
      /\ UNCHANGED <<local, remote, localTrash, remoteTrash, clock, discarded,
                     seen, done, staged, plan, todo>>
  BY DEF Commit, world, input, work
<1>2. \A v : Safe(v)' <=> Safe(v)
  BY <1>1, SafeFrame
<1>3. ASSUME NEW p \in Paths, Confirmed(p) PROVE Safe(plan[p].row.v)
  BY <1>1, <1>3 DEF Confirmed, LInv, PlanIsKept, Working, RowIsKept, Pending, Executed, RemoteOps, Deletes
<1>4. RowsAreSafe'
  <2>1. \A p \in Paths : base'[p] # Nil => \/ Confirmed(p) /\ base'[p] = plan[p].row
                                           \/ base'[p] = base[p]
    BY DEF Commit
  <2> QED
    BY <1>2, <1>3, <2>1 DEF LInv, RowsAreSafe
<1>5. PlanIsKept'
  BY <1>1, <1>2 DEF LInv, PlanIsKept, Working, RowIsKept, TargetIsSafe, SourceIsIdle, Overwrites, At,
                    Replaceable, Holds
<1>6. ScanIsKept' /\ AllSaved'
  BY <1>1, SavedFrame DEF LInv, ScanIsKept
<1> QED
  BY <1>4, <1>5, <1>6 DEF LInv
-----------------------------------------------------------------------------
(* Operations keep everything.                                               *)

\* Safe, and saved, after the step.
SafeNext(v) == \/ v \in discarded'
               \/ \E p \in Paths : remote'[p] # Nil /\ remote'[p].v = v
               \/ \E e \in remoteTrash' : e[2].v = v
               \/ StayInPlace /\ \E e \in localTrash' : e[2].v = v
SavedNext(v) == \/ SafeNext(v)
                \/ \E p \in Paths : local'[p] # Nil /\ local'[p].v = v
                \/ \E e \in localTrash' : e[2].v = v

Remains == \A v : Safe(v) => SafeNext(v)

\* The parts of the invariant after the step.
LEMMA NextMeans ==
  /\ RowsAreSafe' <=> \A p \in Paths : base'[p] # Nil => SafeNext(base'[p].v)
  /\ \A p : Replaceable(p)' <=> local'[p] = Nil \/ SafeNext(local'[p].v)
  /\ \A p : RowIsKept(p)' <=>
        (plan'[p].row # Nil => \/ SafeNext(plan'[p].row.v)
                              \/ /\ plan'[p].op = "upload" /\ p \notin done'
                                 /\ p \in todo' => local'[p] # Nil /\ local'[p].v = plan'[p].row.v)
  /\ \A p : TargetIsSafe(p)' <=>
        /\ plan'[p].op = "download" /\ seen'[p] # Nil => SafeNext(seen'[p].v)
        /\ Overwrites(p)' => Replaceable(p)'
  /\ AllSaved' <=> \A v \in 1..clock' : SavedNext(v)
<1>1. RowsAreSafe' <=> \A p \in Paths : base'[p] # Nil => SafeNext(base'[p].v)
  BY DEF RowsAreSafe, Safe, SafeNext
<1>2. ASSUME NEW p PROVE Replaceable(p)' <=> local'[p] = Nil \/ SafeNext(local'[p].v)
  BY DEF Replaceable, Safe, SafeNext
<1>3. ASSUME NEW p
      PROVE  RowIsKept(p)' <=>
               (plan'[p].row # Nil => \/ SafeNext(plan'[p].row.v)
                                     \/ /\ plan'[p].op = "upload" /\ p \notin done'
                                        /\ p \in todo' => local'[p] # Nil /\ local'[p].v = plan'[p].row.v)
  BY DEF RowIsKept, Safe, SafeNext, Holds
<1>4. ASSUME NEW p
      PROVE  TargetIsSafe(p)' <=>
               /\ plan'[p].op = "download" /\ seen'[p] # Nil => SafeNext(seen'[p].v)
               /\ Overwrites(p)' => Replaceable(p)'
  BY DEF TargetIsSafe, Safe, SafeNext
<1>5. AllSaved' <=> \A v \in 1..clock' : SavedNext(v)
  BY DEF AllSaved, Saved, SavedNext, Safe, SafeNext, Holds
<1> QED
  BY <1>1, <1>2, <1>3, <1>4, <1>5

LEMMA SafeRemains ==
  ASSUME discarded \subseteq discarded',
         \A p \in Paths : remote[p] # Nil => SafeNext(remote[p].v),
         \A e \in remoteTrash : SafeNext(e[2].v),
         StayInPlace => localTrash \subseteq localTrash'
  PROVE  Remains
  BY DEF Remains, Safe, SafeNext

\* Writing over a remote file, or removing it, leaves it in the remote's trash.
LEMMA ReplacedIsSafe ==
  ASSUME remote \in Tree, NEW p \in Paths,
         \A q \in Paths : q # p => remote'[q] = remote[q],
         remoteTrash' = remoteTrash \cup Replaced(remote, p),
         discarded \subseteq discarded', localTrash \subseteq localTrash'
  PROVE  Remains
<1>1. \A q \in Paths : remote[q] # Nil => SafeNext(remote[q].v)
  <2> SUFFICES ASSUME NEW q \in Paths, remote[q] # Nil PROVE SafeNext(remote[q].v)
    OBVIOUS
  <2>1. CASE q # p
    BY <2>1 DEF SafeNext
  <2>2. CASE q = p
    <3>1. <<p, remote[p]>> \in remoteTrash' /\ <<p, remote[p]>>[2].v = remote[p].v
      BY <2>2 DEF Replaced
    <3> QED
      BY <2>2, <3>1 DEF SafeNext
  <2> QED
    BY <2>1, <2>2
<1>2. \A e \in remoteTrash : SafeNext(e[2].v)
  BY DEF SafeNext
<1> QED
  BY <1>1, <1>2, SafeRemains

LEMMA LocalIsSafe ==
  ASSUME UNCHANGED <<remote, remoteTrash>>, discarded \subseteq discarded',
         localTrash \subseteq localTrash'
  PROVE  Remains
  BY DEF Remains, Safe, SafeNext

\* What an operation must see to: of the files it moves, none was still to be uploaded or
\* is the target of another operation, and each is somewhere afterwards.
LEMMA OperationKeeps ==
  ASSUME IInv, LInv, pc \in {"apply", "retry"}, UNCHANGED steady, Remains,
         NEW p \in Paths,
         \A q \in Paths : plan'[q].op = plan[q].op /\ plan'[q].from = plan[q].from,
         \A q \in Paths : plan'[q].row = plan[q].row \/ SafeNext(plan'[q].row.v),
         todo' \subseteq todo, done' \subseteq done \cup {p},
         p \in done' /\ plan[p].op = "upload" /\ plan[p].row # Nil => SafeNext(plan[p].row.v),
         \A q \in Paths : local'[q] # local[q] => plan[q].op # "upload" /\ ~Overwrites(q)',
         \A q \in Paths : Overwrites(q)' => Overwrites(q) \/ Replaceable(q)',
         \A q \in Paths : local[q] # Nil => SavedNext(local[q].v),
         \A e \in localTrash : SavedNext(e[2].v)
  PROVE  LInv'
<1>1. pc' = pc /\ UNCHANGED <<base, seen, excluded, clock>>
  BY DEF steady, store, input
<1>2. RowsAreSafe'
  BY <1>1, NextMeans DEF LInv, RowsAreSafe, Remains
<1>3. ScanIsKept'
  BY <1>1 DEF ScanIsKept
<1>4. ASSUME NEW q \in Paths PROVE (RowIsKept(q) /\ TargetIsSafe(q) /\ SourceIsIdle(q))'
  <2>1. RowIsKept(q) /\ TargetIsSafe(q) /\ SourceIsIdle(q)
    BY DEF LInv, PlanIsKept, Working
  <2>2. RowIsKept(q)'
    <3>1. CASE plan'[q].row # plan[q].row
      BY <3>1, NextMeans
    <3>2. CASE plan'[q].row = plan[q].row /\ (plan[q].row = Nil \/ Safe(plan[q].row.v))
      BY <3>2, NextMeans DEF Remains
    <3>3. CASE /\ plan'[q].row = plan[q].row /\ plan[q].row # Nil
               /\ plan[q].op = "upload" /\ q \notin done
               /\ q \in todo => Holds(q, plan[q].row.v)
      <4>1. q \in done' => SafeNext(plan[q].row.v)
        BY <3>3
      <4>2. local'[q] = local[q]
        BY <3>3
      <4> QED
        BY <3>3, <4>1, <4>2, NextMeans DEF Holds
    <3> QED
      BY <2>1, <3>1, <3>2, <3>3 DEF RowIsKept
  <2>3. TargetIsSafe(q)'
    <3>1. plan'[q].op = "download" /\ seen'[q] # Nil => SafeNext(seen'[q].v)
      BY <1>1, <2>1 DEF TargetIsSafe, Remains
    <3>2. ASSUME Overwrites(q)' PROVE Replaceable(q)'
      <4>1. local'[q] = local[q]
        BY <3>2
      <4>2. Replaceable(q) => Replaceable(q)'
        BY <4>1, NextMeans DEF Replaceable, Remains
      <4> QED
        BY <2>1, <3>2, <4>2 DEF TargetIsSafe
    <3> QED
      BY <3>1, <3>2, NextMeans
  <2>4. SourceIsIdle(q)'
    <3>1. plan[q].op \in Renames => plan[q].from \in Paths
      BY WorldTyped
    <3> QED
      BY <2>1, <3>1 DEF SourceIsIdle
  <2> QED
    BY <2>2, <2>3, <2>4
<1>5. PlanIsKept'
  BY <1>4 DEF PlanIsKept
<1>6. AllSaved'
  <2>1. \A v : Saved(v) => SavedNext(v)
    <3> SUFFICES ASSUME NEW v, Saved(v) PROVE SavedNext(v)
      OBVIOUS
    <3>1. CASE Safe(v)
      BY <3>1 DEF Remains, SavedNext
    <3>2. CASE \E q \in Paths : Holds(q, v)
      BY <3>2 DEF Holds
    <3>3. CASE \E e \in localTrash : e[2].v = v
      BY <3>3
    <3> QED
      BY <3>1, <3>2, <3>3 DEF Saved
  <2> QED
    BY <1>1, <2>1, NextMeans DEF LInv, AllSaved
<1> QED
  BY <1>2, <1>3, <1>5, <1>6 DEF LInv

\* What is still in place, or in the local trash, is saved.
LEMMA InPlaceIsSaved ==
  ASSUME UNCHANGED <<local, localTrash>>
  PROVE  /\ \A q \in Paths : local[q] # Nil => SavedNext(local[q].v)
         /\ \A e \in localTrash : SavedNext(e[2].v)
  BY DEF SavedNext

\* The outcome of an operation.
LEMMA OutcomeMeans ==
  ASSUME NEW p, NEW rows,
         Outcome(p, rows) \/ Succeeded(p, rows) \/ Failed(p)
  PROVE  todo' = todo \ {p} /\ done' \subseteq done \cup {p}
  BY DEF Outcome, Succeeded, Failed, TimedOut

LEMMA OverwritesFrame ==
  ASSUME UNCHANGED <<plan, staged>>, todo' \subseteq todo
  PROVE  \A q \in Paths : Overwrites(q)' => Overwrites(q)
  BY DEF Overwrites, At

LEMMA NothingStaged ==
  ASSUME InFlight = {}
  PROVE  \A q \in Paths : staged[q] = Nil /\ copyOf[q] = Nil /\ At(q) = "none"
  BY DEF InFlight, At

\* Operations on the remote alone.
LEMMA RemoteOpKeeps ==
  ASSUME IInv, LInv, NEW p \in Paths, Upload(p) \/ DeleteRemote(p) \/ RenameRemote(p)
  PROVE  LInv'
<1>1. /\ pc = "apply" /\ p \in todo /\ UNCHANGED <<local, localTrash, plan, copyOf, staged, steady>>
      /\ UNCHANGED discarded
      /\ plan[p].op \in {"upload", "deleteRemote", "renameRemote"}
  BY DEF Upload, DeleteRemote, RenameRemote, Takes, Rest, steady, history
<1>2. todo' = todo \ {p} /\ done' \subseteq done \cup {p}
  BY OutcomeMeans DEF Upload, DeleteRemote, RenameRemote
<1>3. remote \in Tree
  BY WorldTyped
<1>4. Remains
  <2>1. CASE Upload(p)
    BY <1>1, <1>3, <2>1, ReplacedIsSafe DEF Upload, Tree
  <2>2. CASE DeleteRemote(p)
    BY <1>1, <1>3, <2>2, ReplacedIsSafe DEF DeleteRemote, Tree
  <2>3. CASE RenameRemote(p)
    <3> DEFINE from == plan[p].from
    <3>1. from \in Paths /\ remote[from] # Nil
      BY <1>1, <2>3, WorldTyped DEF Renames, RenameRemote, Takes
    <3>2. /\ remote' = [remote EXCEPT ![p] = remote[from], ![from] = Nil]
          /\ remoteTrash' = remoteTrash \cup Replaced(remote, p)
      BY <2>3 DEF RenameRemote
    <3>3. from # p
      BY <1>1, <2>3, <3>1 DEF LInv, PlanIsKept, Working, SourceIsIdle, Renames, RenameRemote, Takes
    <3> HIDE DEF from
    <3>4. /\ remote'[p] = remote[from]
          /\ \A q \in Paths : q # p /\ q # from => remote'[q] = remote[q]
      BY <1>3, <3>1, <3>2, <3>3 DEF Tree
    <3>5. \A q \in Paths : remote[q] # Nil => SafeNext(remote[q].v)
      <4> SUFFICES ASSUME NEW q \in Paths, remote[q] # Nil PROVE SafeNext(remote[q].v)
        OBVIOUS
      <4>1. CASE q # p /\ q # from
        BY <3>4, <4>1 DEF SafeNext
      <4>2. CASE q = from
        BY <3>4, <4>2 DEF SafeNext
      <4>3. CASE q = p
        <5>1. <<p, remote[p]>> \in remoteTrash' /\ <<p, remote[p]>>[2].v = remote[p].v
          BY <3>2, <4>3 DEF Replaced
        <5> QED
          BY <4>3, <5>1 DEF SafeNext
      <4> QED
        BY <4>1, <4>2, <4>3
    <3>6. \A e \in remoteTrash : SafeNext(e[2].v)
      BY <3>2 DEF SafeNext
    <3> QED
      BY <1>1, <3>5, <3>6, SafeRemains
  <2> QED
    BY <2>1, <2>2, <2>3
<1>5. ASSUME plan[p].op = "upload", plan[p].row # Nil PROVE SafeNext(plan[p].row.v)
  <2>1. Upload(p)
    BY <1>5 DEF Upload, DeleteRemote, RenameRemote, Takes
  <2>2. Safe(plan[p].row.v) \/ Holds(p, plan[p].row.v)
    BY <1>1, <1>5 DEF LInv, PlanIsKept, Working, RowIsKept
  <2>3. remote'[p] = local[p]
    BY <1>3, <2>1 DEF Upload, Tree
  <2> QED
    BY <1>4, <2>2, <2>3 DEF Remains, Holds, SafeNext
<1>6. \A q \in Paths : Overwrites(q)' => Overwrites(q)
  BY <1>1, <1>2, OverwritesFrame
<1>7. /\ \A q \in Paths : local[q] # Nil => SavedNext(local[q].v)
      /\ \A e \in localTrash : SavedNext(e[2].v)
  BY <1>1, InPlaceIsSaved
<1> QED
  BY <1>1, <1>2, <1>4, <1>5, <1>6, <1>7, OperationKeeps

LEMMA StagedMeans ==
  ASSUME IInv, NEW p \in Paths
  PROVE  /\ At(p) # "none" => staged[p] # Nil /\ staged[p] \in Staged /\ At(p) = staged[p].at
         /\ staged[p] # Nil => At(p) # "none" /\ plan[p].op \in {"download", "conflict"}
         /\ copyOf[p] # Nil => plan[p].op = "conflict" /\ copyOf[p] \in Paths
         /\ At(p) = "installed" => copyOf[p] # Nil
<1>1. staged[p] # Nil => staged[p] \in Staged /\ staged[p].at \in {"fetched", "checked", "installed"}
  BY DEF IInv, TypeOK, Staged
<1>2. /\ staged[p] # Nil => \/ plan[p].op = "download" /\ staged[p].at # "installed"
                            \/ plan[p].op = "conflict" /\ copyOf[p] # Nil
      /\ copyOf[p] # Nil => plan[p].op = "conflict" /\ copyOf[p] \in Paths
  BY DEF IInv, StagedAreTransfers, TypeOK
<1> QED
  BY <1>1, <1>2 DEF At

\* Files that are still somewhere in place, or that were replaceable, are saved.
LEMMA MovedIsSaved ==
  ASSUME localTrash \subseteq localTrash', Remains,
         \A q \in Paths : local[q] # Nil => \/ Replaceable(q)
                                            \/ \E r \in Paths : local'[r] # Nil /\ local'[r].v = local[q].v
                                            \/ \E e \in localTrash' : e[2].v = local[q].v
  PROVE  /\ \A q \in Paths : local[q] # Nil => SavedNext(local[q].v)
         /\ \A e \in localTrash : SavedNext(e[2].v)
  BY DEF SavedNext, Remains, Replaceable

LEMMA DeleteLocalKeeps ==
  ASSUME IInv, LInv, Calm, NEW p \in Paths, DeleteLocal(p) PROVE LInv'
<1>1. /\ pc = "apply" /\ p \in todo /\ plan[p].op = "deleteLocal"
      /\ UNCHANGED <<remote, remoteTrash, plan, copyOf, staged, steady>> /\ UNCHANGED discarded
      /\ local' = [local EXCEPT ![p] = Nil]
      /\ InFlight = {}
  BY DEF DeleteLocal, Takes, Rest, steady, history
<1>2. todo' = todo \ {p} /\ done' \subseteq done \cup {p}
  BY OutcomeMeans DEF DeleteLocal
<1>3. localTrash \subseteq localTrash'
  BY DEF DeleteLocal
<1>4. Remains
  BY <1>1, <1>3, LocalIsSafe
<1>5. \A q \in Paths : q # p => local'[q] = local[q]
  BY <1>1
<1>6. Overwrites(p) => Replaceable(p)
  BY <1>1 DEF LInv, PlanIsKept, Working, TargetIsSafe
<1>7. local[p] # Nil => Replaceable(p) \/ \E e \in localTrash' : e[2].v = local[p].v
  <2>1. CASE Undisturbed
    BY <1>1, <1>6, <2>1 DEF Overwrites
  <2>2. CASE StayInPlace
    <3>1. local[p] # Nil => <<p, local[p]>> \in localTrash' /\ <<p, local[p]>>[2].v = local[p].v
      BY <2>2 DEF StayInPlace, DeleteLocal, Replaced
    <3> QED
      BY <3>1
  <2> QED
    BY <2>1, <2>2 DEF Calm
<1>8. /\ \A q \in Paths : local[q] # Nil => SavedNext(local[q].v)
      /\ \A e \in localTrash : SavedNext(e[2].v)
  BY <1>3, <1>4, <1>5, <1>7, MovedIsSaved
<1>9. \A q \in Paths : Overwrites(q)' => Overwrites(q)
  BY <1>1, <1>2, OverwritesFrame
<1>10. ~Overwrites(p)'
  <2>1. At(p) = "none"
    BY <1>1, NothingStaged
  <2>2. At(p)' = At(p)
    BY <1>1 DEF At
  <2> QED
    BY <1>2, <2>1, <2>2 DEF Overwrites
<1> QED
  BY <1>1, <1>2, <1>4, <1>5, <1>8, <1>9, <1>10, OperationKeeps

LEMMA RenameLocalKeeps ==
  ASSUME IInv, LInv, Undisturbed, NEW p \in Paths, RenameLocal(p) PROVE LInv'
<1> DEFINE from == plan[p].from
<1>1. /\ pc = "apply" /\ p \in todo /\ plan[p].op = "renameLocal"
      /\ UNCHANGED <<remote, localTrash, remoteTrash, plan, copyOf, staged, steady>>
      /\ UNCHANGED discarded
      /\ local' = [local EXCEPT ![p] = [v |-> local[from].v, t |-> plan[p].row.t], ![from] = Nil]
      /\ local[from] # Nil
      /\ InFlight = {}
  BY DEF RenameLocal, Takes, Rest, steady, history
<1>2. todo' = todo \ {p} /\ done' \subseteq done \cup {p}
  BY OutcomeMeans DEF RenameLocal
<1>3. from \in Paths /\ plan[from].op = "none" /\ from # p
  BY <1>1, WorldTyped DEF LInv, PlanIsKept, Working, SourceIsIdle, Renames
<1>4. local \in Tree /\ local[from] \in File
  BY <1>1, <1>3, WorldTyped
<1> HIDE DEF from
<1>5. /\ local'[p] = [v |-> local[from].v, t |-> plan[p].row.t]
      /\ \A q \in Paths : q # p /\ q # from => local'[q] = local[q]
  BY <1>1, <1>3, <1>4 DEF Tree
<1>6. local'[p] # Nil /\ local'[p].v = local[from].v
  <2>1. plan[p].row \in FileEntries
    BY <1>1 DEF IInv, PlansAreComplete, Pending, Executed, LocalOps, Deletes
  <2>2. local[from].v \in Versions /\ plan[p].row.t \in Nat
    BY <1>4, <2>1 DEF File, FileEntries
  <2>3. local'[p] \in File
    BY <1>5, <2>2 DEF File
  <2>4. Nil \notin File
    BY PairSyncAssumption
  <2> QED
    BY <1>5, <2>3, <2>4
<1>7. Remains
  BY <1>1, LocalIsSafe
<1>8. Replaceable(p)
  BY <1>1 DEF LInv, PlanIsKept, Working, TargetIsSafe, Overwrites
<1>9. /\ \A q \in Paths : local[q] # Nil => SavedNext(local[q].v)
      /\ \A e \in localTrash : SavedNext(e[2].v)
  <2>1. ASSUME NEW q \in Paths, local[q] # Nil
        PROVE  Replaceable(q) \/ \E r \in Paths : local'[r] # Nil /\ local'[r].v = local[q].v
    BY <1>5, <1>6, <1>8, <2>1
  <2> QED
    BY <1>1, <1>7, <2>1, MovedIsSaved
<1>10. \A q \in Paths : Overwrites(q)' => Overwrites(q)
  BY <1>1, <1>2, OverwritesFrame
<1>11. \A q \in Paths : At(q)' = "none"
  BY <1>1, NothingStaged DEF At
<1>12. \A q \in Paths : local'[q] # local[q] => plan[q].op # "upload" /\ ~Overwrites(q)'
  BY <1>1, <1>2, <1>3, <1>5, <1>11 DEF Overwrites
<1> QED
  BY <1>1, <1>2, <1>7, <1>9, <1>10, <1>12, OperationKeeps

LEMMA ConflictAsideKeeps ==
  ASSUME IInv, LInv, NEW p \in Paths, NEW c \in Paths, ConflictAside(p, c) PROVE LInv'
<1>1. /\ pc = "apply" /\ p \in todo /\ plan[p].op = "conflict" /\ plan[c] = Idle
      /\ UNCHANGED <<remote, localTrash, remoteTrash, plan, todo, done, staged, steady>>
      /\ UNCHANGED discarded
      /\ local' = [local EXCEPT ![c] = local[p], ![p] = Nil]
      /\ InFlight = {} /\ local[c] = Nil
  BY DEF ConflictAside, Takes, Rest, steady, history
<1>2. plan[c].op = "none" /\ c # p
  BY <1>1 DEF Idle
<1>3. local \in Tree
  BY WorldTyped
<1>4. /\ local'[c] = local[p]
      /\ \A q \in Paths : q # p /\ q # c => local'[q] = local[q]
  BY <1>1, <1>2, <1>3 DEF Tree
<1>5. Remains
  BY <1>1, LocalIsSafe
<1>6. /\ \A q \in Paths : local[q] # Nil => SavedNext(local[q].v)
      /\ \A e \in localTrash : SavedNext(e[2].v)
  <2>1. ASSUME NEW q \in Paths, local[q] # Nil
        PROVE  \E r \in Paths : local'[r] # Nil /\ local'[r].v = local[q].v
    BY <1>1, <1>4, <2>1
  <2> QED
    BY <1>1, <1>5, <2>1, MovedIsSaved
<1>7. \A q \in Paths : Overwrites(q)' => Overwrites(q)
  BY <1>1, OverwritesFrame
<1>8. \A q \in Paths : At(q)' = "none"
  BY <1>1, NothingStaged DEF At
<1>9. \A q \in Paths : local'[q] # local[q] => plan[q].op # "upload" /\ ~Overwrites(q)'
  BY <1>1, <1>2, <1>4, <1>8 DEF Overwrites
<1> QED
  BY <1>1, <1>5, <1>6, <1>7, <1>9, OperationKeeps

LEMMA FetchKeeps ==
  ASSUME IInv, LInv, NEW p \in Paths, Fetch(p) PROVE LInv'
<1>1. /\ pc = "apply" /\ UNCHANGED <<local, remote, localTrash, remoteTrash, plan, todo, done, steady>>
      /\ UNCHANGED discarded
      /\ staged' = [staged EXCEPT ![p] = [f |-> remote[p], at |-> "fetched"]]
  BY DEF Fetch, MayFetch, steady, history, world
<1>2. Remains
  BY <1>1, LocalIsSafe
<1>3. /\ \A q \in Paths : local[q] # Nil => SavedNext(local[q].v)
      /\ \A e \in localTrash : SavedNext(e[2].v)
  BY <1>1, InPlaceIsSaved
<1>4. \A q \in Paths : Overwrites(q)' => Overwrites(q)
  <2>1. staged \in [Paths -> Staged \cup {Nil}]
    BY DEF IInv, TypeOK
  <2>2. At(p)' # "checked"
    BY <1>1, <2>1 DEF At
  <2>3. \A q \in Paths : q # p => At(q)' = At(q)
    BY <1>1, <2>1 DEF At
  <2> QED
    BY <1>1, <2>2, <2>3 DEF Overwrites
<1>5. plan[p].op # "upload"
  BY DEF Fetch, MayFetch
<1> QED
  BY <1>1, <1>2, <1>3, <1>4, <1>5, OperationKeeps

\* The check before an install: what is in place is what the run saw, or nothing.
LEMMA InstallCheckKeeps ==
  ASSUME IInv, LInv, Calm, NEW p \in Paths, InstallCheck(p) PROVE LInv'
<1>1. /\ At(p) = "fetched" /\ LocalMatches(p)
      /\ UNCHANGED <<local, remote, localTrash, remoteTrash, plan, todo, done, steady>>
      /\ UNCHANGED discarded
      /\ \A q \in Paths : q # p => staged'[q] = staged[q]
  BY DEF InstallCheck, steady, history, world, IInv, TypeOK
<1>2. pc \in {"apply", "retry"} /\ plan[p].op \in {"download", "conflict"}
  BY <1>1, StagedMeans, InFlightWhen
<1>3. Remains
  BY <1>1, LocalIsSafe
<1>4. /\ \A q \in Paths : local[q] # Nil => SavedNext(local[q].v)
      /\ \A e \in localTrash : SavedNext(e[2].v)
  BY <1>1, InPlaceIsSaved
<1>5. Replaceable(p)
  <2>1. CASE Expected(p) = Nil
    BY <1>1, <2>1 DEF LocalMatches, Replaceable
  <2>2. CASE Expected(p) # Nil
    <3>1. plan[p].op = "download" /\ Expected(p) = seen[p]
      BY <1>2, <2>2 DEF Expected
    <3>2. local[p] # Nil /\ Size[local[p].v] = Size[seen[p].v]
      BY <1>1, <2>2, <3>1 DEF LocalMatches
    <3>3. local[p] \in File /\ seen[p] \in FileEntries
      BY <2>2, <3>1, <3>2, WorldTyped DEF IInv, TypeOK, Rows
    <3>4. local[p].v = seen[p].v
      BY <3>2, <3>3 DEF Calm, SizesTell, File, FileEntries
    <3>5. Safe(seen[p].v)
      BY <1>2, <2>2, <3>1 DEF LInv, PlanIsKept, Working, TargetIsSafe
    <3> QED
      BY <3>4, <3>5 DEF Replaceable
  <2> QED
    BY <2>1, <2>2
<1>6. Replaceable(p)'
  BY <1>1, <1>3, <1>5, NextMeans DEF Replaceable, Remains
<1>7. \A q \in Paths : Overwrites(q)' => Overwrites(q) \/ Replaceable(q)'
  BY <1>1, <1>6 DEF Overwrites, At
<1> QED
  BY <1>1, <1>2, <1>3, <1>4, <1>7, OperationKeeps

LEMMA InstallRenameKeeps ==
  ASSUME IInv, LInv, NEW p \in Paths, InstallRename(p) PROVE LInv'
<1>1. /\ At(p) = "checked"
      /\ UNCHANGED <<remote, localTrash, remoteTrash, plan, steady>>
      /\ UNCHANGED discarded
      /\ \A q \in Paths : q # p => staged'[q] = staged[q] /\ local'[q] = local[q]
      /\ todo' \subseteq todo /\ done' \subseteq done \cup {p}
  BY DEF InstallRename, steady, history, IInv, TypeOK, Tree, Succeeded
<1>2. pc \in {"apply", "retry"} /\ plan[p].op \in {"download", "conflict"}
  BY <1>1, StagedMeans, InFlightWhen
<1>3. Remains
  BY <1>1, LocalIsSafe
<1>4. Replaceable(p)
  BY <1>1, <1>2 DEF LInv, PlanIsKept, Working, TargetIsSafe, Overwrites
<1>5. /\ \A q \in Paths : local[q] # Nil => SavedNext(local[q].v)
      /\ \A e \in localTrash : SavedNext(e[2].v)
  BY <1>1, <1>3, <1>4, MovedIsSaved
<1>6. At(p)' # "checked"
  <2>1. staged \in [Paths -> Staged \cup {Nil}] /\ staged[p] \in Staged
    BY <1>1, StagedMeans DEF IInv, TypeOK
  <2>2. CASE plan[p].op = "conflict"
    <3>1. staged'[p] = [staged[p] EXCEPT !.at = "installed"]
      BY <2>1, <2>2 DEF InstallRename
    <3>2. staged'[p].at = "installed"
      BY <2>1, <3>1 DEF Staged
    <3> QED
      BY <3>2 DEF At
  <2>3. CASE plan[p].op # "conflict"
    BY <2>1, <2>3 DEF InstallRename, At
  <2> QED
    BY <2>2, <2>3
<1>7. ~Overwrites(p)'
  BY <1>1, <1>2, <1>6 DEF Overwrites
<1>8. \A q \in Paths : Overwrites(q)' => Overwrites(q)
  BY <1>1, <1>7 DEF Overwrites, At
<1> QED
  BY <1>1, <1>2, <1>3, <1>5, <1>7, <1>8, OperationKeeps

LEMMA ConflictUploadKeeps ==
  ASSUME IInv, LInv, NEW p \in Paths, ConflictUpload(p) PROVE LInv'
<1> DEFINE c == copyOf[p]
<1>1. /\ At(p) = "installed" /\ local[c] # Nil
      /\ remote' = [remote EXCEPT ![c] = local[c]]
      /\ remoteTrash' = remoteTrash \cup Replaced(remote, c)
      /\ staged' = [staged EXCEPT ![p] = Nil]
      /\ UNCHANGED <<local, localTrash, steady>> /\ UNCHANGED discarded
  BY DEF ConflictUpload, steady, history
<1>2. /\ pc \in {"apply", "retry"} /\ plan[p].op = "conflict" /\ c \in Paths
  BY <1>1, StagedMeans, InFlightWhen
<1>3. todo' = todo \ {p} /\ done' \subseteq done \cup {p}
  BY OutcomeMeans DEF ConflictUpload, Outcome
<1>4. remote \in Tree
  BY WorldTyped
<1>5. Remains
  BY <1>1, <1>2, <1>4, ReplacedIsSafe DEF Tree
<1>6. /\ \A q \in Paths : local[q] # Nil => SavedNext(local[q].v)
      /\ \A e \in localTrash : SavedNext(e[2].v)
  BY <1>1, InPlaceIsSaved
<1>7. SafeNext(local[c].v)
  BY <1>1, <1>2, <1>4 DEF Tree, SafeNext
<1>8. \A q \in Paths : /\ plan'[q].op = plan[q].op /\ plan'[q].from = plan[q].from
                       /\ plan'[q].row = plan[q].row \/ SafeNext(plan'[q].row.v)
  <2> DEFINE row == [dir |-> FALSE, v |-> local[c].v, t |-> NoTime, h |-> FALSE]
  <2>1. plan' = [plan EXCEPT ![c].row = row] \/ plan' = plan
    BY DEF ConflictUpload
  <2>2. plan \in [Paths -> Planned] /\ plan[c] \in Planned
    BY <1>2 DEF IInv, TypeOK
  <2>3. row.v = local[c].v
    OBVIOUS
  <2> HIDE DEF row, c
  <2>4. CASE plan' = [plan EXCEPT ![c].row = row]
    <3>1. plan'[c] = [plan[c] EXCEPT !.row = row] /\ \A q \in Paths : q # c => plan'[q] = plan[q]
      BY <1>2, <2>2, <2>4
    <3>2. plan'[c].op = plan[c].op /\ plan'[c].from = plan[c].from /\ plan'[c].row = row
      BY <2>2, <3>1 DEF Planned
    <3> QED
      BY <1>7, <2>3, <3>1, <3>2
  <2> QED
    BY <2>1, <2>4
<1>9. \A q \in Paths : Overwrites(q)' => Overwrites(q)
  <2>1. staged \in [Paths -> Staged \cup {Nil}]
    BY DEF IInv, TypeOK
  <2>2. \A q \in Paths : At(q)' = "checked" => At(q) = "checked"
    BY <1>1, <2>1 DEF At
  <2> QED
    BY <1>3, <1>8, <2>2 DEF Overwrites
<1> QED
  BY <1>1, <1>2, <1>3, <1>5, <1>6, <1>8, <1>9, OperationKeeps

LEMMA OpFailsKeeps ==
  ASSUME IInv, LInv, NEW p \in Paths, OpFails(p) PROVE LInv'
<1>1. /\ UNCHANGED <<local, remote, localTrash, remoteTrash, plan, steady>> /\ UNCHANGED discarded
      /\ staged' = [staged EXCEPT ![p] = Nil] /\ Failed(p)
  BY DEF OpFails, steady, history, world
<1>2. todo' \subseteq todo /\ done' = done
  BY <1>1 DEF Failed
<1>3. pc \in {"apply", "retry"}
  BY InFlightWhen DEF OpFails, Running, Takes, MayFetch, InFlight
<1>4. Remains
  BY <1>1, LocalIsSafe
<1>5. /\ \A q \in Paths : local[q] # Nil => SavedNext(local[q].v)
      /\ \A e \in localTrash : SavedNext(e[2].v)
  BY <1>1, InPlaceIsSaved
<1>6. \A q \in Paths : Overwrites(q)' => Overwrites(q)
  <2>1. \A q \in Paths : At(q)' = "checked" => At(q) = "checked"
    BY <1>1 DEF At, IInv, TypeOK
  <2> QED
    BY <1>1, <1>2, <2>1 DEF Overwrites
<1>7. p \in done' /\ plan[p].op = "upload" /\ plan[p].row # Nil => SafeNext(plan[p].row.v)
  <2>1. p \in done /\ plan[p].op = "upload" /\ plan[p].row # Nil => Safe(plan[p].row.v)
    BY <1>3 DEF LInv, PlanIsKept, Working, RowIsKept
  <2> QED
    BY <1>2, <1>4, <2>1 DEF Remains
<1> QED
  BY <1>1, <1>2, <1>3, <1>4, <1>5, <1>6, <1>7, OperationKeeps

LEMMA OperationsKeep ==
  ASSUME IInv, LInv, Calm, NEW p \in Paths, Op(p), Undisturbed \/ plan[p].op # "renameLocal"
  PROVE  LInv'
<1>1. RenameLocal(p) => Undisturbed
  BY DEF RenameLocal, Takes
<1> QED
  BY <1>1, RemoteOpKeeps, DeleteLocalKeeps, RenameLocalKeeps, ConflictAsideKeeps, FetchKeeps,
     InstallCheckKeeps, InstallRenameKeeps, ConflictUploadKeeps, OpFailsKeeps DEF Op
-----------------------------------------------------------------------------
(* The end of a run, and what the user and the other devices do, keep        *)
(* everything.                                                               *)

\* A run that ends takes its plan along.
LEMMA EndKeeps ==
  ASSUME LInv, pc' = "idle",
         UNCHANGED <<local, remote, localTrash, remoteTrash, base, clock, discarded>>
  PROVE  LInv'
<1>1. \A v : Safe(v)' <=> Safe(v)
  BY SafeFrame
<1>2. RowsAreSafe'
  BY <1>1 DEF LInv, RowsAreSafe
<1>3. ScanIsKept' /\ PlanIsKept'
  BY DEF ScanIsKept, PlanIsKept, Working
<1>4. AllSaved'
  BY SavedFrame DEF LInv
<1> QED
  BY <1>2, <1>3, <1>4 DEF LInv

\* Whoever moves files, while the run's own state stands.
LEMMA MoveKeeps ==
  ASSUME LInv, UNCHANGED <<base, excluded, pc, seen, blind, plan, todo, done, staged>>, Remains,
         \A q \in Paths : local'[q] # local[q] =>
            \/ pc = "idle"
            \/ ~Undisturbed /\ At(q) # "checked" /\ (local[q] = Nil \/ SafeNext(local[q].v)),
         \A q \in Paths : local[q] # Nil => SavedNext(local[q].v),
         \A e \in localTrash : SavedNext(e[2].v),
         \A v \in 1..clock' : v \in 1..clock \/ SavedNext(v)
  PROVE  LInv'
<1>1. RowsAreSafe'
  BY NextMeans DEF LInv, RowsAreSafe, Remains
<1>2. ScanIsKept'
  <2> SUFFICES ASSUME pc = "listing" PROVE ScanIsKept'
    BY DEF ScanIsKept
  <2>1. ASSUME NEW p \in Paths, seen[p] # Nil
        PROVE  SafeNext(seen[p].v) \/ (local'[p] # Nil /\ local'[p].v = seen[p].v)
    BY <2>1 DEF LInv, ScanIsKept, Holds, Remains
  <2>2. Undisturbed => \A p \in Paths : local'[p] = local[p]
    OBVIOUS
  <2>3. ASSUME Undisturbed, ~blind, seen # NoTree, NEW p \in Paths \ excluded
        PROVE  /\ seen[p] = Nil => local'[p] = Nil
               /\ seen[p] # Nil => local'[p] # Nil /\ local'[p].v = seen[p].v
    BY <2>2, <2>3 DEF LInv, ScanIsKept, Holds
  <2> QED
    BY <2>1, <2>3 DEF ScanIsKept, Holds, Safe, SafeNext
<1>3. ASSUME Working, NEW q \in Paths PROVE (RowIsKept(q) /\ TargetIsSafe(q) /\ SourceIsIdle(q))'
  <2>1. RowIsKept(q) /\ TargetIsSafe(q) /\ SourceIsIdle(q) /\ pc # "idle"
    BY <1>3 DEF LInv, PlanIsKept, Working
  <2>2. RowIsKept(q)'
    BY <2>1, NextMeans DEF RowIsKept, Holds, Remains
  <2>3. TargetIsSafe(q)'
    <3>1. Overwrites(q)' <=> Overwrites(q)
      BY DEF Overwrites, At
    <3>2. Overwrites(q) => Replaceable(q)'
      <4>1. Overwrites(q) => local'[q] = local[q]
        BY <2>1 DEF Overwrites
      <4>2. local'[q] = local[q] /\ Replaceable(q) => Replaceable(q)'
        BY NextMeans DEF Replaceable, Remains
      <4> QED
        BY <2>1, <4>1, <4>2 DEF TargetIsSafe
    <3>3. plan'[q].op = "download" /\ seen'[q] # Nil => SafeNext(seen'[q].v)
      BY <2>1 DEF TargetIsSafe, Remains
    <3> QED
      BY <3>1, <3>2, <3>3, NextMeans
  <2>4. SourceIsIdle(q)'
    BY <2>1 DEF SourceIsIdle
  <2> QED
    BY <2>2, <2>3, <2>4
<1>4. PlanIsKept'
  BY <1>3 DEF PlanIsKept, Working
<1>5. AllSaved'
  <2>1. ASSUME NEW v, Saved(v) PROVE SavedNext(v)
    <3>1. CASE Safe(v)
      BY <3>1 DEF Remains, SavedNext
    <3>2. CASE \E q \in Paths : Holds(q, v)
      BY <3>2 DEF Holds
    <3>3. CASE \E e \in localTrash : e[2].v = v
      BY <3>3
    <3> QED
      BY <2>1, <3>1, <3>2, <3>3 DEF Saved
  <2> QED
    BY <2>1, NextMeans DEF LInv, AllSaved
<1> QED
  BY <1>1, <1>2, <1>4, <1>5 DEF LInv

LEMMA NewFileIsFile ==
  ASSUME IInv, clock < MaxClock
  PROVE  /\ NewFile \in File /\ NewFile # Nil /\ NewFile.v = clock + 1
         /\ \A v \in 1..(clock + 1) : v \in 1..clock \/ v = clock + 1
<1>1. clock \in Nat
  BY DEF IInv, TypeOK
<1>2. NewFile \in File
  BY NewFileTyped
<1>3. Nil \notin File
  BY PairSyncAssumption
<1>4. NewFile.v = clock + 1
  BY DEF NewFile
<1>5. \A v \in 1..(clock + 1) : v \in 1..clock \/ v = clock + 1
  BY <1>1
<1> QED
  BY <1>2, <1>3, <1>4, <1>5

\* A calm user leaves the folder alone while a run is in flight, or does not rename,
\* restore or come between an install's check and its rename.
LEMMA LocalWhen ==
  ASSUME Calm, NEW kind, LocalFree(kind)
  PROVE  \/ pc = "idle"
         \/ /\ ~Undisturbed /\ StayInPlace /\ kind \notin {"localRename", "localRestore"}
            /\ \A q \in Paths : At(q) # "checked"
  BY DEF Calm, LocalFree, Undisturbed, StayInPlace

LEMMA LocalEditKeeps ==
  ASSUME IInv, LInv, Calm, NEW p \in Paths, LocalEdit(p) PROVE LInv'
<1>1. /\ LocalFree("localEdit") /\ clock < MaxClock /\ clock' = clock + 1
      /\ local' = [local EXCEPT ![p] = NewFile]
      /\ discarded' = discarded \cup Contents(local, p)
      /\ UNCHANGED <<remote, remoteTrash, localTrash>>
      /\ UNCHANGED <<base, excluded, pc, seen, blind, plan, todo, done, staged>>
  BY DEF LocalEdit, localMove, store, input, work
<1>2. NewFile # Nil /\ NewFile.v = clock + 1 /\ \A v \in 1..(clock + 1) : v \in 1..clock \/ v = clock + 1
  BY <1>1, NewFileIsFile
<1>3. local'[p] = NewFile /\ \A q \in Paths : q # p => local'[q] = local[q]
  BY <1>1, WorldTyped DEF Tree
<1>4. Remains
  BY <1>1, LocalIsSafe
<1>5. local[p] # Nil => SafeNext(local[p].v)
  BY <1>1 DEF Contents, SafeNext
<1>6. \A q \in Paths : local'[q] # local[q] =>
         \/ pc = "idle"
         \/ ~Undisturbed /\ At(q) # "checked" /\ (local[q] = Nil \/ SafeNext(local[q].v))
  BY <1>1, <1>3, <1>5, LocalWhen
<1>7. \A q \in Paths : local[q] # Nil => SavedNext(local[q].v)
  BY <1>3, <1>5 DEF SavedNext
<1>8. \A e \in localTrash : SavedNext(e[2].v)
  BY <1>1 DEF SavedNext
<1>9. SavedNext(clock + 1)
  BY <1>2, <1>3 DEF SavedNext
<1> QED
  BY <1>1, <1>2, <1>4, <1>6, <1>7, <1>8, <1>9, MoveKeeps

LEMMA LocalDeletesKeeps ==
  ASSUME IInv, LInv, Calm, NEW p \in Paths, LocalDeletes(p) PROVE LInv'
<1>1. /\ LocalFree("localDelete") /\ local[p] # Nil
      /\ local' = [local EXCEPT ![p] = Nil]
      /\ localTrash' = localTrash \cup Replaced(local, p)
      /\ UNCHANGED <<remote, remoteTrash, discarded, clock>>
      /\ UNCHANGED <<base, excluded, pc, seen, blind, plan, todo, done, staged>>
  BY DEF LocalDeletes, localMove, store, input, work
<1>2. \A q \in Paths : q # p => local'[q] = local[q]
  BY <1>1, WorldTyped DEF Tree
<1>3. Remains
  BY <1>1, LocalIsSafe
<1>4. <<p, local[p]>> \in localTrash' /\ <<p, local[p]>>[2].v = local[p].v
  BY <1>1 DEF Replaced
<1>5. StayInPlace => SafeNext(local[p].v)
  BY <1>4 DEF SafeNext
<1>6. \A q \in Paths : local'[q] # local[q] =>
         \/ pc = "idle"
         \/ ~Undisturbed /\ At(q) # "checked" /\ (local[q] = Nil \/ SafeNext(local[q].v))
  BY <1>1, <1>2, <1>5, LocalWhen
<1>7. \A q \in Paths : local[q] # Nil => SavedNext(local[q].v)
  BY <1>2, <1>4 DEF SavedNext
<1>8. \A e \in localTrash : SavedNext(e[2].v)
  BY <1>1 DEF SavedNext
<1> QED
  BY <1>1, <1>3, <1>6, <1>7, <1>8, MoveKeeps

LEMMA LocalRestoreKeeps ==
  ASSUME IInv, LInv, Calm, NEW p \in Paths, LocalRestore(p) PROVE LInv'
<1>1. PICK e \in localTrash : /\ local' = [local EXCEPT ![p] = e[2]]
                              /\ localTrash' = localTrash \ {e}
  BY DEF LocalRestore
<1>2. /\ LocalFree("localRestore") /\ local[p] = Nil
      /\ UNCHANGED <<remote, remoteTrash, discarded, clock>>
      /\ UNCHANGED <<base, excluded, pc, seen, blind, plan, todo, done, staged>>
  BY DEF LocalRestore, localMove, store, input, work
<1>3. pc = "idle" /\ ~StayInPlace
  BY <1>2, LocalWhen DEF StayInPlace, LocalFree
<1>4. /\ local'[p] = e[2] /\ e[2] # Nil
      /\ \A q \in Paths : q # p => local'[q] = local[q]
  <2>1. local \in Tree /\ localTrash \subseteq Paths \X File
    BY WorldTyped DEF IInv, TypeOK
  <2>2. e[2] \in File
    BY <2>1
  <2> QED
    BY <1>1, <2>1, <2>2, PairSyncAssumption DEF Tree
<1>5. Remains
  BY <1>2, <1>3 DEF Remains, Safe, SafeNext
<1>6. \A q \in Paths : local[q] # Nil => SavedNext(local[q].v)
  BY <1>2, <1>4 DEF SavedNext
<1>7. \A f \in localTrash : SavedNext(f[2].v)
  BY <1>1, <1>4 DEF SavedNext
<1> QED
  BY <1>2, <1>3, <1>5, <1>6, <1>7, MoveKeeps

LEMMA LocalRenameKeeps ==
  ASSUME IInv, LInv, Calm, NEW p \in Paths, NEW q \in Paths, LocalRename(p, q) PROVE LInv'
<1>1. /\ LocalFree("localRename") /\ local[p] # Nil /\ local[q] = Nil
      /\ local' = [local EXCEPT ![q] = local[p], ![p] = Nil]
      /\ UNCHANGED <<remote, remoteTrash, localTrash, discarded, clock>>
      /\ UNCHANGED <<base, excluded, pc, seen, blind, plan, todo, done, staged>>
  BY DEF LocalRename, localMove, store, input, work, history
<1>2. pc = "idle"
  BY <1>1, LocalWhen
<1>3. local'[q] = local[p] /\ \A x \in Paths : x # p /\ x # q => local'[x] = local[x]
  BY <1>1, WorldTyped DEF Tree
<1>4. Remains
  BY <1>1, LocalIsSafe
<1>5. \A x \in Paths : local[x] # Nil => SavedNext(local[x].v)
  BY <1>1, <1>3 DEF SavedNext
<1>6. \A e \in localTrash : SavedNext(e[2].v)
  BY <1>1 DEF SavedNext
<1> QED
  BY <1>1, <1>2, <1>4, <1>5, <1>6, MoveKeeps

LEMMA RemoteEditKeeps ==
  ASSUME IInv, LInv, NEW p \in Paths, RemoteEdit(p) PROVE LInv'
<1>1. /\ clock < MaxClock /\ clock' = clock + 1
      /\ remote' = [remote EXCEPT ![p] = NewFile]
      /\ discarded' = discarded \cup Contents(remote, p)
      /\ UNCHANGED <<local, remoteTrash, localTrash>>
      /\ UNCHANGED <<base, excluded, pc, seen, blind, plan, todo, done, staged>>
  BY DEF RemoteEdit, remoteMove, store, input, work
<1>2. NewFile # Nil /\ NewFile.v = clock + 1 /\ \A v \in 1..(clock + 1) : v \in 1..clock \/ v = clock + 1
  BY <1>1, NewFileIsFile
<1>3. remote'[p] = NewFile /\ \A q \in Paths : q # p => remote'[q] = remote[q]
  BY <1>1, WorldTyped DEF Tree
<1>4. Remains
  <2>1. \A q \in Paths : remote[q] # Nil => SafeNext(remote[q].v)
    BY <1>1, <1>3 DEF Contents, SafeNext
  <2>2. \A e \in remoteTrash : SafeNext(e[2].v)
    BY <1>1 DEF SafeNext
  <2> QED
    BY <1>1, <2>1, <2>2, SafeRemains
<1>5. SavedNext(clock + 1)
  BY <1>2, <1>3 DEF SavedNext, SafeNext
<1> QED
  BY <1>1, <1>2, <1>4, <1>5, InPlaceIsSaved, MoveKeeps

LEMMA RemoteDeletesKeeps ==
  ASSUME IInv, LInv, NEW p \in Paths, RemoteDeletes(p) PROVE LInv'
<1>1. /\ remote' = [remote EXCEPT ![p] = Nil]
      /\ remoteTrash' = remoteTrash \cup Replaced(remote, p)
      /\ UNCHANGED <<local, localTrash, discarded, clock>>
      /\ UNCHANGED <<base, excluded, pc, seen, blind, plan, todo, done, staged>>
  BY DEF RemoteDeletes, remoteMove, store, input, work
<1>2. Remains
  BY <1>1, WorldTyped, ReplacedIsSafe DEF Tree
<1> QED
  BY <1>1, <1>2, InPlaceIsSaved, MoveKeeps

LEMMA RemoteRestoreKeeps ==
  ASSUME IInv, LInv, NEW p \in Paths, RemoteRestore(p) PROVE LInv'
<1>1. PICK e \in remoteTrash : /\ remote' = [remote EXCEPT ![p] = e[2]]
                               /\ remoteTrash' = remoteTrash \ {e}
  BY DEF RemoteRestore
<1>2. /\ remote[p] = Nil
      /\ UNCHANGED <<local, localTrash, discarded, clock>>
      /\ UNCHANGED <<base, excluded, pc, seen, blind, plan, todo, done, staged>>
  BY DEF RemoteRestore, remoteMove, store, input, work
<1>3. /\ remote'[p] = e[2] /\ e[2] # Nil
      /\ \A q \in Paths : q # p => remote'[q] = remote[q]
  <2>1. remote \in Tree /\ remoteTrash \subseteq Paths \X File
    BY WorldTyped DEF IInv, TypeOK
  <2>2. e[2] \in File
    BY <2>1
  <2> QED
    BY <1>1, <2>1, <2>2, PairSyncAssumption DEF Tree
<1>4. Remains
  <2>1. \A q \in Paths : remote[q] # Nil => SafeNext(remote[q].v)
    BY <1>2, <1>3 DEF SafeNext
  <2>2. \A f \in remoteTrash : SafeNext(f[2].v)
    BY <1>1, <1>3 DEF SafeNext
  <2> QED
    BY <1>2, <2>1, <2>2, SafeRemains
<1> QED
  BY <1>2, <1>4, InPlaceIsSaved, MoveKeeps

LEMMA RemoteRenameKeeps ==
  ASSUME IInv, LInv, NEW p \in Paths, NEW q \in Paths, RemoteRename(p, q) PROVE LInv'
<1>1. /\ remote[p] # Nil /\ remote[q] = Nil
      /\ remote' = [remote EXCEPT ![q] = remote[p], ![p] = Nil]
      /\ UNCHANGED <<local, remoteTrash, localTrash, discarded, clock>>
      /\ UNCHANGED <<base, excluded, pc, seen, blind, plan, todo, done, staged>>
  BY DEF RemoteRename, remoteMove, store, input, work, history
<1>2. remote'[q] = remote[p] /\ \A x \in Paths : x # p /\ x # q => remote'[x] = remote[x]
  BY <1>1, WorldTyped DEF Tree
<1>3. Remains
  <2>1. \A x \in Paths : remote[x] # Nil => SafeNext(remote[x].v)
    BY <1>1, <1>2 DEF SafeNext
  <2>2. \A e \in remoteTrash : SafeNext(e[2].v)
    BY <1>1 DEF SafeNext
  <2> QED
    BY <1>1, <2>1, <2>2, SafeRemains
<1> QED
  BY <1>1, <1>3, InPlaceIsSaved, MoveKeeps

LEMMA StandsKeeps ==
  ASSUME LInv, UNCHANGED <<world, base, excluded, clock, pc, seen, blind, plan, todo, done, staged,
                           discarded>>
  PROVE  LInv'
<1>1. UNCHANGED <<local, remote, localTrash, remoteTrash>>
  BY DEF world
<1>2. Remains
  BY <1>1, LocalIsSafe
<1> QED
  BY <1>1, <1>2, InPlaceIsSaved, MoveKeeps

LEMMA EnvironmentKeeps ==
  ASSUME IInv, LInv, Calm, Environment PROVE LInv'
<1>1. CASE Cancel \/ Crash
  BY <1>1, StandsKeeps, EndKeeps DEF Cancel, Crash, Reset, world, store, input, work, history
<1>2. ASSUME NEW p \in Paths, BackoffElapses(p) PROVE LInv'
  BY <1>2, StandsKeeps DEF BackoffElapses, world, input, work, history
<1>3. ASSUME NEW p \in Paths, ToggleExclude(p) PROVE LInv'
  BY <1>3, EndKeeps DEF ToggleExclude, world, store, history
<1> QED
  BY <1>1, <1>2, <1>3, LocalEditKeeps, LocalDeletesKeeps, LocalRestoreKeeps, LocalRenameKeeps,
     RemoteEditKeeps, RemoteDeletesKeeps, RemoteRestoreKeeps, RemoteRenameKeeps DEF Environment

\* Renames replace what is at their destination: they are no danger to a folder nobody
\* touches, nor where there are none.
NoRenames == \A p \in Paths : plan[p].op \notin Renames

LEMMA StepKeeps ==
  ASSUME IInv, IInv', LInv, Calm, Undisturbed \/ NoRenames, [Next]_vars
  PROVE  LInv'
<1>1. CASE Begin
  BY <1>1, BeginKeeps
<1>2. CASE List
  <2>1. ListFails => LInv'
    BY EndKeeps DEF ListFails, Reset, world, store, history
  <2> QED
    BY <1>2, <2>1, ListMeans, PlanKeeps
<1>3. CASE Apply
  <2>1. CASE EnsureBase
    <3>1. /\ pc = "base" /\ pc' = "apply" /\ seen' = seen
          /\ UNCHANGED <<local, remote, localTrash, remoteTrash, base, clock, discarded, plan, todo,
                         done, staged>>
      BY <2>1 DEF EnsureBase, world, store, input, work, history
    <3>2. \A v : Safe(v)' <=> Safe(v)
      BY <3>1, SafeFrame
    <3>3. RowsAreSafe' /\ ScanIsKept' /\ AllSaved'
      BY <3>1, <3>2, SavedFrame DEF LInv, RowsAreSafe, ScanIsKept
    <3>4. PlanIsKept'
      BY <3>1, <3>2 DEF LInv, PlanIsKept, Working, RowIsKept, TargetIsSafe, SourceIsIdle, Overwrites,
                        At, Replaceable, Holds
    <3> QED
      BY <3>3, <3>4 DEF LInv
  <2>2. CASE EnsureBaseFails
    BY <2>2, EndKeeps DEF EnsureBaseFails, Reset, world, store, history
  <2> QED
    BY <1>3, <2>1, <2>2, OperationsKeep DEF Apply, NoRenames, Renames
<1>4. CASE Finish
  <2>1. CASE CommitFails
    <3>1. /\ pc = "apply" /\ pc' = "retry" /\ seen' = seen
          /\ UNCHANGED <<local, remote, localTrash, remoteTrash, base, clock, discarded, plan, todo,
                         done, staged>>
      BY <2>1 DEF CommitFails, world, store, input, work, history
    <3>2. \A v : Safe(v)' <=> Safe(v)
      BY <3>1, SafeFrame
    <3>3. RowsAreSafe' /\ ScanIsKept' /\ AllSaved'
      BY <3>1, <3>2, SavedFrame DEF LInv, RowsAreSafe, ScanIsKept
    <3>4. PlanIsKept'
      BY <3>1, <3>2 DEF LInv, PlanIsKept, Working, RowIsKept, TargetIsSafe, SourceIsIdle, Overwrites,
                        At, Replaceable, Holds
    <3> QED
      BY <3>3, <3>4 DEF LInv
  <2>2. SaveRetries => LInv'
    BY EndKeeps DEF SaveRetries, Reset, world, history
  <2> QED
    BY <1>4, <2>1, <2>2, CommitKeeps DEF Finish
<1>5. CASE UNCHANGED vars
  BY <1>5, StandsKeeps DEF vars, store, input, work, history
<1> QED
  BY <1>1, <1>2, <1>3, <1>4, <1>5, EnvironmentKeeps DEF Next, Engine

LEMMA InitKeeps == Init => LInv
<1> SUFFICES ASSUME Init PROVE LInv
  OBVIOUS
<1>1. /\ pc = "idle" /\ local = StartTree /\ remote = StartTree
      /\ base = [p \in Paths |-> IF Start[p] = Nil THEN Nil
                                ELSE AsEntry(StartFile(p), C.compare = "sha1")]
      /\ clock = Cardinality({p \in Paths : Start[p] # Nil})
  BY DEF Init
<1>2. ASSUME NEW p \in Paths, Start[p] # Nil
      PROVE  /\ local[p] # Nil /\ local[p].v = Start[p]
             /\ remote[p] # Nil /\ remote[p].v = Start[p]
  <2>1. local[p] = [v |-> Start[p], t |-> Start[p]] /\ remote[p] = local[p]
    BY <1>1, <1>2 DEF StartTree, StartFile
  <2>2. Start[p] \in Versions /\ Start[p] \in Nat
    BY <1>2, Constants
  <2>3. local[p] \in File /\ local[p].v = Start[p]
    BY <2>1, <2>2 DEF File
  <2> QED
    BY <2>1, <2>3, PairSyncAssumption
<1>3. RowsAreSafe
  <2> SUFFICES ASSUME NEW p \in Paths, base[p] # Nil PROVE Safe(base[p].v)
    BY DEF RowsAreSafe
  <2>1. Start[p] # Nil /\ base[p].v = Start[p]
    BY <1>1 DEF AsEntry, StartFile
  <2> QED
    BY <1>2, <2>1 DEF Safe
<1>4. ScanIsKept /\ PlanIsKept
  BY <1>1 DEF ScanIsKept, PlanIsKept, Working
<1>5. AllSaved
  <2> SUFFICES ASSUME NEW v \in 1..clock PROVE Saved(v)
    BY DEF AllSaved
  <2>1. v \in {Start[p] : p \in Paths} \ {Nil}
    BY <1>1, PairSyncAssumption
  <2>2. PICK p \in Paths : v = Start[p] /\ Start[p] # Nil
    BY <2>1
  <2> QED
    BY <1>2, <2>2 DEF Saved, Holds
<1> QED
  BY <1>3, <1>4, <1>5 DEF LInv
-----------------------------------------------------------------------------
(* Where everybody edits and deletes in place, no version is ever at two     *)
(* paths, so the run never takes two files for one that was renamed.         *)

\* What is at a path, here, there, in the scan or being downloaded.
AtPath(p, v) == \/ local[p] # Nil /\ local[p].v = v
                \/ remote[p] # Nil /\ remote[p].v = v
                \/ pc = "listing" /\ seen[p] # Nil /\ seen[p].v = v
                \/ staged[p] # Nil /\ staged[p].f.v = v

AtOnePath == \A p, q \in Paths : \A v : AtPath(p, v) /\ AtPath(q, v) => p = q
Written == \A p \in Paths : \A v : AtPath(p, v) => v \in 1..clock

\* A file's time is that of its writing, wherever it is copied.
TimesTell ==
    \A p \in Paths :
        /\ local[p] # Nil => local[p].t = local[p].v
        /\ remote[p] # Nil => remote[p].t = remote[p].v
        /\ staged[p] # Nil => staged[p].f.t = staged[p].f.v
        /\ pc = "listing" /\ seen[p] # Nil => seen[p].t = seen[p].v
        /\ plan[p].op \in {"download", "conflict"} => plan[p].row.t = plan[p].row.v

\* Nothing reaches the remote between the scan and the listing.
ScanIsFresh ==
    pc = "listing" => \A p \in Paths :
        seen[p] # Nil /\ local[p] # Nil /\ remote[p] # Nil /\ local[p].v = remote[p].v
            => local[p].v = seen[p].v

\* A conflict still to be resolved is over two versions.
ConflictsDiffer ==
    Working => \A p \in todo :
        plan[p].op = "conflict" /\ copyOf[p] = Nil /\ local[p] # Nil /\ remote[p] # Nil
            => local[p].v # remote[p].v

CopiesAreIdle == \A p \in Paths : copyOf[p] # Nil => plan[copyOf[p]].op = "none"

BInv == AtOnePath /\ Written /\ TimesTell /\ ScanIsFresh /\ ConflictsDiffer /\ CopiesAreIdle /\ NoRenames

\* The start's versions are all different: there are as many as paths.
LEMMA StartDiffers ==
  ASSUME NEW p \in Paths, NEW q \in Paths, Start[p] # Nil, Start[p] = Start[q] PROVE p = q
<1> DEFINE N == {x \in Paths : Start[x] # Nil}
           n == Cardinality(N)
           f == [x \in N |-> Start[x]]
<1>1. IsFiniteSet(N) /\ n \in Nat
  BY Constants, FS_Subset, FS_CardinalityType
<1>2. {Start[x] : x \in Paths} \ {Nil} = 1..n
  BY PairSyncAssumption
<1>3. f \in Surjection(N, 1..n)
  BY <1>2 DEF Surjection
<1>4. Cardinality(1..n) = n
  BY <1>1, FS_Interval
<1>5. f \in Injection(N, 1..n)
  <2> HIDE DEF f
  <2> QED
    BY <1>1, <1>3, <1>4, FS_Surjection
<1>6. \A a, b \in N : f[a] = f[b] => a = b
  <2> HIDE DEF f, N, n
  <2> QED
    BY <1>5 DEF Injection, IsInjective
<1>7. p \in N /\ q \in N /\ f[p] = Start[p] /\ f[q] = Start[q]
  OBVIOUS
<1> QED
  BY <1>6, <1>7

LEMMA InitIsApart == Init => BInv
<1> SUFFICES ASSUME Init PROVE BInv
  OBVIOUS
<1>1. /\ pc = "idle" /\ local = StartTree /\ remote = StartTree
      /\ staged = NoTree /\ copyOf = NoTree /\ plan = NoPlan
      /\ clock = Cardinality({p \in Paths : Start[p] # Nil})
  BY DEF Init
<1>2. \A p \in Paths : /\ local[p] # Nil => Start[p] # Nil /\ local[p].v = Start[p] /\ local[p].t = Start[p]
                       /\ remote[p] = local[p] /\ staged[p] = Nil /\ copyOf[p] = Nil
                       /\ plan[p].op = "none"
  BY <1>1 DEF StartTree, StartFile, NoTree, NoPlan, Idle
<1>3. AtOnePath
  BY <1>1, <1>2, StartDiffers DEF AtOnePath, AtPath
<1>4. Written
  <2>1. \A p \in Paths : Start[p] # Nil => Start[p] \in 1..clock
    BY <1>1, PairSyncAssumption
  <2> QED
    BY <1>1, <1>2, <2>1 DEF Written, AtPath
<1>5. TimesTell /\ ScanIsFresh /\ ConflictsDiffer /\ CopiesAreIdle /\ NoRenames
  BY <1>1, <1>2 DEF TimesTell, ScanIsFresh, ConflictsDiffer, Working, CopiesAreIdle, NoRenames, Renames
<1> QED
  BY <1>3, <1>4, <1>5 DEF BInv

\* What a step puts at a path was there, or is new.
LEMMA ApartStep ==
  ASSUME AtOnePath, Written, clock \in Nat, NEW p \in Paths,
         \/ clock' = clock /\ \A q \in Paths : \A v : AtPath(q, v)' => AtPath(q, v)
         \/ /\ clock' = clock + 1
            /\ \A q \in Paths : \A v : AtPath(q, v)' => AtPath(q, v) \/ (q = p /\ v = clock + 1)
  PROVE  AtOnePath' /\ Written'
<1>1. ~(clock + 1 \in 1..clock) /\ 1..clock \subseteq 1..(clock + 1) /\ clock + 1 \in 1..(clock + 1)
  OBVIOUS
<1> QED
  BY <1>1 DEF AtOnePath, Written

LEMMA ResetIsApart ==
  ASSUME IInv, BInv, Reset, UNCHANGED <<local, remote, clock>> PROVE BInv'
<1>1. /\ pc' = "idle" /\ \A p \in Paths : staged'[p] = Nil /\ copyOf'[p] = Nil /\ plan'[p].op = "none"
  BY DEF Reset, NoTree, NoPlan, Idle
<1>2. \A q \in Paths : \A v : AtPath(q, v)' => AtPath(q, v)
  BY <1>1 DEF AtPath
<1>3. AtOnePath' /\ Written'
  <2>1. clock \in Nat
    BY DEF IInv, TypeOK
  <2> QED
    BY <1>2, <2>1, ApartStep DEF BInv, AtOnePath, Written
<1>4. TimesTell' /\ ScanIsFresh' /\ ConflictsDiffer' /\ CopiesAreIdle' /\ NoRenames'
  BY <1>1 DEF BInv, TimesTell, ScanIsFresh, ConflictsDiffer, Working, CopiesAreIdle, NoRenames, Renames
<1> QED
  BY <1>3, <1>4 DEF BInv

LEMMA BeginIsApart ==
  ASSUME IInv, BInv, Calm, Begin PROVE BInv'
<1>1. PICK m \in Modes, isBlind \in BOOLEAN : \E miss : Scan(m, miss, {}, isBlind)
  BY BeginMeans DEF Calm
<1>2. PICK miss : Scan(m, miss, {}, isBlind)
  BY <1>1
<1>3. /\ pc' = "listing"
      /\ UNCHANGED <<local, remote, clock, plan, todo, copyOf, staged>>
  BY <1>2 DEF Scan, world, work
<1>4. \A p \in Paths : seen'[p] # Nil => local[p] # Nil /\ seen'[p].v = local[p].v /\ seen'[p].t = local[p].t
  BY <1>2, ScanTells DEF Calm
<1>5. \A q \in Paths : \A v : AtPath(q, v)' => AtPath(q, v)
  BY <1>3, <1>4 DEF AtPath
<1>6. AtOnePath' /\ Written'
  BY <1>3, <1>5 DEF BInv, AtOnePath, Written
<1>7. TimesTell' /\ ScanIsFresh' /\ ConflictsDiffer' /\ CopiesAreIdle' /\ NoRenames'
  BY <1>3, <1>4 DEF BInv, TimesTell, ScanIsFresh, ConflictsDiffer, Working, CopiesAreIdle, NoRenames
<1> QED
  BY <1>6, <1>7 DEF BInv

\* What the verdicts mean where no version is at two paths.
LEMMA VerdictApart ==
  ASSUME IInv, BInv, Calm, pc = "listing", NEW miss, NEW noRoot, NEW p \in Paths
  PROVE  LET V == Verdicts(Listed(miss, noRoot))[p] IN
         /\ V.op \in {"download", "conflict"} =>
               /\ V.row = Listed(miss, noRoot)[p] /\ V.row # Nil
               /\ remote[p] # Nil /\ V.row.v = remote[p].v /\ V.row.t = remote[p].t
         /\ V.op = "conflict" => seen[p] # Nil /\ seen[p].v # remote[p].v
         /\ V.op = "upload" => seen[p] # Nil
         /\ V.op = "deleteRemote" => remote[p] # Nil /\ Known[p] # Nil /\ remote[p].v = Known[p].v
         /\ V.op = "deleteLocal" => seen[p] # Nil /\ Known[p] # Nil /\ seen[p].v = Known[p].v
<1> DEFINE rv == Listed(miss, noRoot)
           V == Verdicts(rv)[p]
<1>1. seen[p] \in Slots /\ rv[p] \in Slots /\ Known[p] \in Slots
  BY KnownTyped, ScannedRemoteTyped DEF IInv, TypeOK, Rows, Slots, Listed
<1>2. rv[p] # Nil => remote[p] # Nil /\ rv[p].v = remote[p].v /\ rv[p].t = remote[p].t
  BY DEF Listed, ScannedRemote, AsEntry
<1> HIDE DEF rv
<1>3. CASE p \in excluded
  BY <1>3 DEF Verdicts, Verdict
<1>4. CASE p \notin excluded
  <2> DEFINE lc == Classify(seen[p], Known[p], C.compare)
             rc == Classify(rv[p], Known[p], C.compare)
             h == WithDigest(seen[p], rv[p], lc, rc)
  <2>1. V = Judge(seen[p], rv[p], Known[p], C)
    BY <1>4 DEF Verdicts
  <2> HIDE DEF V, lc, rc
  <2>0. SizesTell /\ C.conflict # "newer"
    BY DEF Calm
  <2>2. /\ V.op = "upload" => seen[p] # Nil
        /\ V.op \in {"download", "conflict"} => rv[p] # Nil /\ V.row = rv[p]
        /\ V.op = "deleteLocal" => seen[p] # Nil /\ Known[p] # Nil /\ seen[p].v = Known[p].v
        /\ V.op = "deleteRemote" => rv[p] # Nil /\ Known[p] # Nil /\ rv[p].v = Known[p].v
    BY <1>1, <2>1, <2>0, JudgeKeeps
  <2>3. V.op = "conflict" => seen[p] # Nil /\ ~SameContent(h, rv[p], C.compare)
    BY <1>1, <2>1, <2>0, JudgeKeeps DEF lc, rc
  <2>4. ASSUME V.op = "conflict" PROVE seen[p].v # remote[p].v
    <3>1. h.v = seen[p].v /\ h.t = seen[p].t /\ h \in FileEntries /\ rv[p] \in FileEntries
      BY <1>1, <2>2, <2>3, <2>4, WithDigestKeeps DEF Slots
    <3>2. seen[p].t = seen[p].v /\ remote[p].t = remote[p].v
      BY <1>2, <2>2, <2>3, <2>4 DEF BInv, TimesTell
    <3> HIDE DEF h
    <3>3. h.v = rv[p].v /\ h.t = rv[p].t => SameContent(h, rv[p], C.compare)
      BY <3>1 DEF SameContent, FileEntries
    <3> QED
      BY <1>2, <2>2, <2>3, <2>4, <3>1, <3>2, <3>3
  <2> QED
    BY <1>2, <2>2, <2>3, <2>4 DEF V, rv
<1> QED
  BY <1>3, <1>4

LEMMA PlanIsApart ==
  ASSUME IInv, BInv, Calm, NEW miss, NEW noRoot, Plan(miss, noRoot) PROVE BInv'
<1> DEFINE rv == Listed(miss, noRoot)
           V  == Verdicts(rv)
<1>1. /\ pc = "listing" /\ pc' \in {"base", "apply"}
      /\ UNCHANGED <<local, remote, clock, seen, copyOf, staged>>
  BY DEF Plan, world, input
<1>2. \A p \in Paths : copyOf[p] = Nil
  BY <1>1 DEF IInv, NoWorkBeforePlan, NoTree
<1>3. \A q \in Paths : \A v : AtPath(q, v)' => AtPath(q, v)
  BY <1>1 DEF AtPath
<1>4. AtOnePath' /\ Written'
  BY <1>1, <1>3 DEF BInv, AtOnePath, Written
<1>5. ASSUME NEW a \in Paths, NEW b \in Paths PROVE <<a, b>> \notin RenamedHere(V, rv)
  <2> SUFFICES ASSUME V[a].op = "deleteRemote", V[b].op = "upload", RenameMatch(Known[a], seen[b])
               PROVE  FALSE
    BY DEF RenamedHere
  <2>1. /\ remote[a] # Nil /\ Known[a] # Nil /\ remote[a].v = Known[a].v
        /\ seen[b] # Nil
    BY <1>1, VerdictApart
  <2>2. Known[a] \in FileEntries /\ seen[b] \in FileEntries
    BY <2>1, KnownTyped DEF IInv, TypeOK, Rows
  <2>3. Known[a].v = seen[b].v
    BY <2>2 DEF RenameMatch, Calm, SizesTell, FileEntries
  <2>4. AtPath(a, remote[a].v) /\ AtPath(b, remote[a].v)
    BY <1>1, <2>1, <2>3 DEF AtPath
  <2>5. a = b
    BY <2>4 DEF BInv, AtOnePath
  <2> QED
    BY <2>5
<1>6. ASSUME NEW a \in Paths, NEW b \in Paths PROVE <<a, b>> \notin RenamedThere(V, rv)
  <2> SUFFICES ASSUME V[a].op = "deleteLocal", V[b].op = "download", RenameMatch(Known[a], rv[b])
               PROVE  FALSE
    BY DEF RenamedThere
  <2>1. /\ seen[a] # Nil /\ Known[a] # Nil /\ seen[a].v = Known[a].v
        /\ remote[b] # Nil /\ rv[b] # Nil /\ rv[b].v = remote[b].v
    BY <1>1, VerdictApart
  <2>2. Known[a] \in FileEntries /\ rv[b] \in FileEntries
    BY <2>1, KnownTyped, ScannedRemoteTyped DEF IInv, TypeOK, Rows, Listed
  <2>3. Known[a].v = rv[b].v
    BY <2>2 DEF RenameMatch, Calm, SizesTell, FileEntries
  <2>4. AtPath(a, seen[a].v) /\ AtPath(b, seen[a].v)
    BY <1>1, <2>1, <2>3 DEF AtPath
  <2>5. a = b
    BY <2>4 DEF BInv, AtOnePath
  <2> QED
    BY <2>5
<1>7. ASSUME NEW p \in Paths
      PROVE  \/ plan'[p] = Idle
             \/ plan'[p] = [op |-> V[p].op, row |-> V[p].row, from |-> Nil]
  <2>1. TypeOK
    BY DEF IInv
  <2> HIDE DEF V, rv
  <2>2. \/ plan'[p] = Idle
        \/ plan'[p] = [op |-> V[p].op, row |-> V[p].row, from |-> Nil]
        \/ /\ plan'[p].from \in Paths
           /\ \/ <<plan'[p].from, p>> \in RenamedHere(V, rv)
              \/ <<plan'[p].from, p>> \in RenamedThere(V, rv)
    BY <2>1, PlanMeans DEF V, rv
  <2> QED
    BY <1>5, <1>6, <2>2
<1> HIDE DEF V
<1>8. ASSUME NEW p \in Paths
      PROVE  /\ plan'[p].op \notin Renames
             /\ plan'[p].op \in {"download", "conflict"} =>
                   plan'[p].op = V[p].op /\ plan'[p].row = V[p].row
  <2>1. V[p].op \in VerdictOps
    BY VerdictsTyped, ScannedRemoteTyped DEF IInv, TypeOK, Listed, V
  <2>2. CASE plan'[p] = Idle
    BY <2>2 DEF Idle, Renames
  <2>3. CASE plan'[p] = [op |-> V[p].op, row |-> V[p].row, from |-> Nil]
    <3>1. plan'[p].op = V[p].op /\ plan'[p].row = V[p].row
      BY <2>3
    <3> QED
      BY <2>1, <3>1 DEF VerdictOps, Transfers, Deletes, Renames
  <2> QED
    BY <1>7, <2>2, <2>3
<1>9. NoRenames' /\ CopiesAreIdle' /\ ScanIsFresh'
  BY <1>1, <1>2, <1>8 DEF NoRenames, CopiesAreIdle, ScanIsFresh
<1>10. ASSUME NEW p \in Paths, plan'[p].op \in {"download", "conflict"}
       PROVE  plan'[p].row.t = plan'[p].row.v
  <2>1. remote[p] # Nil /\ V[p].row.v = remote[p].v /\ V[p].row.t = remote[p].t
    BY <1>1, <1>8, <1>10, VerdictApart DEF V
  <2> QED
    BY <1>8, <1>10, <2>1 DEF BInv, TimesTell
<1>11. TimesTell'
  BY <1>1, <1>10 DEF BInv, TimesTell
<1>12. ConflictsDiffer'
  <2> SUFFICES ASSUME NEW p \in Paths, plan'[p].op = "conflict", local[p] # Nil, remote[p] # Nil,
                      local[p].v = remote[p].v
               PROVE  FALSE
    <3>1. todo' \subseteq Paths
      BY DEF Plan
    <3> QED
      BY <1>1, <3>1 DEF ConflictsDiffer
  <2>1. seen[p] # Nil /\ seen[p].v # remote[p].v
    BY <1>1, <1>8, VerdictApart DEF V
  <2> QED
    BY <1>1, <2>1 DEF BInv, ScanIsFresh
<1> QED
  BY <1>4, <1>9, <1>11, <1>12 DEF BInv
-----------------------------------------------------------------------------
(* The operations, likewise.                                                 *)

\* An operation brings nothing to a path but what is there on the other side, and
\* touches no conflict still to be resolved but its own.
LEMMA CopyingIsApart ==
  ASSUME IInv, BInv, UNCHANGED steady, pc \in {"apply", "retry"},
         \A q \in Paths : /\ plan'[q].op = plan[q].op
                          /\ plan'[q].row = plan[q].row \/ plan[q].op = "none",
         \A q \in Paths : copyOf'[q] = Nil \/ copyOf'[q] = copyOf[q],
         \A q \in todo' : q \in todo /\ copyOf'[q] = copyOf[q],
         \A q \in Paths :
            plan[q].op = "conflict" /\ copyOf[q] = Nil =>
               /\ local'[q] # Nil => local'[q] = local[q]
               /\ remote'[q] # Nil => remote'[q] = remote[q],
         \A q \in Paths :
            /\ local'[q] # Nil => \/ local'[q] = local[q] \/ local'[q] = remote[q]
                                  \/ staged[q] # Nil /\ local'[q] = staged[q].f
            /\ remote'[q] # Nil => remote'[q] = remote[q] \/ remote'[q] = local[q]
            /\ staged'[q] # Nil => \/ staged[q] # Nil /\ staged'[q].f = staged[q].f
                                   \/ remote[q] # Nil /\ staged'[q].f = remote[q]
  PROVE  BInv'
<1>1. pc' = pc /\ UNCHANGED <<seen, clock>>
  BY DEF steady, input
<1>2. ASSUME NEW q \in Paths
      PROVE  /\ \A v : AtPath(q, v)' => AtPath(q, v)
             /\ local'[q] # Nil => local'[q].t = local'[q].v
             /\ remote'[q] # Nil => remote'[q].t = remote'[q].v
             /\ staged'[q] # Nil => staged'[q].f.t = staged'[q].f.v
  BY <1>1 DEF AtPath, BInv, TimesTell
<1>3. AtOnePath' /\ Written'
  BY <1>1, <1>2 DEF BInv, AtOnePath, Written
<1>4. TimesTell'
  BY <1>1, <1>2 DEF BInv, TimesTell
<1>5. ScanIsFresh' /\ NoRenames'
  BY <1>1 DEF ScanIsFresh, BInv, NoRenames
<1>6. ConflictsDiffer'
  <2>1. todo \subseteq Paths
    BY DEF IInv, TypeOK
  <2> QED
    BY <1>1, <2>1 DEF BInv, ConflictsDiffer, Working
<1>7. CopiesAreIdle'
  <2>1. \A q \in Paths : copyOf[q] # Nil => copyOf[q] \in Paths
    BY DEF IInv, TypeOK
  <2> QED
    BY <2>1 DEF BInv, CopiesAreIdle
<1> QED
  BY <1>3, <1>4, <1>5, <1>6, <1>7 DEF BInv

LEMMA PlainOpIsApart ==
  ASSUME IInv, BInv, NEW p \in Paths, Upload(p) \/ DeleteRemote(p) \/ DeleteLocal(p) PROVE BInv'
<1>1. /\ pc = "apply" /\ UNCHANGED <<plan, copyOf, staged, steady>>
      /\ plan[p].op \in {"upload", "deleteRemote", "deleteLocal"}
  BY DEF Upload, DeleteRemote, DeleteLocal, Takes
<1>2. todo' \subseteq todo
  BY OutcomeMeans DEF Upload, DeleteRemote, DeleteLocal
<1>3. \A q \in Paths : q # p => local'[q] = local[q] /\ remote'[q] = remote[q]
  BY WorldTyped DEF Tree, Upload, DeleteRemote, DeleteLocal
<1>4. /\ local'[p] # Nil => local'[p] = local[p]
      /\ remote'[p] # Nil => remote'[p] = remote[p] \/ remote'[p] = local[p]
  BY WorldTyped DEF Tree, Upload, DeleteRemote, DeleteLocal
<1> QED
  BY <1>1, <1>2, <1>3, <1>4, CopyingIsApart

LEMMA TransferIsApart ==
  ASSUME IInv, BInv, NEW p \in Paths, Fetch(p) \/ InstallRename(p) \/ OpFails(p) PROVE BInv'
<1>1. /\ UNCHANGED <<remote, plan, steady>>
      /\ staged \in [Paths -> Staged \cup {Nil}] /\ copyOf \in [Paths -> Paths \cup {Nil}]
  BY DEF Fetch, InstallRename, OpFails, IInv, TypeOK, world
<1>2. CASE Fetch(p)
  <2>1. /\ pc = "apply" /\ UNCHANGED <<local, todo, copyOf>> /\ remote[p] # Nil
        /\ staged' = [staged EXCEPT ![p] = [f |-> remote[p], at |-> "fetched"]]
    BY <1>2 DEF Fetch, MayFetch, world
  <2>2. staged'[p].f = remote[p] /\ \A q \in Paths : q # p => staged'[q] = staged[q]
    BY <1>1, <2>1
  <2> QED
    BY <1>1, <2>1, <2>2, CopyingIsApart
<1>3. CASE InstallRename(p)
  <2>1. /\ At(p) = "checked" /\ UNCHANGED copyOf /\ todo' \subseteq todo
        /\ local' = [local EXCEPT ![p] = staged[p].f]
    BY <1>3 DEF InstallRename, Succeeded
  <2>2. /\ pc \in {"apply", "retry"} /\ staged[p] # Nil /\ staged[p] \in Staged
        /\ plan[p].op = "download" \/ copyOf[p] # Nil
    BY <2>1, StagedMeans, InFlightWhen DEF IInv, StagedAreTransfers
  <2>3. local'[p] = staged[p].f /\ \A q \in Paths : q # p => local'[q] = local[q]
    BY <2>1, WorldTyped DEF Tree
  <2>4. /\ staged'[p] # Nil => staged'[p].f = staged[p].f
        /\ \A q \in Paths : q # p => staged'[q] = staged[q]
    <3>1. staged' = [staged EXCEPT ![p].at = "installed"] \/ staged' = [staged EXCEPT ![p] = Nil]
      BY <1>3 DEF InstallRename
    <3>2. [staged[p] EXCEPT !.at = "installed"].f = staged[p].f
      BY <2>2 DEF Staged
    <3>3. \A q \in Paths : q # p => staged'[q] = staged[q]
      BY <1>1, <3>1
    <3>4. staged'[p] = [staged[p] EXCEPT !.at = "installed"] \/ staged'[p] = Nil
      BY <1>1, <3>1
    <3> QED
      BY <3>2, <3>3, <3>4
  <2> QED
    BY <1>1, <2>1, <2>2, <2>3, <2>4, CopyingIsApart
<1>4. CASE OpFails(p)
  <2>1. /\ UNCHANGED local /\ todo' = todo \ {p}
        /\ staged' = [staged EXCEPT ![p] = Nil] /\ copyOf' = [copyOf EXCEPT ![p] = Nil]
    BY <1>4 DEF OpFails, Failed, world
  <2>2. pc \in {"apply", "retry"}
    BY <1>4, InFlightWhen DEF OpFails, Running, Takes, MayFetch, InFlight
  <2>3. /\ staged'[p] = Nil /\ copyOf'[p] = Nil
        /\ \A q \in Paths : q # p => staged'[q] = staged[q] /\ copyOf'[q] = copyOf[q]
    BY <1>1, <2>1
  <2>4. todo \subseteq Paths
    BY DEF IInv, TypeOK
  <2> QED
    BY <1>1, <2>1, <2>2, <2>3, <2>4, CopyingIsApart
<1> QED
  BY <1>2, <1>3, <1>4

\* No content is empty: the file that is installed has the time of its writing.
LEMMA InstallCheckIsApart ==
  ASSUME IInv, BInv, Calm, StayInPlace, NEW p \in Paths, InstallCheck(p) PROVE BInv'
<1>1. /\ At(p) = "fetched" /\ SizeMatches(p)
      /\ UNCHANGED <<local, remote, plan, todo, copyOf, steady>>
      /\ staged \in [Paths -> Staged \cup {Nil}]
  BY DEF InstallCheck, world, IInv, TypeOK
<1>2. /\ pc \in {"apply", "retry"} /\ plan[p].op \in {"download", "conflict"}
      /\ staged[p] # Nil /\ staged[p] \in Staged
  BY <1>1, StagedMeans, InFlightWhen
<1>3. plan[p].row \in FileEntries /\ plan[p].row.t = plan[p].row.v
  BY <1>2 DEF IInv, PlansAreComplete, Pending, Executed, LocalOps, Deletes, BInv, TimesTell
<1>4. staged[p].f \in File /\ staged[p].f.t = staged[p].f.v
  BY <1>2 DEF Staged, BInv, TimesTell
<1>5. plan[p].row.v = staged[p].f.v
  <2>1. Size[plan[p].row.v] > 0 /\ Size[plan[p].row.v] \in Nat
    BY <1>3, SizeAssumption DEF StayInPlace, FileEntries
  <2>2. Size[staged[p].f.v] = Size[plan[p].row.v]
    BY <1>1, <2>1 DEF SizeMatches
  <2> QED
    BY <1>3, <1>4, <2>2 DEF Calm, SizesTell, File, FileEntries
<1>6. PICK t \in {IF plan[p].row.t = NoTime THEN staged[p].f.t ELSE plan[p].row.t} :
         staged' = [staged EXCEPT ![p] = [f |-> [v |-> staged[p].f.v, t |-> t], at |-> "checked"]]
  BY DEF InstallCheck
<1>7. t = staged[p].f.t
  BY <1>3, <1>4, <1>5, <1>6
<1>8. [v |-> staged[p].f.v, t |-> t] = staged[p].f
  BY <1>4, <1>7 DEF File
<1>9. staged'[p] = [f |-> staged[p].f, at |-> "checked"]
  BY <1>1, <1>6, <1>8
<1>10. staged'[p].f = staged[p].f /\ \A q \in Paths : q # p => staged'[q] = staged[q]
  BY <1>1, <1>6, <1>9
<1> QED
  BY <1>1, <1>2, <1>10, CopyingIsApart

LEMMA ConflictUploadIsApart ==
  ASSUME IInv, BInv, NEW p \in Paths, ConflictUpload(p) PROVE BInv'
<1> DEFINE c == copyOf[p]
           row == [dir |-> FALSE, v |-> local[c].v, t |-> NoTime, h |-> FALSE]
<1>1. /\ At(p) = "installed"
      /\ remote' = [remote EXCEPT ![c] = local[c]]
      /\ staged' = [staged EXCEPT ![p] = Nil] /\ copyOf' = [copyOf EXCEPT ![p] = Nil]
      /\ plan' = [plan EXCEPT ![c].row = row] \/ plan' = plan
      /\ UNCHANGED <<local, steady>>
  BY DEF ConflictUpload
<1>2. /\ pc \in {"apply", "retry"} /\ c \in Paths /\ c # Nil
  BY <1>1, StagedMeans, InFlightWhen
<1>3. plan[c].op = "none"
  BY <1>2 DEF BInv, CopiesAreIdle
<1>4. todo' = todo \ {p}
  BY OutcomeMeans DEF ConflictUpload, Outcome
<1>5. /\ staged \in [Paths -> Staged \cup {Nil}] /\ copyOf \in [Paths -> Paths \cup {Nil}]
      /\ remote \in Tree /\ plan \in [Paths -> Planned] /\ plan[c] \in Planned /\ todo \subseteq Paths
  BY <1>2 DEF IInv, TypeOK
<1> HIDE DEF c, row
<1>6. \A q \in Paths : /\ plan'[q].op = plan[q].op
                       /\ plan'[q].row = plan[q].row \/ plan[q].op = "none"
  <2>1. CASE plan' = [plan EXCEPT ![c].row = row]
    <3>1. plan'[c] = [plan[c] EXCEPT !.row = row] /\ \A q \in Paths : q # c => plan'[q] = plan[q]
      BY <1>2, <1>5, <2>1
    <3>2. plan'[c].op = plan[c].op
      BY <1>5, <3>1 DEF Planned
    <3> QED
      BY <1>3, <3>1, <3>2
  <2> QED
    BY <1>1, <2>1
<1>7. /\ remote'[c] = local[c] /\ \A q \in Paths : q # c => remote'[q] = remote[q]
      /\ staged'[p] = Nil /\ \A q \in Paths : q # p => staged'[q] = staged[q]
      /\ copyOf'[p] = Nil /\ \A q \in Paths : q # p => copyOf'[q] = copyOf[q]
  BY <1>1, <1>2, <1>5 DEF Tree
<1> QED
  BY <1>1, <1>2, <1>3, <1>4, <1>5, <1>6, <1>7, CopyingIsApart

\* The local version of a conflict leaves its path for the copy's: the other is not the same.
LEMMA ConflictAsideIsApart ==
  ASSUME IInv, BInv, NEW p \in Paths, NEW c \in Paths, ConflictAside(p, c) PROVE BInv'
<1>1. /\ pc = "apply" /\ p \in todo /\ plan[p].op = "conflict" /\ plan[c] = Idle /\ InFlight = {}
      /\ local[c] = Nil /\ remote[c] = Nil
      /\ local' = [local EXCEPT ![c] = local[p], ![p] = Nil]
      /\ copyOf' = [copyOf EXCEPT ![p] = c]
      /\ UNCHANGED <<remote, plan, todo, staged, steady>>
  BY DEF ConflictAside, Takes, Rest
<1>2. plan[c].op = "none" /\ c # p /\ c # Nil
  BY <1>1, Constants DEF Idle
<1>3. /\ pc' = pc /\ UNCHANGED <<seen, clock>>
      /\ \A q \in Paths : staged[q] = Nil /\ copyOf[q] = Nil
  BY <1>1, NothingStaged DEF steady, input
<1>4. /\ local'[c] = local[p] /\ local'[p] = Nil
      /\ \A q \in Paths : q # p /\ q # c => local'[q] = local[q]
      /\ copyOf'[p] = c /\ \A q \in Paths : q # p => copyOf'[q] = Nil
  <2>1. local \in Tree /\ copyOf \in [Paths -> Paths \cup {Nil}]
    BY DEF IInv, TypeOK
  <2> QED
    BY <1>1, <1>2, <1>3, <2>1 DEF Tree
<1>5. local[p] # Nil /\ remote[p] # Nil => local[p].v # remote[p].v
  BY <1>1, <1>3 DEF BInv, ConflictsDiffer, Working
<1>6. /\ \A v : AtPath(c, v)' => local[p] # Nil /\ v = local[p].v
      /\ \A v : AtPath(p, v)' => remote[p] # Nil /\ v = remote[p].v
      /\ \A q \in Paths : q # c => \A v : AtPath(q, v)' => AtPath(q, v)
  BY <1>1, <1>3, <1>4 DEF AtPath
<1>7. \A v : AtPath(c, v)' => AtPath(p, v) /\ ~AtPath(p, v)'
  BY <1>5, <1>6 DEF AtPath
<1>8. AtOnePath'
  <2> SUFFICES ASSUME NEW a \in Paths, NEW b \in Paths, NEW v, AtPath(a, v)', AtPath(b, v)'
               PROVE  a = b
    BY DEF AtOnePath
  <2> QED
    BY <1>6, <1>7 DEF BInv, AtOnePath
<1>9. Written'
  BY <1>3, <1>6, <1>7 DEF BInv, Written
<1>10. TimesTell'
  <2>1. \A q \in Paths : local'[q] # Nil => local'[q].t = local'[q].v
    BY <1>4 DEF BInv, TimesTell
  <2>2. plan' = plan /\ remote' = remote /\ staged' = staged /\ pc' # "listing"
    BY <1>1, <1>3
  <2> QED
    BY <2>1, <2>2 DEF BInv, TimesTell
<1>11. ConflictsDiffer'
  <2> SUFFICES ASSUME NEW q \in todo, plan[q].op = "conflict", copyOf'[q] = Nil,
                      local'[q] # Nil, remote[q] # Nil
               PROVE  local'[q].v # remote[q].v
    BY <1>1 DEF ConflictsDiffer
  <2>1. q \in Paths /\ q # p /\ q # c
    BY <1>2, <1>4 DEF IInv, TypeOK
  <2>2. local'[q] = local[q] /\ copyOf[q] = Nil
    BY <1>3, <1>4, <2>1
  <2> QED
    BY <1>1, <2>2 DEF BInv, ConflictsDiffer, Working
<1>12. ScanIsFresh' /\ CopiesAreIdle' /\ NoRenames'
  BY <1>1, <1>2, <1>3, <1>4 DEF BInv, ScanIsFresh, CopiesAreIdle, NoRenames
<1> QED
  BY <1>8, <1>9, <1>10, <1>11, <1>12 DEF BInv

LEMMA OperationsAreApart ==
  ASSUME IInv, BInv, Calm, StayInPlace, NEW p \in Paths, Op(p) PROVE BInv'
<1>1. ~RenameRemote(p) /\ ~RenameLocal(p)
  BY DEF RenameRemote, RenameLocal, Takes, BInv, NoRenames, Renames
<1> QED
  BY <1>1, PlainOpIsApart, TransferIsApart, InstallCheckIsApart, ConflictUploadIsApart,
     ConflictAsideIsApart DEF Op

\* Moves write new versions, or take some away.
LEMMA MoveIsApart ==
  ASSUME IInv, BInv, StayInPlace, NEW p \in Paths,
         LocalEdit(p) \/ LocalDeletes(p) \/ RemoteEdit(p) \/ RemoteDeletes(p)
  PROVE  BInv'
<1>1. UNCHANGED <<pc, seen, plan, todo, copyOf, staged>>
  BY DEF LocalEdit, LocalDeletes, RemoteEdit, RemoteDeletes, localMove, remoteMove, input, work
<1>2. \A q \in Paths : q # p => local'[q] = local[q] /\ remote'[q] = remote[q]
  BY WorldTyped DEF Tree, LocalEdit, LocalDeletes, RemoteEdit, RemoteDeletes, localMove, remoteMove
<1>3. \/ /\ clock' = clock + 1 /\ clock < MaxClock
         /\ \/ local'[p] = NewFile /\ remote'[p] = remote[p]
            \/ remote'[p] = NewFile /\ local'[p] = local[p]
      \/ /\ clock' = clock
         /\ \/ local'[p] = Nil /\ remote'[p] = remote[p]
            \/ remote'[p] = Nil /\ local'[p] = local[p]
  BY WorldTyped DEF Tree, LocalEdit, LocalDeletes, RemoteEdit, RemoteDeletes, localMove, remoteMove
<1>4. clock \in Nat /\ ~(clock + 1 \in 1..clock)
  BY DEF IInv, TypeOK
<1>5. NewFile.v = clock + 1 /\ NewFile.t = clock + 1
  BY DEF NewFile
<1>6. \A v : AtPath(p, v) => v # clock + 1
  BY <1>4 DEF BInv, Written
<1>7. AtOnePath' /\ Written'
  <2>1. \A q \in Paths : \A v : AtPath(q, v)' => AtPath(q, v) \/
                                                (q = p /\ v = clock + 1 /\ clock' = clock + 1)
    BY <1>1, <1>2, <1>3, <1>5 DEF AtPath
  <2>2. clock' = clock \/ clock' = clock + 1
    BY <1>3
  <2>3. clock' = clock => clock' # clock + 1
    BY <1>4
  <2> QED
    BY <1>4, <2>1, <2>2, <2>3, ApartStep DEF BInv
<1>8. TimesTell'
  BY <1>1, <1>2, <1>3, <1>5 DEF BInv, TimesTell
<1>9. local'[p] # Nil /\ remote'[p] # Nil /\ local'[p].v = remote'[p].v => UNCHANGED <<local[p], remote[p]>>
  BY <1>3, <1>5, <1>6 DEF AtPath
<1>10. ScanIsFresh'
  BY <1>1, <1>2, <1>3, <1>5, <1>6 DEF BInv, ScanIsFresh, AtPath
<1>11. ConflictsDiffer'
  <2>1. todo \subseteq Paths
    BY DEF IInv, TypeOK
  <2> QED
    BY <1>1, <1>2, <1>3, <1>5, <1>6, <2>1 DEF BInv, ConflictsDiffer, Working, AtPath
<1>12. CopiesAreIdle' /\ NoRenames'
  BY <1>1 DEF BInv, CopiesAreIdle, NoRenames
<1> QED
  BY <1>7, <1>8, <1>10, <1>11, <1>12 DEF BInv

\* Steps that touch neither the files nor the plan.
LEMMA StandsApart ==
  ASSUME BInv, UNCHANGED <<local, remote, clock, seen, plan, todo, copyOf, staged>>,
         pc' = pc \/ (pc' # "listing" /\ Working)
  PROVE  BInv'
<1>1. AtOnePath' /\ Written'
  <2>1. \A q \in Paths : \A v : AtPath(q, v)' => AtPath(q, v)
    BY DEF AtPath
  <2> QED
    BY <2>1 DEF BInv, AtOnePath, Written
<1>2. TimesTell'
  BY DEF BInv, TimesTell
<1>3. ScanIsFresh' /\ ConflictsDiffer' /\ CopiesAreIdle' /\ NoRenames'
  BY DEF BInv, ScanIsFresh, ConflictsDiffer, Working, CopiesAreIdle, NoRenames
<1> QED
  BY <1>1, <1>2, <1>3 DEF BInv

LEMMA StepIsApart ==
  ASSUME IInv, BInv, Calm, StayInPlace, [Next]_vars PROVE BInv'
<1>1. CASE Begin
  BY <1>1, BeginIsApart
<1>2. CASE List
  BY <1>2, ListMeans, PlanIsApart, ResetIsApart DEF ListFails, world
<1>3. CASE Apply
  BY <1>3, OperationsAreApart, StandsApart, ResetIsApart
     DEF Apply, EnsureBase, EnsureBaseFails, Working, world, input, work
<1>4. CASE Finish
  BY <1>4, StandsApart, ResetIsApart DEF Finish, Commit, CommitFails, SaveRetries, Working, world, input, work
<1>5. CASE Environment
  <2>1. CASE Cancel \/ Crash
    BY <2>1, StandsApart, ResetIsApart DEF Cancel, Crash, world, input, work
  <2>2. ASSUME NEW p \in Paths, BackoffElapses(p) \/ ToggleExclude(p) PROVE BInv'
    BY <2>2, StandsApart DEF BackoffElapses, ToggleExclude, world, input, work
  <2>3. ASSUME NEW p \in Paths, NEW q \in Paths
        PROVE  ~LocalRestore(p) /\ ~RemoteRestore(p) /\ ~LocalRename(p, q) /\ ~RemoteRename(p, q)
    BY DEF StayInPlace, LocalRestore, RemoteRestore, LocalRename, RemoteRename, LocalFree, RemoteFree
  <2> QED
    BY <1>5, <2>1, <2>2, <2>3, MoveIsApart DEF Environment
<1>6. CASE UNCHANGED vars
  BY <1>6, StandsApart DEF vars, world, input, work
<1> QED
  BY <1>1, <1>2, <1>3, <1>4, <1>5, <1>6 DEF Next, Engine

-----------------------------------------------------------------------------

LEMMA SavedMeansThere ==
  ASSUME NEW v, Saved(v) PROVE v \in Live \cup Trashed \cup discarded
<1>1. ASSUME NEW p \in Paths, remote[p] # Nil PROVE remote[p].v \in Live
  BY <1>1 DEF Live, Contents
<1>2. ASSUME NEW p \in Paths, local[p] # Nil PROVE local[p].v \in Live
  BY <1>2 DEF Live, Contents
<1>3. \A e \in localTrash \cup remoteTrash : e[2].v \in Trashed
  BY DEF Trashed
<1> QED
  BY <1>1, <1>2, <1>3 DEF Saved, Safe, Holds

\* Whatever anybody wrote is still in one of the two trees or a trash, or its author
\* wrote over it (sync_pair_scoped, apply, Staging::install, resolve_conflict): for every
\* set of paths and of moves, whatever fails, with conflicts that keep both files, sizes
\* that tell contents apart and no row carried forward for a file that could not be read.
\* Either the user leaves the folder alone while a run is in flight, or edits and deletes
\* whenever no file is being put in its place, deletions going to the trash.
THEOREM NothingIsLost == ASSUME Calm PROVE Spec => []NothingLost
<1>1. ASSUME StayInPlace PROVE Spec => []BInv
  <2>1. IInv /\ BInv /\ [Next]_vars => BInv'
    BY <1>1, StepIsApart
  <2> QED
    BY <2>1, InitIsApart, Invariance, PTL DEF Spec
<1>2. Spec => [](Undisturbed \/ NoRenames)
  <2>1. CASE Undisturbed
    <3>1. Undisturbed \/ NoRenames
      BY <2>1
    <3> QED
      BY <3>1, PTL
  <2>2. CASE StayInPlace
    <3>1. BInv => Undisturbed \/ NoRenames
      BY DEF BInv
    <3> QED
      BY <1>1, <2>2, <3>1, PTL
  <2> QED
    BY <2>1, <2>2 DEF Calm
<1>3. IInv /\ IInv' /\ LInv /\ (Undisturbed \/ NoRenames) /\ [Next]_vars => LInv'
  BY StepKeeps
<1>4. Spec => []LInv
  BY <1>2, <1>3, InitKeeps, Invariance, PTL DEF Spec
<1>5. LInv => NothingLost
  BY SavedMeansThere DEF LInv, AllSaved, NothingLost
<1> QED
  BY <1>4, <1>5, PTL
-----------------------------------------------------------------------------
(***************************************************************************)
(* Nothing retires that nobody dismissed.  What a run takes out of both     *)
(* trees is a version its author replaced or somebody deleted: the argument *)
(* is that whatever is on record is at both sides or was given up, and that *)
(* the plan follows from that, as long as the trees stay as they were seen. *)
(***************************************************************************)

\* Contents are told apart: by their sizes, or by times and digests where no copies of
\* conflicts are made (the row of a copy has neither).
Told == SizesTell \/ (C.compare # "size" /\ CopyPaths = {})

\* Nobody moves anything while a run is in flight, nobody renames or restores, and scans see
\* what is there or say that they did not.
Quiet ==
    /\ MidRun = {}
    /\ Moves \cap {"localRename", "localRestore", "remoteRename", "remoteRestore"} = {}
    /\ Faults \cap {"carried", "emptyRoot", "unlisted", "rootMissing"} = {}
    /\ C.conflict # "newer"
    /\ Told

\* A version that somebody replaced or deleted.
GivenUp == discarded \cup dismissed

\* Somebody gave the version up, or it is still at its path on this side.
KeptHere(p, v)  == v \in GivenUp \/ (local[p] # Nil /\ local[p].v = v)
KeptThere(p, v) == v \in GivenUp \/ (remote[p] # Nil /\ remote[p].v = v)

\* What may be removed, or written over with version `v`.
Spare(f)   == f = Nil \/ f.v \in GivenUp
Free(f, v) == Spare(f) \/ f.v = v

\* An entry's time is that of its version's writing; only the row of a copy has none.
Stamped(e) == e.t = e.v \/ (SizesTell /\ e.t = NoTime)

StampsTell ==
    \A p \in Paths :
        /\ local[p] # Nil => local[p].t = local[p].v
        /\ remote[p] # Nil => remote[p].t = remote[p].v
        /\ staged[p] # Nil => staged[p].f.t = staged[p].f.v
        /\ base[p] # Nil => Stamped(base[p])
        /\ plan[p].row # Nil => Stamped(plan[p].row)
        /\ plan[p].op \in {"download", "renameLocal", "conflict"} => plan[p].row.t = plan[p].row.v

\* What is on record is at both sides, or was given up.
RowsAreKept ==
    \A p \in Paths : base[p] # Nil => KeptHere(p, base[p].v) /\ KeptThere(p, base[p].v)

\* Until the listing the folder is as it was scanned.
ScanStands ==
    pc = "listing" => \A p \in Paths :
        /\ seen[p] # Nil => /\ local[p] # Nil
                            /\ seen[p].v = local[p].v /\ seen[p].t = local[p].t
        /\ seen[p] = Nil /\ p \notin excluded /\ ~blind => local[p] = Nil

\* A row about to be committed is of what both sides hold, or was given up.
RowStands(p) ==
    plan[p].row # Nil /\ (plan[p].op \in Pending => p \in done)
        => KeptHere(p, plan[p].row.v) /\ KeptThere(p, plan[p].row.v)

\* An operation still to come finds what its verdict was about.
UploadStands(p) ==
    plan[p].op = "upload" =>
        /\ local[p] # Nil /\ local[p].v = plan[p].row.v
        /\ Free(remote[p], plan[p].row.v)
DownloadStands(p) ==
    plan[p].op = "download" =>
        /\ remote[p] # Nil /\ remote[p].v = plan[p].row.v
        /\ staged[p] # Nil => staged[p].f.v = plan[p].row.v
        /\ LocalMatches(p) \/ At(p) = "checked" => Free(local[p], plan[p].row.v)
DeletionStands(p) ==
    /\ plan[p].op = "deleteRemote" => Spare(remote[p])
    /\ plan[p].op = "deleteLocal" => Spare(local[p])
RenameStands(p) ==
    LET from == plan[p].from IN
    plan[p].op \in Renames =>
        /\ from \in Paths /\ plan[from].op = "none" /\ base[from] # Nil
        /\ Spare(local[from]) /\ Spare(remote[from])
        /\ plan[p].op = "renameRemote" =>
              /\ remote[from] # Nil => remote[from].v = plan[p].row.v
              /\ local[p] # Nil /\ local[p].v = plan[p].row.v
              /\ Free(remote[p], plan[p].row.v)
        /\ plan[p].op = "renameLocal" =>
              /\ local[from] # Nil => local[from].v = plan[p].row.v
              /\ remote[p] # Nil /\ remote[p].v = plan[p].row.v
              /\ Free(local[p], plan[p].row.v)
ConflictStands(p) ==
    plan[p].op = "conflict" =>
        /\ remote[p] # Nil /\ remote[p].v = plan[p].row.v
        /\ base[p] # Nil => base[p].v \in GivenUp
        /\ staged[p] # Nil => staged[p].f.v = plan[p].row.v
        /\ At(p) = "checked" => local[p] = Nil
        /\ At(p) = "installed" => local[p] # Nil /\ local[p].v = plan[p].row.v
        /\ copyOf[p] # Nil => /\ copyOf[p] \in CopyPaths /\ plan[copyOf[p]].op = "none"
                              /\ remote[copyOf[p]] = Nil /\ base[copyOf[p]] = Nil

Stands(p) == UploadStands(p) /\ DownloadStands(p) /\ DeletionStands(p) /\ RenameStands(p) /\ ConflictStands(p)

WorkStands ==
    /\ Working => \A p \in Paths : RowStands(p)
    /\ InRun => \A p \in todo : Stands(p)

\* What is in flight is still to be done, one conflict at a time; what is done is not.
FlightIsTodo ==
    /\ todo \cap done = {}
    /\ \A p \in Paths : staged[p] # Nil \/ copyOf[p] # Nil => p \in todo /\ pc = "apply"
    /\ \A p, q \in Paths : copyOf[p] # Nil /\ copyOf[q] # Nil => p = q

QInv == StampsTell /\ RowsAreKept /\ ScanStands /\ WorkStands /\ FlightIsTodo

\* The entries of a quiet run, whose contents the comparison tells apart.
Stamps == {e \in FileEntries : Stamped(e)}

LEMMA StampsCompare ==
  ASSUME Told
  PROVE  /\ Stamps \subseteq FileEntries
         /\ \A x \in Stamps : [x EXCEPT !.h = TRUE] \in Stamps
         /\ \A x, y \in Stamps : SameContent(x, y, C.compare) => x.v = y.v
         /\ \A x, y \in Stamps : x.v = y.v => SameContent(x, y, C.compare)
         /\ \A x, y \in Stamps : RenameMatch(x, y) => x.v = y.v
<1>1. Stamps \subseteq FileEntries /\ C \in Settings
  BY Constants DEF Stamps
<1>2. ASSUME NEW x \in Stamps PROVE [x EXCEPT !.h = TRUE] \in Stamps
  BY DEF Stamps, FileEntries, Stamped
<1>3. \A x \in Stamps : x.v # NoTime /\ x.dir = FALSE
  <2>1. \A v \in Versions : v # 0
    BY Constants
  <2> QED
    BY <2>1 DEF Stamps, FileEntries, NoTime
<1>4. ASSUME NEW x \in Stamps, NEW y \in Stamps, SameContent(x, y, C.compare) PROVE x.v = y.v
  <2>1. CASE SizesTell
    BY <1>1, <1>4, <2>1, SameMeansEqual
  <2>2. CASE ~SizesTell
    <3>1. x.t = x.v /\ y.t = y.v /\ C.compare # "size"
      BY <2>2 DEF Told, Stamps, Stamped
    <3> QED
      BY <1>3, <1>4, <3>1 DEF SameContent
  <2> QED
    BY <2>1, <2>2
<1>5. ASSUME NEW x \in Stamps, NEW y \in Stamps, x.v = y.v PROVE SameContent(x, y, C.compare)
  <2>1. (x.t = x.v \/ x.t = NoTime) /\ (y.t = y.v \/ y.t = NoTime)
    BY DEF Stamps, Stamped
  <2> QED
    BY <1>3, <1>5, <2>1 DEF SameContent
<1>6. ASSUME NEW x \in Stamps, NEW y \in Stamps, RenameMatch(x, y) PROVE x.v = y.v
  <2>1. CASE SizesTell
    BY <1>1, <1>6, <2>1 DEF RenameMatch, SizesTell, FileEntries
  <2>2. CASE ~SizesTell
    <3>1. x.t = x.v /\ y.t = y.v
      BY <2>2 DEF Stamps, Stamped
    <3> QED
      BY <1>6, <3>1 DEF RenameMatch
  <2> QED
    BY <2>1, <2>2
<1> QED
  BY <1>1, <1>2, <1>4, <1>5, <1>6

\* Digests carried over from the other side keep an entry among them.
LEMMA DigestTells ==
  ASSUME Told, NEW l \in Stamps \cup {Nil}, NEW r, NEW lc, NEW rc
  PROVE  /\ WithDigest(l, r, lc, rc) = Nil <=> l = Nil
         /\ WithDigest(l, r, lc, rc) \in Stamps \cup {Nil}
         /\ l # Nil => /\ WithDigest(l, r, lc, rc).v = l.v
                       /\ WithDigest(l, r, lc, rc).t = l.t
<1>0. Stamps \subseteq FileEntries /\ \A x \in Stamps : [x EXCEPT !.h = TRUE] \in Stamps
  BY StampsCompare
<1>1. Nil \notin FileEntries
  BY NilAssumption DEF FileEntries, Entries
<1>2. l \in Slots
  BY <1>0 DEF Slots
<1>3. WithDigest(l, r, lc, rc) \in Stamps \cup {Nil}
  BY <1>0, <1>1 DEF WithDigest
<1> QED
  BY <1>2, <1>3, WithDigestKeeps

\* What a verdict says of the versions at hand.
VerdictMeans(V, l, r, b) ==
    /\ V.row \in Stamps \cup {Nil}
    /\ V.op = "upload" => /\ l # Nil /\ V.row # Nil /\ V.row.v = l.v
                          /\ r = Nil \/ (b # Nil /\ r.v = b.v)
    /\ V.op \in {"download", "conflict"} => r # Nil /\ V.row = r
    /\ V.op = "download" => l = Nil \/ (b # Nil /\ l.v = b.v)
    /\ V.op = "deleteLocal" => l # Nil /\ r = Nil /\ b # Nil /\ l.v = b.v /\ V.row = Nil
    /\ V.op = "deleteRemote" => l = Nil /\ r # Nil /\ b # Nil /\ r.v = b.v /\ V.row = Nil
    /\ V.op = "conflict" => l # Nil /\ l.v # r.v
    /\ V.op \notin Transfers /\ V.row # Nil =>
          \/ l # Nil /\ r # Nil /\ V.row.v = l.v /\ r.v = l.v
          \/ b # Nil /\ V.row.v = b.v

LEMMA JudgeTells ==
  ASSUME Told, C.conflict # "newer",
         NEW l \in Stamps \cup {Nil}, NEW r \in Stamps \cup {Nil}, NEW b \in Stamps \cup {Nil}
  PROVE  VerdictMeans(Judge(l, r, b, C), l, r, b)
<1> DEFINE lc == Classify(l, b, C.compare)
           rc == Classify(r, b, C.compare)
           h  == WithDigest(l, r, lc, rc)
           V  == Judge(l, r, b, C)
<1>0. /\ Stamps \subseteq FileEntries
      /\ \A x, y \in Stamps : SameContent(x, y, C.compare) <=> x.v = y.v
  BY StampsCompare
<1>1. V = Decide(lc, rc, h, r, b, C)
  BY DEF Judge
<1>2. /\ h = Nil <=> l = Nil
      /\ h \in Stamps \cup {Nil}
      /\ l # Nil => h.v = l.v
  BY DigestTells
<1>3. /\ lc \in {"absent", "created", "deleted", "unchanged", "modified"}
      /\ lc = "absent" <=> l = Nil /\ b = Nil
      /\ lc = "created" <=> l # Nil /\ b = Nil
      /\ lc = "deleted" <=> l = Nil /\ b # Nil
  BY ClassifyMeans
<1>4. /\ rc \in {"absent", "created", "deleted", "unchanged", "modified"}
      /\ rc = "absent" <=> r = Nil /\ b = Nil
      /\ rc = "created" <=> r # Nil /\ b = Nil
      /\ rc = "deleted" <=> r = Nil /\ b # Nil
  BY ClassifyMeans
<1>5. l \in Slots /\ r \in Slots /\ b \in Slots
  BY <1>0 DEF Slots
<1>6. lc = "unchanged" => l # Nil /\ b # Nil /\ l.v = b.v
  <2>1. lc = "unchanged" => SameContent(l, b, C.compare)
    BY <1>3 DEF Classify
  <2> QED
    BY <1>0, <1>3, <2>1
<1>7. rc = "unchanged" => r # Nil /\ b # Nil /\ r.v = b.v
  <2>1. rc = "unchanged" => SameContent(r, b, C.compare)
    BY <1>4 DEF Classify
  <2> QED
    BY <1>0, <1>4, <2>1
<1>8. ASSUME l # Nil, r # Nil, SameContent(h, r, C.compare) \/ SameDigest(h, r) PROVE h.v = r.v
  BY <1>0, <1>2, <1>8 DEF SameDigest
<1>9. ~IsDir(h, r, b) /\ ~TypeClash(h, r)
  BY <1>0, <1>2 DEF IsDir, Either, FileEntries, TypeClash
<1> SUFFICES VerdictMeans(V, l, r, b)
  OBVIOUS
<1> HIDE DEF lc, rc, h, V
<1>10. \/ V = Verdict("none", Either(h, r)) /\ lc = "unchanged" /\ rc = "unchanged"
       \/ V = DecideFile(lc, rc, h, r, C)
  BY <1>1, <1>9 DEF Decide
<1>11. CASE V = Verdict("none", Either(h, r)) /\ lc = "unchanged" /\ rc = "unchanged"
  BY <1>2, <1>6, <1>7, <1>11 DEF Verdict, Either, Transfers, VerdictMeans
<1>12. CASE lc \in Edited /\ rc \in Edited /\ V = BothEdited(h, r, C)
  <2>1. l # Nil /\ r # Nil
    BY <1>3, <1>4, <1>12 DEF Edited
  <2>2. \/ V = Verdict("none", h) /\ h.v = r.v
        \/ V = Verdict("skip", Nil)
        \/ V = Verdict("conflict", r) /\ h.v # r.v
    <3>1. h.v = r.v => SameContent(h, r, C.compare)
      BY <1>0, <1>2, <2>1
    <3> QED
      BY <1>8, <1>12, <2>1, <3>1 DEF BothEdited, EmitConflict
  <2> QED
    BY <1>2, <2>1, <2>2 DEF Verdict, Transfers, VerdictMeans
<1>13. CASE V = DecideFile(lc, rc, h, r, C) /\ ~(lc \in Edited /\ rc \in Edited)
  <2>1. \/ V = Verdict("upload", h) /\ lc \in Edited /\ rc \in {"unchanged", "absent", "deleted"}
        \/ V = Verdict("download", r) /\ rc \in Edited /\ lc \in {"unchanged", "absent", "deleted"}
        \/ V = Verdict("deleteRemote", Nil) /\ lc = "deleted" /\ rc = "unchanged"
        \/ V = Verdict("noop", r) /\ rc = "unchanged"
        \/ V = Verdict("deleteLocal", Nil) /\ lc = "unchanged" /\ rc = "deleted"
        \/ V = Verdict("noop", h) /\ lc = "unchanged"
        \/ V = Verdict("none", Nil)
        \/ V = Verdict("none", Either(h, r)) /\ lc \notin Edited /\ rc \notin Edited
    BY <1>3, <1>4, <1>13
       DEF DecideFile, Edited, EmitUpload, EmitDownload, EmitDeleteRemote, EmitDeleteLocal
  <2>2. lc \in Edited => l # Nil
    BY <1>3 DEF Edited
  <2>3. rc \in Edited => r # Nil
    BY <1>4 DEF Edited
  <2>4. lc \notin Edited => l = Nil \/ (b # Nil /\ l.v = b.v)
    BY <1>3, <1>6 DEF Edited
  <2>5. rc \notin Edited => r = Nil \/ (b # Nil /\ r.v = b.v)
    BY <1>4, <1>7 DEF Edited
  <2>6. CASE V = Verdict("none", Either(h, r)) /\ lc \notin Edited /\ rc \notin Edited
    BY <1>2, <2>4, <2>5, <2>6 DEF Verdict, Either, Transfers, VerdictMeans
  <2>7. CASE V = Verdict("upload", h) /\ lc \in Edited /\ rc \in {"unchanged", "absent", "deleted"}
    BY <1>2, <1>4, <1>7, <2>2, <2>7 DEF Verdict, Transfers, VerdictMeans
  <2>8. CASE V = Verdict("download", r) /\ rc \in Edited /\ lc \in {"unchanged", "absent", "deleted"}
    BY <1>3, <1>6, <2>3, <2>8 DEF Verdict, Transfers, VerdictMeans
  <2>9. CASE V = Verdict("deleteRemote", Nil) /\ lc = "deleted" /\ rc = "unchanged"
    BY <1>3, <1>7, <2>9 DEF Verdict, Transfers, VerdictMeans
  <2>10. CASE V = Verdict("deleteLocal", Nil) /\ lc = "unchanged" /\ rc = "deleted"
    BY <1>4, <1>6, <2>10 DEF Verdict, Transfers, VerdictMeans
  <2>11. CASE V = Verdict("noop", r) /\ rc = "unchanged"
    BY <1>7, <2>11 DEF Verdict, Transfers, VerdictMeans
  <2>12. CASE V = Verdict("noop", h) /\ lc = "unchanged"
    BY <1>2, <1>6, <2>12 DEF Verdict, Transfers, VerdictMeans
  <2>13. CASE V = Verdict("none", Nil)
    BY <2>13 DEF Verdict, Transfers, VerdictMeans
  <2> QED
    BY <2>1, <2>6, <2>7, <2>8, <2>9, <2>10, <2>11, <2>12, <2>13
<1>14. V = DecideFile(lc, rc, h, r, C) /\ lc \in Edited /\ rc \in Edited => V = BothEdited(h, r, C)
  BY DEF DecideFile, Edited
<1> QED
  BY <1>10, <1>11, <1>12, <1>13, <1>14
LEMMA InitIsQuiet == Init => QInv
<1> SUFFICES ASSUME Init PROVE QInv
  OBVIOUS
<1>1. /\ pc = "idle" /\ todo = {} /\ done = {} /\ local = StartTree /\ remote = StartTree
      /\ staged = NoTree /\ copyOf = NoTree /\ plan = NoPlan
      /\ base = [p \in Paths |-> IF Start[p] = Nil THEN Nil
                                 ELSE AsEntry(StartFile(p), C.compare = "sha1")]
  BY DEF Init
<1>2. \A p \in Paths : /\ local[p] = StartFile(p) /\ remote[p] = StartFile(p)
                       /\ staged[p] = Nil /\ copyOf[p] = Nil
                       /\ plan[p].op = "none" /\ plan[p].row = Nil
                       /\ base[p] # Nil => Start[p] # Nil /\ base[p] = AsEntry(StartFile(p), C.compare = "sha1")
  BY <1>1 DEF StartTree, NoTree, NoPlan, Idle
<1>3. \A p \in Paths : StartFile(p) # Nil =>
         Start[p] # Nil /\ StartFile(p).v = Start[p] /\ StartFile(p).t = Start[p]
  BY DEF StartFile
<1>4. \A p \in Paths : Start[p] # Nil => StartFile(p) # Nil /\ StartFile(p).v = Start[p] /\ StartFile(p).t = Start[p]
  <2>1. \A p \in Paths : Start[p] # Nil => StartFile(p) \in File
    BY Constants DEF StartFile, File
  <2>2. Nil \notin File
    BY PairSyncAssumption
  <2> QED
    BY <2>1, <2>2 DEF StartFile
<1>5. \A p \in Paths : base[p] # Nil => /\ base[p].v = Start[p] /\ base[p].t = Start[p]
                                        /\ local[p] # Nil /\ local[p].v = Start[p]
                                        /\ remote[p] # Nil /\ remote[p].v = Start[p]
  <2>1. \A f, h : AsEntry(f, h).v = f.v /\ AsEntry(f, h).t = f.t
    BY DEF AsEntry
  <2> QED
    BY <1>2, <1>4, <2>1
<1>6. StampsTell
  BY <1>2, <1>3, <1>5 DEF StampsTell, Stamped
<1>7. RowsAreKept
  BY <1>5 DEF RowsAreKept, KeptHere, KeptThere
<1>8. ScanStands /\ WorkStands /\ FlightIsTodo
  BY <1>1, <1>2 DEF ScanStands, WorkStands, Working, InRun, FlightIsTodo
<1> QED
  BY <1>6, <1>7, <1>8 DEF QInv

\* What a file may become without losing a version that nobody gave up.
Yields(f, g) == \/ g = f \/ f = Nil
                \/ f.v \in GivenUp'
                \/ g # Nil /\ g.v = f.v

\* Where every file yields, what is kept remains so, and nothing else retires.
LEMMA YieldingKeeps ==
  ASSUME GivenUp \subseteq GivenUp',
         \A q \in Paths : Yields(local[q], local'[q]) /\ Yields(remote[q], remote'[q])
  PROVE  /\ \A q \in Paths : \A v : /\ KeptHere(q, v) => KeptHere(q, v)'
                                    /\ KeptThere(q, v) => KeptThere(q, v)'
         /\ Retired \subseteq GivenUp'
<1>1. ASSUME NEW q \in Paths, NEW v
      PROVE  /\ KeptHere(q, v) => KeptHere(q, v)'
             /\ KeptThere(q, v) => KeptThere(q, v)'
  BY DEF KeptHere, KeptThere, Yields
<1>2. ASSUME NEW v \in Live, v \notin GivenUp' PROVE v \in Live'
  <2>1. PICK q \in Paths : v \in Contents(local, q) \cup Contents(remote, q)
    BY DEF Live
  <2>2. v \in Contents(local', q) \cup Contents(remote', q)
    BY <1>2, <2>1 DEF Contents, Yields
  <2>3. Live' = UNION {Contents(local', p) \cup Contents(remote', p) : p \in Paths}
    BY DEF Live, Contents
  <2> QED
    BY <2>2, <2>3
<1> QED
  BY <1>1, <1>2 DEF Retired

LEMMA ResetIsQuiet ==
  ASSUME QInv, Reset, UNCHANGED <<local, remote, base, discarded, dismissed>> PROVE QInv'
<1>1. pc' = "idle" /\ todo' = {} /\ done' = {} /\ \A p \in Paths : /\ staged'[p] = Nil /\ copyOf'[p] = Nil
                                       /\ plan'[p].op = "none" /\ plan'[p].row = Nil
  BY DEF Reset, NoTree, NoPlan, Idle
<1>2. StampsTell'
  BY <1>1 DEF QInv, StampsTell, Stamped
<1>3. RowsAreKept'
  BY DEF QInv, RowsAreKept, KeptHere, KeptThere, GivenUp
<1>4. ScanStands' /\ WorkStands' /\ FlightIsTodo'
  BY <1>1 DEF ScanStands, WorkStands, Working, InRun, FlightIsTodo
<1> QED
  BY <1>2, <1>3, <1>4 DEF QInv

\* Where only the place in the run, the retries or the excludes change.
LEMMA WaitingIsQuiet ==
  ASSUME QInv,
         UNCHANGED <<local, remote, base, discarded, dismissed, seen, blind, plan, todo, done,
                     copyOf, staged>>,
         \/ pc' = pc /\ (excluded' = excluded \/ pc # "listing")
         \/ pc = "base" /\ pc' = "apply"
         \/ pc = "apply" /\ pc' = "retry" /\ InFlight = {}
  PROVE  QInv'
<1>1. ASSUME NEW p \in Paths PROVE RowStands(p)' <=> RowStands(p)
  BY DEF RowStands, KeptHere, KeptThere, GivenUp
<1>2. ASSUME NEW p \in todo PROVE Stands(p)' <=> Stands(p)
  <2>1. UploadStands(p)' <=> UploadStands(p)
    BY DEF UploadStands, Free, Spare, GivenUp
  <2>2. DownloadStands(p)' <=> DownloadStands(p)
    BY DEF DownloadStands, Free, Spare, GivenUp, LocalMatches, Expected, At
  <2>3. DeletionStands(p)' <=> DeletionStands(p)
    BY DEF DeletionStands, Spare, GivenUp
  <2>4. RenameStands(p)' <=> RenameStands(p)
    BY DEF RenameStands, Free, Spare, GivenUp
  <2>5. ConflictStands(p)' <=> ConflictStands(p)
    BY DEF ConflictStands, GivenUp, At
  <2> QED
    BY <2>1, <2>2, <2>3, <2>4, <2>5 DEF Stands
<1>3. StampsTell'
  BY DEF QInv, StampsTell, Stamped
<1>4. RowsAreKept'
  BY DEF QInv, RowsAreKept, KeptHere, KeptThere, GivenUp
<1>5. ScanStands'
  BY DEF QInv, ScanStands
<1>6. WorkStands'
  BY <1>1, <1>2 DEF QInv, WorkStands, Working, InRun
<1>7. FlightIsTodo'
  BY NothingStaged DEF QInv, FlightIsTodo
<1> QED
  BY <1>3, <1>4, <1>5, <1>6, <1>7 DEF QInv

\* What a scan reports of a file, where times are those of versions.
LEMMA StampedEntry ==
  ASSUME NEW f \in File, f.t = f.v, NEW row \in Slots, row # Nil => Stamped(row)
  PROVE  /\ LocalEntry(f, row) # Nil /\ LocalEntry(f, row) \in FileEntries
         /\ LocalEntry(f, row).v = f.v
         /\ LocalEntry(f, row).t = f.t
<1>1. (C.compare = "sha1") \in BOOLEAN
  OBVIOUS
<1>2. CASE LocalEntry(f, row) = AsEntry(f, C.compare = "sha1")
  <2>1. LocalEntry(f, row) \in FileEntries /\ LocalEntry(f, row).v = f.v /\ LocalEntry(f, row).t = f.t
    BY <1>1, <1>2 DEF AsEntry, File, FileEntries
  <2> QED
    BY <2>1, FilesAreNotNil
<1>3. CASE LocalEntry(f, row) = row /\ row # Nil /\ row.t = f.t
  <2>1. f.v # NoTime
    BY Constants DEF File, NoTime
  <2> QED
    BY <1>3, <2>1, FilesAreNotNil DEF Slots, Stamped
<1> QED
  BY <1>2, <1>3 DEF LocalEntry

LEMMA BeginIsQuiet ==
  ASSUME IInv, QInv, Quiet, Begin PROVE QInv' /\ Retired \subseteq GivenUp'
<1>1. \E m \in Modes, isBlind \in BOOLEAN : \E miss :
         Scan(m, miss, {}, isBlind) /\ (miss = {} \/ isBlind)
  <2>1. PICK m \in Modes : ScanLocal(m) \/ ScanLocalBlind(m)
    BY DEF Quiet, Begin, ScanLocalCarried, ScanEmptyRoot, Fault
  <2>2. CASE ScanLocal(m)
    BY <2>2 DEF ScanLocal
  <2>3. CASE ScanLocalBlind(m)
    BY <2>3 DEF ScanLocalBlind
  <2> QED
    BY <2>1, <2>2, <2>3
<1>2. PICK m \in Modes, isBlind \in BOOLEAN : \E miss :
          Scan(m, miss, {}, isBlind) /\ (miss = {} \/ isBlind)
  BY <1>1
<1>3. PICK miss : Scan(m, miss, {}, isBlind) /\ (miss = {} \/ isBlind)
  BY <1>2
<1>4. /\ pc = "idle" /\ pc' = "listing" /\ blind' = isBlind
      /\ UNCHANGED <<local, remote, base, excluded, plan, todo, done, copyOf, staged,
                     discarded, dismissed>>
  BY <1>3 DEF Scan, world, store, work, history
<1> DEFINE rows == IF m = "resync" THEN NoTree ELSE base
<1>5. ASSUME NEW p \in Paths
      PROVE  /\ seen'[p] # Nil => /\ local[p] # Nil
                                  /\ seen'[p].v = local[p].v /\ seen'[p].t = local[p].t
             /\ seen'[p] = Nil /\ p \notin excluded /\ ~isBlind => local[p] = Nil
  <2>1. seen'[p] = IF p \in excluded \cup miss \/ local[p] = Nil THEN Nil
                   ELSE LocalEntry(local[p], rows[p])
    BY <1>3 DEF Scan, ScannedLocal
  <2>2. rows[p] \in Slots /\ (rows[p] # Nil => Stamped(rows[p]))
    BY DEF IInv, TypeOK, Rows, NoTree, Slots, QInv, StampsTell
  <2>3. local[p] # Nil => local[p] \in File /\ local[p].t = local[p].v
    BY WorldTyped DEF QInv, StampsTell
  <2> HIDE DEF rows
  <2>4. local[p] # Nil => /\ LocalEntry(local[p], rows[p]) # Nil
                          /\ LocalEntry(local[p], rows[p]).v = local[p].v
                          /\ LocalEntry(local[p], rows[p]).t = local[p].t
    BY <2>2, <2>3, StampedEntry
  <2> QED
    BY <1>3, <2>1, <2>4
<1>6. ScanStands'
  BY <1>4, <1>5 DEF ScanStands
<1>7. StampsTell'
  BY <1>4 DEF QInv, StampsTell, Stamped
<1>8. RowsAreKept'
  BY <1>4 DEF QInv, RowsAreKept, KeptHere, KeptThere, GivenUp
<1>9. WorkStands' /\ FlightIsTodo'
  BY <1>4 DEF QInv, WorkStands, Working, InRun, FlightIsTodo
<1>10. Retired \subseteq GivenUp'
  BY <1>4 DEF Retired, Live, Contents
<1> QED
  BY <1>6, <1>7, <1>8, <1>9, <1>10 DEF QInv

\* The user and the other devices change a file between two runs: what was there is given up.
LEMMA MoveIsQuiet ==
  ASSUME IInv, QInv, Quiet, NEW p \in Paths,
         \/ LocalEdit(p) \/ LocalDeletes(p) \/ LocalRestore(p)
         \/ RemoteEdit(p) \/ RemoteDeletes(p) \/ RemoteRestore(p)
  PROVE  QInv' /\ pc = "idle"
<1>1. ~LocalRestore(p) /\ ~RemoteRestore(p)
  BY DEF Quiet, LocalRestore, RemoteRestore, LocalFree, RemoteFree
<1>2. /\ pc = "idle"
      /\ UNCHANGED <<pc, base, plan, todo, done, copyOf, staged>>
  BY <1>1 DEF Quiet, LocalEdit, LocalDeletes, RemoteEdit, RemoteDeletes, LocalFree, RemoteFree,
              localMove, remoteMove, store, work, input
<1>3. /\ local \in [Paths -> File \cup {Nil}] /\ remote \in [Paths -> File \cup {Nil}]
      /\ \A q \in Paths \ {p} : local'[q] = local[q] /\ remote'[q] = remote[q]
  BY <1>1, WorldTyped DEF Tree, LocalEdit, LocalDeletes, RemoteEdit, RemoteDeletes, localMove, remoteMove
<1>4. /\ local'[p] \in {local[p], Nil, NewFile} /\ remote'[p] \in {remote[p], Nil, NewFile}
      /\ local[p] = local'[p] \/ local[p] = Nil \/ local[p].v \in GivenUp'
      /\ remote[p] = remote'[p] \/ remote[p] = Nil \/ remote[p].v \in GivenUp'
      /\ GivenUp \subseteq GivenUp'
  <2>1. CASE LocalEdit(p) \/ LocalDeletes(p)
    BY <1>3, <2>1 DEF LocalEdit, LocalDeletes, localMove, Contents, GivenUp
  <2>2. CASE RemoteEdit(p) \/ RemoteDeletes(p)
    BY <1>3, <2>2 DEF RemoteEdit, RemoteDeletes, remoteMove, Contents, GivenUp
  <2> QED
    BY <1>1, <2>1, <2>2
<1>5. \A q \in Paths : Yields(local[q], local'[q]) /\ Yields(remote[q], remote'[q])
  BY <1>3, <1>4 DEF Yields
<1>6. \A q \in Paths : \A v : /\ KeptHere(q, v) => KeptHere(q, v)'
                              /\ KeptThere(q, v) => KeptThere(q, v)'
  BY <1>4, <1>5, YieldingKeeps
<1>7. RowsAreKept'
  BY <1>2, <1>6 DEF QInv, RowsAreKept
<1>8. StampsTell'
  <2>1. NewFile.t = NewFile.v
    BY DEF NewFile
  <2> QED
    BY <1>2, <1>3, <1>4, <2>1 DEF QInv, StampsTell, Stamped
<1>9. ScanStands' /\ WorkStands' /\ FlightIsTodo'
  BY <1>2 DEF QInv, ScanStands, WorkStands, Working, InRun, FlightIsTodo
<1> QED
  BY <1>2, <1>7, <1>8, <1>9 DEF QInv

\* What the verdict of each path says of the files in place.
LEMMA VerdictStands ==
  ASSUME IInv, QInv, Quiet, pc = "listing", NEW p \in Paths
  PROVE  LET rv == Listed({}, FALSE)
             V  == Verdicts(rv)[p]
         IN  /\ V.row # Nil => Stamped(V.row)
             /\ V.op = "upload" =>
                   /\ local[p] # Nil /\ V.row # Nil /\ V.row.v = local[p].v
                   /\ seen[p] \in Stamps /\ seen[p].v = local[p].v
                   /\ Free(remote[p], V.row.v)
             /\ V.op \in {"download", "conflict"} =>
                   /\ rv[p] \in Stamps /\ V.row = rv[p] /\ V.row.t = V.row.v
                   /\ remote[p] # Nil /\ remote[p].v = V.row.v
             /\ V.op = "download" =>
                   /\ p \notin excluded
                   /\ seen[p] # Nil => Free(local[p], V.row.v)
             /\ V.op = "conflict" => (base[p] # Nil => base[p].v \in GivenUp)
             /\ V.op \in Deletes => V.row = Nil
             /\ V.op = "deleteRemote" =>
                   /\ p \notin excluded /\ seen[p] = Nil
                   /\ Known[p] \in Stamps /\ base[p] = Known[p]
                   /\ remote[p] # Nil /\ remote[p].v = base[p].v
             /\ V.op = "deleteLocal" =>
                   /\ Known[p] \in Stamps /\ base[p] = Known[p] /\ base[p].v \in GivenUp
                   /\ remote[p] = Nil /\ local[p] # Nil /\ local[p].v = base[p].v
             /\ V.op \notin Transfers /\ V.row # Nil =>
                   KeptHere(p, V.row.v) /\ KeptThere(p, V.row.v)
<1> DEFINE rv == Listed({}, FALSE)
           V == Verdicts(rv)[p]
<1>1. /\ seen[p] \in Stamps \cup {Nil}
      /\ seen[p] # Nil => local[p] # Nil /\ seen[p].v = local[p].v /\ seen[p].t = seen[p].v
  <2>1. seen[p] \in FileEntries \cup {Nil}
    BY DEF IInv, TypeOK, Rows
  <2>2. seen[p] # Nil => local[p] # Nil /\ seen[p].v = local[p].v /\ seen[p].t = seen[p].v
    BY DEF QInv, ScanStands, StampsTell
  <2> QED
    BY <2>1, <2>2 DEF Stamps, Stamped
<1>2. /\ Known[p] \in Stamps \cup {Nil}
      /\ Known[p] # Nil => Known[p] = base[p] /\ KeptHere(p, base[p].v) /\ KeptThere(p, base[p].v)
  <2>1. base[p] \in FileEntries \cup {Nil}
    BY DEF IInv, TypeOK, Rows
  <2>2. base[p] # Nil => Stamped(base[p]) /\ KeptHere(p, base[p].v) /\ KeptThere(p, base[p].v)
    BY DEF QInv, StampsTell, RowsAreKept
  <2>3. Known[p] = Nil \/ Known[p] = base[p]
    BY DEF Known, NoTree
  <2> QED
    BY <2>1, <2>2, <2>3 DEF Stamps
<1>3. CASE p \in excluded
  BY <1>3 DEF Verdicts, Verdict, Transfers, Deletes
<1>4. CASE p \notin excluded
  <2>1. V = Judge(seen[p], rv[p], Known[p], C)
    BY <1>4 DEF Verdicts
  <2>2. rv[p] = IF remote[p] = Nil THEN Nil ELSE AsEntry(remote[p], RemoteDigests)
    BY <1>4 DEF Listed, ScannedRemote
  <2>3. /\ rv[p] \in Stamps \cup {Nil}
        /\ rv[p] # Nil <=> remote[p] # Nil
        /\ rv[p] # Nil => rv[p].v = remote[p].v /\ rv[p].t = rv[p].v
    <3>1. \A f, h : AsEntry(f, h).v = f.v /\ AsEntry(f, h).t = f.t
      BY DEF AsEntry
    <3>2. remote[p] # Nil => remote[p] \in File /\ remote[p].t = remote[p].v
      BY WorldTyped DEF QInv, StampsTell
    <3>3. remote[p] # Nil => AsEntry(remote[p], RemoteDigests) \in FileEntries
      BY <3>2, Constants DEF AsEntry, File, FileEntries
    <3> HIDE DEF rv
    <3>4. CASE remote[p] = Nil
      BY <2>2, <3>4
    <3>5. CASE remote[p] # Nil
      <4> DEFINE e == AsEntry(remote[p], RemoteDigests)
      <4>1. rv[p] = e /\ e \in FileEntries /\ e.v = remote[p].v /\ e.t = e.v
        BY <2>2, <3>1, <3>2, <3>3, <3>5
      <4> HIDE DEF e
      <4>2. Stamped(e) /\ e # Nil
        BY <4>1, FilesAreNotNil DEF Stamped
      <4> QED
        BY <4>1, <4>2, <3>5 DEF Stamps
    <3> QED
      BY <3>4, <3>5
  <2> HIDE DEF V, rv
  <2>4. /\ Told /\ C.conflict # "newer"
        /\ seen[p] \in Stamps \cup {Nil} /\ rv[p] \in Stamps \cup {Nil} /\ Known[p] \in Stamps \cup {Nil}
    BY <1>1, <1>2, <2>3 DEF Quiet
  <2>5. VerdictMeans(V, seen[p], rv[p], Known[p])
    BY <2>1, <2>4, JudgeTells
  <2>6. V.row # Nil => Stamped(V.row)
    BY <2>5 DEF Stamps, VerdictMeans
  <2>7. V.op = "upload" => Free(remote[p], V.row.v)
    BY <1>1, <1>2, <2>3, <2>5 DEF Free, Spare, KeptHere, VerdictMeans
  <2>8. V.op = "download" => (seen[p] # Nil => Free(local[p], V.row.v))
    BY <1>1, <1>2, <2>3, <2>5 DEF Free, Spare, KeptThere, VerdictMeans
  <2>9. V.op = "conflict" => (base[p] # Nil => base[p].v \in GivenUp)
    <3>1. base[p] # Nil => KeptHere(p, base[p].v) /\ KeptThere(p, base[p].v)
      BY DEF QInv, RowsAreKept
    <3> QED
      BY <1>1, <2>3, <2>5, <3>1 DEF KeptHere, KeptThere, VerdictMeans
  <2>10. V.op = "deleteLocal" => base[p].v \in GivenUp
    BY <1>2, <2>3, <2>5 DEF KeptThere, VerdictMeans
  <2>11. V.op \notin Transfers /\ V.row # Nil => KeptHere(p, V.row.v) /\ KeptThere(p, V.row.v)
    BY <1>1, <1>2, <2>3, <2>5 DEF KeptHere, KeptThere, VerdictMeans
  <2> QED
    BY <1>1, <1>2, <1>4, <2>3, <2>5, <2>6, <2>7, <2>8, <2>9, <2>10, <2>11 DEF Deletes, V, rv, VerdictMeans
<1> QED
  BY <1>3, <1>4

\* A quiet run's plan comes from a listing that left nothing out.
LEMMA ListIsWhole ==
  ASSUME Quiet, List PROVE ListFails \/ Plan({}, FALSE)
  BY DEF Quiet, List, ListAndPlan, ListPartly, ListRootMissing, Fault

LEMMA PlanIsQuiet ==
  ASSUME IInv, IInv', QInv, Quiet, Plan({}, FALSE) PROVE QInv' /\ Retired \subseteq GivenUp'
<1> DEFINE rv == Listed({}, FALSE)
           V  == Verdicts(rv)
<1>1. /\ pc = "listing" /\ pc' \in {"base", "apply"}
      /\ UNCHANGED <<local, remote, base, seen, done, copyOf, staged, discarded, dismissed>>
  BY DEF Plan, world, store, input, history
<1>2. /\ done' = {}
      /\ \A p \in Paths : copyOf'[p] = Nil /\ staged'[p] = Nil /\ At(p)' = "none"
  BY <1>1 DEF IInv, NoWorkBeforePlan, NoTree, At
<1>3. todo' \subseteq Paths
  BY DEF IInv, TypeOK
<1>4. \A v : v \in GivenUp' <=> v \in GivenUp
  BY <1>1 DEF GivenUp
<1>5. \A p \in Paths : \A v : /\ KeptHere(p, v) => KeptHere(p, v)'
                              /\ KeptThere(p, v) => KeptThere(p, v)'
                              /\ Spare(local[p]) => Spare(local[p])'
                              /\ Spare(remote[p]) => Spare(remote[p])'
  BY <1>1, <1>4 DEF KeptHere, KeptThere, Spare, Free
<1>6. ASSUME NEW p \in Paths
      PROVE  /\ RowStands(p)' /\ Stands(p)'
             /\ plan'[p].row # Nil => Stamped(plan'[p].row)
             /\ plan'[p].op \in {"download", "renameLocal", "conflict"} =>
                   plan'[p].row.t = plan'[p].row.v
  <2> DEFINE W == plan'[p]
  <2>1. TypeOK
    BY DEF IInv
  <2>2. CASE W = Idle
    <3>1. W.op = "none" /\ W.row = Nil
      BY <2>2 DEF Idle
    <3> QED
      BY <3>1 DEF RowStands, Stands, UploadStands, DownloadStands, DeletionStands, RenameStands,
                  ConflictStands, Renames
  <2>3. CASE /\ W = [op |-> V[p].op, row |-> V[p].row, from |-> Nil]
             /\ V[p].op \in Deletes => FullView({}, FALSE)
    <3>1. W.op = V[p].op /\ W.row = V[p].row
      BY <2>3
    <3>2. V[p].op \in VerdictOps
      BY <2>1, VerdictsTyped, ScannedRemoteTyped DEF TypeOK, Listed
    <3>3. /\ V[p].row # Nil => Stamped(V[p].row)
          /\ V[p].op = "upload" =>
                /\ local[p] # Nil /\ V[p].row.v = local[p].v
                /\ Free(remote[p], V[p].row.v)
          /\ V[p].op \in {"download", "conflict"} =>
                /\ V[p].row.t = V[p].row.v /\ remote[p] # Nil /\ remote[p].v = V[p].row.v
          /\ V[p].op = "download" => (seen[p] # Nil => Free(local[p], V[p].row.v))
          /\ V[p].op = "conflict" => (base[p] # Nil => base[p].v \in GivenUp)
          /\ V[p].op \in Deletes => V[p].row = Nil
          /\ V[p].op \notin Transfers /\ V[p].row # Nil =>
                KeptHere(p, V[p].row.v) /\ KeptThere(p, V[p].row.v)
      BY <1>1, VerdictStands
    <3>4. V[p].op \in Deletes => Spare(local[p]) /\ Spare(remote[p])
      <4>1. V[p].op = "deleteLocal" => base[p].v \in GivenUp /\ remote[p] = Nil /\ local[p].v = base[p].v
        BY <1>1, VerdictStands
      <4>2. V[p].op = "deleteRemote" => /\ p \notin excluded /\ seen[p] = Nil /\ base[p] # Nil
                                        /\ remote[p].v = base[p].v
        BY <1>1, VerdictStands, FilesAreNotNil DEF Stamps
      <4>3. V[p].op = "deleteRemote" => local[p] = Nil
        BY <1>1, <2>3, <4>2 DEF Deletes, FullView, Incomplete, QInv, ScanStands
      <4>4. V[p].op = "deleteRemote" => base[p].v \in GivenUp
        BY <4>2, <4>3 DEF QInv, RowsAreKept, KeptHere
      <4> QED
        BY <4>1, <4>2, <4>3, <4>4 DEF Deletes, Spare
    <3> HIDE DEF V, rv, W
    <3>5. W.op \notin Renames
      BY <3>1, <3>2 DEF VerdictOps, Transfers, Deletes, Renames
    <3>6. RowStands(p)'
      <4>1. W.op \notin Pending /\ W.row # Nil => W.op \notin Transfers
        BY <3>1, <3>2, <3>3 DEF Pending, Executed, LocalOps, RemoteOps, Deletes, Transfers
      <4> QED
        BY <1>2, <1>5, <3>1, <3>3, <4>1 DEF RowStands, W
    <3>7. UploadStands(p)' /\ DeletionStands(p)' /\ RenameStands(p)'
      BY <1>1, <1>4, <3>1, <3>3, <3>4, <3>5
         DEF UploadStands, DeletionStands, RenameStands, Free, Spare, Deletes, W
    <3>8. DownloadStands(p)'
      <4>1. LocalMatches(p)' /\ W.op = "download" => (seen[p] = Nil => local[p] = Nil)
        BY <1>1 DEF LocalMatches, Expected, W
      <4> QED
        BY <1>1, <1>2, <1>4, <3>1, <3>3, <4>1 DEF DownloadStands, Free, Spare, W
    <3>9. ConflictStands(p)'
      BY <1>1, <1>2, <1>4, <3>1, <3>3 DEF ConflictStands, W
    <3> QED
      BY <3>1, <3>3, <3>5, <3>6, <3>7, <3>8, <3>9 DEF Stands, W, Renames
  <2>4. CASE /\ FullView({}, FALSE) /\ W.row = V[p].row
             /\ W.from \in Paths /\ plan'[W.from] = Idle
             /\ W.op = "renameRemote" /\ <<W.from, p>> \in RenamedHere(V, rv)
    <3>1. /\ V[W.from].op = "deleteRemote" /\ V[p].op = "upload"
          /\ RenameMatch(Known[W.from], seen[p])
      BY <2>4 DEF RenamedHere
    <3>2. /\ W.from \notin excluded /\ seen[W.from] = Nil
          /\ Known[W.from] \in Stamps /\ base[W.from] = Known[W.from]
          /\ remote[W.from] # Nil /\ remote[W.from].v = base[W.from].v
      BY <1>1, <2>4, <3>1, VerdictStands
    <3>3. base[W.from] # Nil
      BY <3>2, FilesAreNotNil DEF Stamps
    <3>4. local[W.from] = Nil
      BY <1>1, <2>4, <3>2 DEF FullView, Incomplete, QInv, ScanStands
    <3>5. base[W.from].v \in GivenUp
      BY <2>4, <3>3, <3>4 DEF QInv, RowsAreKept, KeptHere
    <3>6. /\ local[p] # Nil /\ W.row.v = local[p].v /\ Stamped(W.row)
          /\ seen[p] \in Stamps /\ seen[p].v = local[p].v
          /\ Free(remote[p], W.row.v)
      BY <1>1, <2>4, <3>1, VerdictStands
    <3>7. remote[W.from].v = W.row.v
      <4>1. Known[W.from].v = seen[p].v
        BY <3>1, <3>2, <3>6, StampsCompare DEF Quiet
      <4> QED
        BY <3>2, <3>6, <4>1
    <3>8. plan'[W.from].op = "none"
      BY <2>4 DEF Idle
    <3> HIDE DEF V, rv
    <3>9. RenameStands(p)'
      BY <1>1, <1>4, <2>4, <3>2, <3>3, <3>4, <3>5, <3>6, <3>7, <3>8 DEF RenameStands, Free, Spare
    <3>10. RowStands(p)'
      BY <1>2, <2>4 DEF RowStands, Pending, Executed, RemoteOps, Deletes
    <3>11. UploadStands(p)' /\ DownloadStands(p)' /\ DeletionStands(p)' /\ ConflictStands(p)'
      BY <2>4 DEF UploadStands, DownloadStands, DeletionStands, ConflictStands
    <3> QED
      BY <2>4, <3>6, <3>9, <3>10, <3>11 DEF Stands
  <2>5. CASE /\ FullView({}, FALSE) /\ W.row = V[p].row
             /\ W.from \in Paths /\ plan'[W.from] = Idle
             /\ W.op = "renameLocal" /\ <<W.from, p>> \in RenamedThere(V, rv)
    <3>1. /\ V[W.from].op = "deleteLocal" /\ V[p].op = "download"
          /\ RenameMatch(Known[W.from], rv[p])
      BY <2>5 DEF RenamedThere
    <3>2. /\ Known[W.from] \in Stamps /\ base[W.from] = Known[W.from] /\ base[W.from].v \in GivenUp
          /\ remote[W.from] = Nil /\ local[W.from].v = base[W.from].v
      BY <1>1, <2>5, <3>1, VerdictStands
    <3>3. base[W.from] # Nil
      BY <3>2, FilesAreNotNil DEF Stamps
    <3>4. /\ rv[p] \in Stamps /\ W.row = rv[p] /\ W.row.t = W.row.v /\ (W.row # Nil => Stamped(W.row))
          /\ remote[p] # Nil /\ remote[p].v = W.row.v
          /\ p \notin excluded /\ (seen[p] # Nil => Free(local[p], W.row.v))
      BY <1>1, <2>5, <3>1, VerdictStands
    <3>5. seen[p] = Nil => local[p] = Nil
      BY <1>1, <2>5, <3>4 DEF FullView, Incomplete, QInv, ScanStands
    <3>6. local[W.from].v = W.row.v
      <4>1. Known[W.from].v = rv[p].v
        BY <3>1, <3>2, <3>4, StampsCompare DEF Quiet
      <4> QED
        BY <3>2, <3>4, <4>1
    <3>7. plan'[W.from].op = "none"
      BY <2>5 DEF Idle
    <3> HIDE DEF V, rv
    <3>8. RenameStands(p)'
      BY <1>1, <1>4, <2>5, <3>2, <3>3, <3>4, <3>5, <3>6, <3>7 DEF RenameStands, Free, Spare
    <3>9. RowStands(p)'
      BY <1>2, <2>5 DEF RowStands, Pending, Executed, LocalOps, Deletes
    <3>10. UploadStands(p)' /\ DownloadStands(p)' /\ DeletionStands(p)' /\ ConflictStands(p)'
      BY <2>5 DEF UploadStands, DownloadStands, DeletionStands, ConflictStands
    <3> QED
      BY <2>5, <3>4, <3>8, <3>9, <3>10 DEF Stands
  <2>6. \/ W = Idle
        \/ /\ W = [op |-> V[p].op, row |-> V[p].row, from |-> Nil]
           /\ V[p].op \in Deletes => FullView({}, FALSE)
        \/ /\ FullView({}, FALSE) /\ W.row = V[p].row
           /\ W.from \in Paths /\ plan'[W.from] = Idle
           /\ \/ W.op = "renameRemote" /\ <<W.from, p>> \in RenamedHere(V, rv)
              \/ W.op = "renameLocal" /\ <<W.from, p>> \in RenamedThere(V, rv)
    BY <2>1, PlanMeans
  <2> HIDE DEF W, V, rv
  <2> QED
    BY <2>2, <2>3, <2>4, <2>5, <2>6
<1>7. StampsTell'
  <2>1. \A p \in Paths : base'[p] = base[p] /\ (base[p] # Nil => Stamped(base[p]))
    BY <1>1 DEF QInv, StampsTell
  <2> QED
    BY <1>1, <1>6, <2>1 DEF QInv, StampsTell, Stamped
<1>8. RowsAreKept'
  BY <1>1, <1>5 DEF QInv, RowsAreKept
<1>9. ScanStands' /\ WorkStands' /\ FlightIsTodo'
  BY <1>1, <1>2, <1>3, <1>6 DEF ScanStands, WorkStands, FlightIsTodo
<1>10. Retired \subseteq GivenUp'
  BY <1>1 DEF Retired, Live, Contents
<1> QED
  BY <1>7, <1>8, <1>9, <1>10 DEF QInv

\* An operation leaves what the others stand on: their files, and the places their files
\* come from or their copies went to, which no operation of their own concerns.
LEMMA OthersStand ==
  ASSUME IInv, QInv, pc = "apply", UNCHANGED steady,
         NEW p \in Paths, plan[p].op # "none" \/ UNCHANGED <<local, remote>>,
         \A r \in Paths : /\ plan'[r].op = plan[r].op
                          /\ plan[r].op # "none" => plan'[r] = plan[r],
         \A r \in Paths \ {p} :
            /\ plan[r].op # "none" => local'[r] = local[r] /\ remote'[r] = remote[r]
            /\ base[r] # Nil => /\ local'[r] = local[r] \/ local'[r] = Nil
                                /\ remote'[r] = remote[r] \/ remote'[r] = Nil
            /\ staged'[r] = staged[r] /\ copyOf'[r] = copyOf[r]
            /\ copyOf[r] # Nil => remote'[copyOf[r]] = remote[copyOf[r]]
  PROVE  \A q \in todo \ {p} : Stands(q)'
<1>1. UNCHANGED <<base, seen, discarded, dismissed>>
  BY DEF steady, store, input, history
<1>2. GivenUp' = GivenUp
  BY <1>1 DEF GivenUp
<1> SUFFICES ASSUME NEW q \in todo \ {p} PROVE Stands(q)'
  OBVIOUS
<1>3. q \in Paths /\ Stands(q)
  BY DEF IInv, TypeOK, QInv, WorkStands, InRun
<1>4. CASE plan[q].op = "none"
  <2>1. plan'[q].op = "none"
    BY <1>3, <1>4
  <2> QED
    BY <2>1 DEF Stands, UploadStands, DownloadStands, DeletionStands, RenameStands,
                ConflictStands, Renames
<1>5. CASE plan[q].op # "none"
  <2>1. /\ plan'[q] = plan[q] /\ local'[q] = local[q] /\ remote'[q] = remote[q]
        /\ staged'[q] = staged[q] /\ copyOf'[q] = copyOf[q] /\ base'[q] = base[q]
        /\ copyOf[q] # Nil => remote'[copyOf[q]] = remote[copyOf[q]]
    BY <1>1, <1>3, <1>5
  <2>2. UploadStands(q)' /\ DeletionStands(q)'
    BY <1>2, <1>3, <2>1 DEF Stands, UploadStands, DeletionStands, Free, Spare
  <2>3. DownloadStands(q)'
    <3>1. LocalMatches(q)' = LocalMatches(q) /\ At(q)' = At(q)
      BY <1>1, <2>1 DEF LocalMatches, Expected, At
    <3> QED
      BY <1>2, <1>3, <2>1, <3>1 DEF Stands, DownloadStands, Free, Spare
  <2>4. RenameStands(q)'
    <3> SUFFICES ASSUME plan[q].op \in Renames PROVE RenameStands(q)'
      BY <2>1 DEF RenameStands
    <3> DEFINE from == plan[q].from
    <3>1. /\ from \in Paths /\ plan[from].op = "none" /\ base[from] # Nil
          /\ Spare(local[from]) /\ Spare(remote[from])
      BY <1>3 DEF Stands, RenameStands
    <3>2. /\ local'[from] = local[from] \/ local'[from] = Nil
          /\ remote'[from] = remote[from] \/ remote'[from] = Nil
          /\ plan'[from].op = "none" /\ base'[from] # Nil
      BY <1>1, <3>1
    <3>3. Spare(local[from])' /\ Spare(remote[from])'
      BY <1>2, <2>1, <3>1, <3>2 DEF Spare
    <3>4. plan'[q].from = from
      BY <2>1
    <3> HIDE DEF from
    <3> QED
      BY <1>2, <1>3, <2>1, <3>1, <3>2, <3>3, <3>4 DEF Stands, RenameStands, Free, Spare, from
  <2>5. ConflictStands(q)'
    <3>1. At(q)' = At(q)
      BY <2>1 DEF At
    <3>2. copyOf[q] # Nil => copyOf[q] \in Paths
      BY <1>3 DEF IInv, TypeOK
    <3>3. base' = base
      BY <1>1
    <3> QED
      BY <1>2, <1>3, <2>1, <3>1, <3>2, <3>3 DEF Stands, ConflictStands
  <2> QED
    BY <2>2, <2>3, <2>4, <2>5 DEF Stands
<1> QED
  BY <1>4, <1>5

\* What remains to be said of an operation that takes nothing away but what was given up.
LEMMA OperationIsQuiet ==
  ASSUME IInv, IInv', QInv, pc = "apply", UNCHANGED steady, NEW p \in Paths,
         todo' \subseteq todo,
         \A q \in Paths : Yields(local[q], local'[q]) /\ Yields(remote[q], remote'[q]),
         \A q \in Paths : RowStands(q)' \/ (plan'[q] = plan[q] /\ (q \in done' => q \in done)),
         \A q \in todo' : Stands(q)',
         StampsTell', FlightIsTodo'
  PROVE  QInv' /\ Retired \subseteq GivenUp'
<1>1. UNCHANGED <<pc, base, discarded, dismissed>>
  BY DEF steady, store, history
<1>2. GivenUp' = GivenUp
  BY <1>1 DEF GivenUp
<1>3. /\ \A q \in Paths : \A v : /\ KeptHere(q, v) => KeptHere(q, v)'
                                 /\ KeptThere(q, v) => KeptThere(q, v)'
      /\ Retired \subseteq GivenUp'
  BY <1>2, YieldingKeeps
<1>4. RowsAreKept'
  BY <1>1, <1>3 DEF QInv, RowsAreKept
<1>5. ASSUME NEW q \in Paths PROVE RowStands(q)'
  <2>1. RowStands(q)
    BY DEF QInv, WorkStands, Working
  <2> QED
    BY <1>3, <2>1 DEF RowStands
<1>6. ScanStands' /\ WorkStands'
  BY <1>1, <1>5 DEF ScanStands, WorkStands
<1> QED
  BY <1>3, <1>4, <1>6 DEF QInv

\* An operation done in one go, which takes nothing from elsewhere but what may be spared.
LEMMA PlainIsQuiet ==
  ASSUME IInv, IInv', QInv, pc = "apply", UNCHANGED <<plan, copyOf, staged, steady>>,
         NEW p \in todo, plan[p].op # "none", InFlight = {},
         NEW rows, Outcome(p, rows) \/ Succeeded(p, rows),
         Yields(local[p], local'[p]), Yields(remote[p], remote'[p]),
         local'[p] # Nil => local'[p].t = local'[p].v,
         remote'[p] # Nil => remote'[p].t = remote'[p].v,
         \A r \in Paths \ {p} :
            /\ local'[r] = local[r] \/ (local'[r] = Nil /\ Spare(local[r]) /\ plan[r].op = "none")
            /\ remote'[r] = remote[r] \/ (remote'[r] = Nil /\ Spare(remote[r]) /\ plan[r].op = "none"),
         plan[p].op \in Pending => KeptHere(p, plan[p].row.v)' /\ KeptThere(p, plan[p].row.v)'
  PROVE  QInv' /\ Retired \subseteq GivenUp'
<1>1. UNCHANGED <<pc, base, seen, discarded, dismissed>>
  BY DEF steady, store, input, history
<1>2. GivenUp' = GivenUp
  BY <1>1 DEF GivenUp
<1>3. p \in Paths /\ todo' = todo \ {p} /\ done' \subseteq done \cup {p}
  BY OutcomeMeans DEF IInv, TypeOK
<1>4. \A q \in Paths : staged[q] = Nil /\ copyOf[q] = Nil
  BY NothingStaged
<1>5. \A q \in Paths : Yields(local[q], local'[q]) /\ Yields(remote[q], remote'[q])
  BY <1>2 DEF Yields, Spare
<1>6. \A q \in todo' : Stands(q)'
  BY <1>3, <1>4, OthersStand
<1>7. StampsTell'
  BY <1>1, <1>4 DEF QInv, StampsTell, Stamped
<1>8. FlightIsTodo'
  BY <1>3, <1>4 DEF QInv, FlightIsTodo
<1>9. ASSUME NEW q \in Paths PROVE RowStands(q)' \/ (plan'[q] = plan[q] /\ (q \in done' => q \in done))
  <2>1. CASE q # p \/ plan[p].op \in Pending
    BY <1>3, <2>1 DEF RowStands
  <2>2. CASE q = p /\ plan[p].op \notin Pending
    <3>1. RowStands(p)
      BY <1>3 DEF QInv, WorkStands, Working
    <3>2. \A v : KeptHere(p, v) => KeptHere(p, v)'
      BY <1>2, <1>3, <1>5, YieldingKeeps
    <3>3. \A v : KeptThere(p, v) => KeptThere(p, v)'
      BY <1>2, <1>3, <1>5, YieldingKeeps
    <3> QED
      BY <2>2, <3>1, <3>2, <3>3 DEF RowStands
  <2> QED
    BY <2>1, <2>2
<1> QED
  BY <1>3, <1>5, <1>6, <1>7, <1>8, <1>9, OperationIsQuiet

LEMMA UploadIsQuiet ==
  ASSUME IInv, IInv', QInv, NEW p \in Paths, Upload(p) PROVE QInv' /\ Retired \subseteq GivenUp'
<1>1. /\ pc = "apply" /\ p \in todo /\ plan[p].op = "upload" /\ InFlight = {}
      /\ UNCHANGED <<local, plan, copyOf, staged, steady>> /\ Outcome(p, {})
      /\ remote' = [remote EXCEPT ![p] = local[p]]
  BY DEF Upload, Takes, Rest
<1>2. GivenUp' = GivenUp
  BY <1>1 DEF GivenUp, steady, history
<1>3. /\ \A r \in Paths \ {p} : remote'[r] = remote[r]
      /\ remote'[p] = local[p]
  BY <1>1, WorldTyped DEF Tree
<1>4. /\ local[p] # Nil /\ local[p].v = plan[p].row.v
      /\ Free(remote[p], plan[p].row.v)
  BY <1>1 DEF QInv, WorkStands, InRun, Stands, UploadStands
<1>5. Yields(local[p], local'[p]) /\ Yields(remote[p], remote'[p])
  BY <1>1, <1>2, <1>3, <1>4 DEF Yields, Free, Spare
<1>6. local[p].t = local[p].v
  BY <1>4 DEF QInv, StampsTell
<1>7. KeptHere(p, plan[p].row.v)' /\ KeptThere(p, plan[p].row.v)'
  BY <1>1, <1>3, <1>4 DEF KeptHere, KeptThere
<1> QED
  BY <1>1, <1>3, <1>5, <1>6, <1>7, PlainIsQuiet

LEMMA DeletionIsQuiet ==
  ASSUME IInv, IInv', QInv, NEW p \in Paths, DeleteRemote(p) \/ DeleteLocal(p)
  PROVE  QInv' /\ Retired \subseteq GivenUp'
<1>1. /\ pc = "apply" /\ p \in todo /\ plan[p].op \in Deletes /\ InFlight = {}
      /\ UNCHANGED <<plan, copyOf, staged, steady>>
      /\ Outcome(p, {p}) \/ Succeeded(p, {p})
      /\ \/ plan[p].op = "deleteRemote" /\ local' = local /\ remote' = [remote EXCEPT ![p] = Nil]
         \/ plan[p].op = "deleteLocal" /\ remote' = remote /\ local' = [local EXCEPT ![p] = Nil]
  BY DEF DeleteRemote, DeleteLocal, Takes, Rest, Deletes
<1>2. GivenUp' = GivenUp
  BY <1>1 DEF GivenUp, steady, history
<1>3. \A r \in Paths \ {p} : local'[r] = local[r] /\ remote'[r] = remote[r]
  BY <1>1, WorldTyped DEF Tree
<1>4. /\ local'[p] = local[p] \/ (local'[p] = Nil /\ Spare(local[p]))
      /\ remote'[p] = remote[p] \/ (remote'[p] = Nil /\ Spare(remote[p]))
  <2>1. /\ plan[p].op = "deleteRemote" => Spare(remote[p])
        /\ plan[p].op = "deleteLocal" => Spare(local[p])
    BY <1>1 DEF QInv, WorkStands, InRun, Stands, DeletionStands
  <2> QED
    BY <1>1, <2>1, WorldTyped DEF Tree
<1>5. Yields(local[p], local'[p]) /\ Yields(remote[p], remote'[p])
  BY <1>2, <1>4 DEF Yields, Spare
<1>6. /\ local'[p] # Nil => local'[p].t = local'[p].v
      /\ remote'[p] # Nil => remote'[p].t = remote'[p].v
  BY <1>4 DEF QInv, StampsTell
<1>7. plan[p].op \notin Pending /\ plan[p].op # "none"
  BY <1>1 DEF Pending, Deletes
<1> QED
  BY <1>1, <1>3, <1>5, <1>6, <1>7, PlainIsQuiet

LEMMA RenamingIsQuiet ==
  ASSUME IInv, IInv', QInv, NEW p \in Paths, RenameRemote(p) \/ RenameLocal(p)
  PROVE  QInv' /\ Retired \subseteq GivenUp'
<1> DEFINE from == plan[p].from
           row == plan[p].row
<1>1. /\ pc = "apply" /\ p \in todo /\ plan[p].op \in Renames /\ InFlight = {}
      /\ UNCHANGED <<plan, copyOf, staged, steady>>
      /\ Outcome(p, {from}) \/ Succeeded(p, {from})
  BY DEF RenameRemote, RenameLocal, Takes, Rest, Renames
<1>2. GivenUp' = GivenUp
  BY <1>1 DEF GivenUp, steady, history
<1>3. RenameStands(p)
  BY <1>1 DEF QInv, WorkStands, InRun, Stands
<1>4. /\ from \in Paths /\ plan[from].op = "none"
      /\ Spare(local[from]) /\ Spare(remote[from]) /\ from # p
  BY <1>1, <1>3 DEF RenameStands, Renames
<1>5. CASE RenameRemote(p)
  <2>1. /\ plan[p].op = "renameRemote" /\ local' = local /\ remote[from] # Nil
        /\ remote' = [remote EXCEPT ![p] = remote[from], ![from] = Nil]
    BY <1>5 DEF RenameRemote, Takes
  <2>2. /\ remote[from].v = row.v /\ local[p] # Nil /\ local[p].v = row.v /\ Free(remote[p], row.v)
    BY <1>1, <1>3, <2>1 DEF RenameStands
  <2>3. /\ remote'[p] = remote[from] /\ remote'[from] = Nil
        /\ \A r \in Paths \ {p} : r # from => remote'[r] = remote[r]
    BY <1>4, <2>1, WorldTyped DEF Tree
  <2> HIDE DEF from, row
  <2>4. Yields(local[p], local'[p]) /\ Yields(remote[p], remote'[p])
    BY <1>2, <2>1, <2>2, <2>3 DEF Yields, Free, Spare
  <2>5. /\ local'[p] # Nil => local'[p].t = local'[p].v
        /\ remote'[p] # Nil => remote'[p].t = remote'[p].v
    BY <1>4, <2>1, <2>3 DEF QInv, StampsTell
  <2>6. KeptHere(p, row.v)' /\ KeptThere(p, row.v)'
    <3>1. row' = row
      BY <1>1 DEF row
    <3> QED
      BY <2>1, <2>2, <2>3, <3>1 DEF KeptHere, KeptThere
  <2>7. \A r \in Paths \ {p} :
           /\ local'[r] = local[r]
           /\ remote'[r] = remote[r] \/ (remote'[r] = Nil /\ Spare(remote[r]) /\ plan[r].op = "none")
    BY <1>4, <2>1, <2>3
  <2>8. plan[p].op # "none"
    BY <2>1
  <2> QED
    BY <1>1, <2>4, <2>5, <2>6, <2>7, <2>8, PlainIsQuiet DEF row
<1>6. CASE RenameLocal(p)
  <2>1. /\ plan[p].op = "renameLocal" /\ remote' = remote /\ local[from] # Nil
        /\ local' = [local EXCEPT ![p] = [v |-> local[from].v, t |-> row.t], ![from] = Nil]
    BY <1>6 DEF RenameLocal, Takes
  <2>2. /\ local[from].v = row.v /\ remote[p] # Nil /\ remote[p].v = row.v /\ Free(local[p], row.v)
    BY <1>1, <1>3, <2>1 DEF RenameStands
  <2>3. /\ local'[p] = [v |-> local[from].v, t |-> row.t] /\ local'[from] = Nil
        /\ \A r \in Paths \ {p} : r # from => local'[r] = local[r]
    BY <1>4, <2>1, WorldTyped DEF Tree
  <2>4. row.t = row.v
    BY <2>1 DEF QInv, StampsTell
  <2>5. local'[p].v = row.v /\ local'[p].t = row.v
    BY <2>2, <2>3, <2>4
  <2>6. local'[p] # Nil
    <3>1. local[from] \in File /\ row.t \in Nat
      BY <1>1, <1>4, <2>1, WorldTyped
         DEF IInv, PlansAreComplete, Renames, Pending, Executed, LocalOps, Deletes, FileEntries
    <3>2. local'[p] \in File
      BY <2>3, <3>1 DEF File
    <3> QED
      BY <3>2, PairSyncAssumption
  <2> HIDE DEF from, row
  <2>7. Yields(local[p], local'[p]) /\ Yields(remote[p], remote'[p])
    BY <1>2, <2>1, <2>2, <2>5, <2>6 DEF Yields, Free, Spare
  <2>8. /\ local'[p] # Nil => local'[p].t = local'[p].v
        /\ remote'[p] # Nil => remote'[p].t = remote'[p].v
    BY <2>1, <2>5 DEF QInv, StampsTell
  <2>9. KeptHere(p, row.v)' /\ KeptThere(p, row.v)'
    <3>1. row' = row
      BY <1>1 DEF row
    <3> QED
      BY <2>1, <2>2, <2>5, <2>6, <3>1 DEF KeptHere, KeptThere
  <2>10. \A r \in Paths \ {p} :
           /\ remote'[r] = remote[r]
           /\ local'[r] = local[r] \/ (local'[r] = Nil /\ Spare(local[r]) /\ plan[r].op = "none")
    BY <1>4, <2>1, <2>3
  <2>11. plan[p].op # "none"
    BY <2>1
  <2> QED
    BY <1>1, <2>7, <2>8, <2>9, <2>10, <2>11, PlainIsQuiet DEF row
<1> QED
  BY <1>5, <1>6

\* A transfer's steps concern its own path only.
LEMMA TransferIsQuiet ==
  ASSUME IInv, IInv', QInv, UNCHANGED <<remote, plan, steady>>, pc = "apply",
         NEW p \in todo, plan[p].op \in {"download", "conflict"},
         todo' \in {todo, todo \ {p}}, done' \subseteq done \cup {p},
         Yields(local[p], local'[p]), local'[p] # Nil => local'[p].t = local'[p].v,
         \A r \in Paths \ {p} : local'[r] = local[r] /\ staged'[r] = staged[r] /\ copyOf'[r] = copyOf[r],
         copyOf'[p] \in {copyOf[p], Nil},
         staged'[p] # Nil => staged'[p].f.t = staged'[p].f.v,
         p \in todo' => Stands(p)' /\ done' = done,
         p \notin todo' => staged'[p] = Nil /\ copyOf'[p] = Nil,
         p \in done' => KeptHere(p, plan[p].row.v)' /\ KeptThere(p, plan[p].row.v)'
  PROVE  QInv' /\ Retired \subseteq GivenUp'
<1>1. UNCHANGED <<pc, base, seen, discarded, dismissed>>
  BY DEF steady, store, input, history
<1>2. p \in Paths /\ todo' \subseteq todo
  BY DEF IInv, TypeOK
<1>3. \A q \in Paths : Yields(local[q], local'[q]) /\ Yields(remote[q], remote'[q])
  BY DEF Yields
<1>4. \A q \in todo \ {p} : Stands(q)'
  <2>1. plan[p].op # "none"
    OBVIOUS
  <2> QED
    BY <1>2, <2>1, OthersStand
<1>5. StampsTell'
  BY <1>1 DEF QInv, StampsTell, Stamped
<1>6. FlightIsTodo'
  <2>1. todo' \cap done' = {}
    BY DEF QInv, FlightIsTodo
  <2>2. \A q \in Paths : staged'[q] # Nil \/ copyOf'[q] # Nil => q \in todo' /\ pc' = "apply"
    BY <1>1 DEF QInv, FlightIsTodo
  <2>3. \A q \in Paths : copyOf'[q] # Nil => copyOf[q] # Nil
    OBVIOUS
  <2>4. \A q, r \in Paths : copyOf'[q] # Nil /\ copyOf'[r] # Nil => q = r
    BY <2>3 DEF QInv, FlightIsTodo
  <2> QED
    BY <2>1, <2>2, <2>4 DEF FlightIsTodo
<1>7. \A q \in Paths : RowStands(q)' \/ (plan'[q] = plan[q] /\ (q \in done' => q \in done))
  <2>1. plan[p].op \in Pending
    BY DEF Pending, Executed, LocalOps, Deletes
  <2> QED
    BY <2>1 DEF RowStands
<1>8. \A q \in todo' : Stands(q)'
  BY <1>2, <1>4
<1> QED
  BY <1>2, <1>3, <1>5, <1>6, <1>7, <1>8, OperationIsQuiet

\* A path in flight is being worked on.
LEMMA StagedIsTodo ==
  ASSUME IInv, QInv, NEW p \in Paths, staged[p] # Nil
  PROVE  /\ p \in todo /\ pc = "apply" /\ plan[p].op \in {"download", "conflict"}
         /\ staged[p] \in Staged /\ At(p) = staged[p].at
         /\ staged[p].f.v = plan[p].row.v /\ staged[p].f.t = plan[p].row.v
         /\ plan[p].row.t = plan[p].row.v
         /\ remote[p] # Nil /\ remote[p].v = plan[p].row.v
<1>1. /\ p \in todo /\ pc = "apply" /\ Stands(p)
  BY DEF QInv, FlightIsTodo, WorkStands, InRun
<1>2. plan[p].op \in {"download", "conflict"} /\ staged[p] \in Staged /\ At(p) = staged[p].at
  BY StagedMeans DEF At
<1> QED
  BY <1>1, <1>2 DEF Stands, DownloadStands, ConflictStands, QInv, StampsTell

LEMMA FetchIsQuiet ==
  ASSUME IInv, IInv', QInv, NEW p \in Paths, Fetch(p) PROVE QInv' /\ Retired \subseteq GivenUp'
<1>1. /\ pc = "apply" /\ p \in todo /\ remote[p] # Nil
      /\ plan[p].op \in {"download", "conflict"}
      /\ staged' = [staged EXCEPT ![p] = [f |-> remote[p], at |-> "fetched"]]
      /\ UNCHANGED <<local, remote, plan, todo, done, copyOf, steady>>
  BY DEF Fetch, MayFetch, world
<1>2. /\ \A r \in Paths \ {p} : staged'[r] = staged[r]
      /\ staged'[p].f = remote[p] /\ staged'[p].at = "fetched"
  BY <1>1 DEF IInv, TypeOK
<1>3. UNCHANGED <<base, seen, discarded, dismissed>>
  BY <1>1 DEF steady, store, input, history
<1>4. Stands(p)
  BY <1>1 DEF QInv, WorkStands, InRun
<1>5. Stands(p)'
  <2>1. UploadStands(p)' /\ DeletionStands(p)' /\ RenameStands(p)'
    BY <1>1 DEF UploadStands, DeletionStands, RenameStands, Renames
  <2>2. At(p)' \in {"none", "fetched"}
    BY <1>2 DEF At
  <2>3. LocalMatches(p)' = LocalMatches(p) /\ GivenUp' = GivenUp
    BY <1>1, <1>3 DEF LocalMatches, Expected, GivenUp
  <2>4. DownloadStands(p)'
    BY <1>1, <1>2, <1>4, <2>2, <2>3 DEF Stands, DownloadStands, Free, Spare
  <2>5. ConflictStands(p)'
    BY <1>1, <1>2, <1>3, <1>4, <2>2, <2>3 DEF Stands, ConflictStands
  <2> QED
    BY <2>1, <2>4, <2>5 DEF Stands
<1>6. remote[p].t = remote[p].v
  BY <1>1 DEF QInv, StampsTell
<1>7. local'[p] # Nil => local'[p].t = local'[p].v
  BY <1>1 DEF QInv, StampsTell
<1>8. Yields(local[p], local'[p])
  BY <1>1 DEF Yields
<1>9. p \notin done'
  BY <1>1 DEF QInv, FlightIsTodo
<1> QED
  BY <1>1, <1>2, <1>5, <1>6, <1>7, <1>8, <1>9, TransferIsQuiet

LEMMA InstallCheckIsQuiet ==
  ASSUME IInv, IInv', QInv, NEW p \in Paths, InstallCheck(p) PROVE QInv' /\ Retired \subseteq GivenUp'
<1>1. /\ staged[p] # Nil /\ LocalMatches(p)
      /\ UNCHANGED <<local, remote, plan, todo, done, copyOf, steady>>
  BY DEF InstallCheck, At, world
<1>2. /\ pc = "apply" /\ p \in todo /\ plan[p].op \in {"download", "conflict"}
      /\ staged[p].f.v = plan[p].row.v /\ staged[p].f.t = plan[p].row.v
      /\ plan[p].row.t = plan[p].row.v
  BY <1>1, StagedIsTodo
<1>3. PICK t \in {IF plan[p].row.t = NoTime THEN staged[p].f.t ELSE plan[p].row.t} :
         staged' = [staged EXCEPT ![p] = [f |-> [v |-> staged[p].f.v, t |-> t], at |-> "checked"]]
  BY DEF InstallCheck
<1>4. /\ \A r \in Paths \ {p} : staged'[r] = staged[r]
      /\ staged'[p].at = "checked"
      /\ staged'[p].f.v = plan[p].row.v /\ staged'[p].f.t = plan[p].row.v
  <2>1. t = plan[p].row.v
    BY <1>2
  <2>2. /\ \A r \in Paths \ {p} : staged'[r] = staged[r]
        /\ staged'[p] = [f |-> [v |-> staged[p].f.v, t |-> t], at |-> "checked"]
    BY <1>3 DEF IInv, TypeOK
  <2> QED
    BY <1>2, <2>1, <2>2
<1>5. UNCHANGED <<base, seen, discarded, dismissed>>
  BY <1>1 DEF steady, store, input, history
<1>6. Stands(p)
  BY <1>2 DEF QInv, WorkStands, InRun
<1>7. Stands(p)'
  <2>1. UploadStands(p)' /\ DeletionStands(p)' /\ RenameStands(p)'
    BY <1>1, <1>2 DEF UploadStands, DeletionStands, RenameStands, Renames
  <2>2. At(p)' \in {"none", "checked"}
    BY <1>4 DEF At
  <2>3. GivenUp' = GivenUp
    BY <1>5 DEF GivenUp
  <2>4. plan[p].op = "conflict" => local[p] = Nil
    BY <1>1 DEF LocalMatches, Expected
  <2>5. DownloadStands(p)'
    BY <1>1, <1>4, <1>6, <2>3 DEF Stands, DownloadStands, Free, Spare
  <2>6. ConflictStands(p)'
    BY <1>1, <1>4, <1>5, <1>6, <2>2, <2>3, <2>4 DEF Stands, ConflictStands
  <2> QED
    BY <2>1, <2>5, <2>6 DEF Stands
<1>8. local'[p] # Nil => local'[p].t = local'[p].v
  BY <1>1 DEF QInv, StampsTell
<1>9. Yields(local[p], local'[p])
  BY <1>1 DEF Yields
<1>10. p \notin done'
  BY <1>1, <1>2 DEF QInv, FlightIsTodo
<1> QED
  BY <1>1, <1>2, <1>4, <1>7, <1>8, <1>9, <1>10, TransferIsQuiet

LEMMA InstallRenameIsQuiet ==
  ASSUME IInv, IInv', QInv, NEW p \in Paths, InstallRename(p) PROVE QInv' /\ Retired \subseteq GivenUp'
<1>1. /\ staged[p] # Nil /\ At(p) = "checked"
      /\ UNCHANGED <<remote, plan, copyOf, steady>>
      /\ local' = [local EXCEPT ![p] = staged[p].f]
  BY DEF InstallRename, At
<1>2. /\ pc = "apply" /\ p \in todo /\ plan[p].op \in {"download", "conflict"}
      /\ staged[p] \in Staged
      /\ staged[p].f.v = plan[p].row.v /\ staged[p].f.t = plan[p].row.v
      /\ remote[p] # Nil /\ remote[p].v = plan[p].row.v
  BY <1>1, StagedIsTodo
<1>3. local'[p] = staged[p].f /\ \A r \in Paths \ {p} : local'[r] = local[r]
  BY <1>1, WorldTyped DEF Tree
<1>4. UNCHANGED <<base, seen, discarded, dismissed>>
  BY <1>1 DEF steady, store, input, history
<1>5. GivenUp' = GivenUp
  BY <1>4 DEF GivenUp
<1>6. Stands(p)
  BY <1>2 DEF QInv, WorkStands, InRun
<1>7. local'[p] # Nil
  BY <1>2, <1>3, PairSyncAssumption DEF Staged
<1>8. CASE plan[p].op = "download"
  <2>1. staged' = [staged EXCEPT ![p] = Nil] /\ Succeeded(p, {})
    BY <1>8 DEF InstallRename
  <2>2. todo' = todo \ {p} /\ done' = done \cup {p}
    BY <2>1 DEF Succeeded
  <2>3. staged'[p] = Nil /\ \A r \in Paths \ {p} : staged'[r] = staged[r]
    BY <2>1 DEF IInv, TypeOK
  <2>4. copyOf[p] = Nil
    BY <1>8, StagedMeans
  <2>5. Free(local[p], plan[p].row.v)
    BY <1>1, <1>6, <1>8 DEF Stands, DownloadStands
  <2>6. Yields(local[p], local'[p])
    BY <1>2, <1>3, <1>5, <1>7, <2>5 DEF Yields, Free, Spare
  <2>7. KeptHere(p, plan[p].row.v)' /\ KeptThere(p, plan[p].row.v)'
    BY <1>1, <1>2, <1>3, <1>7 DEF KeptHere, KeptThere
  <2> QED
    BY <1>1, <1>2, <1>3, <2>2, <2>3, <2>4, <2>6, <2>7, TransferIsQuiet
<1>9. CASE plan[p].op = "conflict"
  <2>1. staged' = [staged EXCEPT ![p].at = "installed"] /\ UNCHANGED <<todo, done>>
    BY <1>9 DEF InstallRename
  <2>2. staged'[p] = [staged[p] EXCEPT !.at = "installed"] /\ \A r \in Paths \ {p} : staged'[r] = staged[r]
    BY <2>1 DEF IInv, TypeOK
  <2>3. staged'[p].f = staged[p].f /\ staged'[p].at = "installed"
    BY <1>2, <2>2 DEF Staged
  <2>4. local[p] = Nil
    BY <1>1, <1>6, <1>9 DEF Stands, ConflictStands
  <2>5. Yields(local[p], local'[p])
    BY <2>4 DEF Yields
  <2>6. Stands(p)'
    <3>1. UploadStands(p)' /\ DeletionStands(p)' /\ RenameStands(p)' /\ DownloadStands(p)'
      BY <1>1, <1>9 DEF UploadStands, DeletionStands, RenameStands, DownloadStands, Renames
    <3>2. At(p)' \in {"none", "installed"}
      BY <2>3 DEF At
    <3>3. ConflictStands(p)'
      BY <1>1, <1>2, <1>3, <1>4, <1>5, <1>6, <1>7, <2>3, <3>2 DEF Stands, ConflictStands
    <3> QED
      BY <3>1, <3>3 DEF Stands
  <2>7. p \notin done'
    BY <1>2, <2>1 DEF QInv, FlightIsTodo
  <2> QED
    BY <1>1, <1>2, <1>3, <2>1, <2>2, <2>3, <2>5, <2>6, <2>7, TransferIsQuiet
<1> QED
  BY <1>2, <1>8, <1>9

LEMMA OpFailsIsQuiet ==
  ASSUME IInv, IInv', QInv, NEW p \in Paths, OpFails(p) PROVE QInv' /\ Retired \subseteq GivenUp'
<1>1. /\ todo' = todo \ {p} /\ UNCHANGED <<local, remote, plan, done, steady>>
      /\ staged' = [staged EXCEPT ![p] = Nil] /\ copyOf' = [copyOf EXCEPT ![p] = Nil]
  BY DEF OpFails, Failed, world
<1>2. /\ staged'[p] = Nil /\ copyOf'[p] = Nil
      /\ \A r \in Paths \ {p} : staged'[r] = staged[r] /\ copyOf'[r] = copyOf[r]
  BY <1>1 DEF IInv, TypeOK
<1>3. p \in todo /\ pc = "apply"
  BY DEF OpFails, Running, Takes, Rest, MayFetch, InFlight, QInv, FlightIsTodo
<1>4. UNCHANGED <<pc, base, seen, discarded, dismissed>>
  BY <1>1 DEF steady, store, input, history
<1>5. \A q \in Paths : Yields(local[q], local'[q]) /\ Yields(remote[q], remote'[q])
  BY <1>1 DEF Yields
<1>6. \A q \in todo' : Stands(q)'
  BY <1>1, <1>2, <1>3, OthersStand
<1>7. StampsTell'
  BY <1>1, <1>2, <1>4 DEF QInv, StampsTell, Stamped
<1>8. FlightIsTodo'
  BY <1>1, <1>2, <1>4 DEF QInv, FlightIsTodo
<1>9. \A q \in Paths : plan'[q] = plan[q] /\ (q \in done' => q \in done)
  BY <1>1
<1> QED
  BY <1>1, <1>3, <1>5, <1>6, <1>7, <1>8, <1>9, OperationIsQuiet

\* The local file set aside keeps its version, under the copy's name.
LEMMA ConflictAsideIsQuiet ==
  ASSUME IInv, IInv', QInv, NEW p \in Paths, NEW c \in Paths, ConflictAside(p, c)
  PROVE  QInv' /\ Retired \subseteq GivenUp'
<1>1. /\ pc = "apply" /\ p \in todo /\ plan[p].op = "conflict" /\ InFlight = {}
      /\ c \in CopyPaths /\ local[c] = Nil /\ remote[c] = Nil /\ base[c] = Nil /\ plan[c] = Idle
      /\ UNCHANGED <<remote, plan, todo, done, staged, steady>>
      /\ local' = [local EXCEPT ![c] = local[p], ![p] = Nil]
      /\ copyOf' = [copyOf EXCEPT ![p] = c]
  BY DEF ConflictAside, Takes, Rest
<1>2. plan[c].op = "none" /\ plan[c].row = Nil /\ c # p
  BY <1>1 DEF Idle
<1>3. /\ local'[c] = local[p] /\ local'[p] = Nil
      /\ \A r \in Paths \ {p, c} : local'[r] = local[r]
  BY <1>1, <1>2, WorldTyped DEF Tree
<1>4. /\ \A q \in Paths : staged'[q] = Nil /\ copyOf[q] = Nil /\ At(q)' = "none"
      /\ copyOf'[p] = c /\ \A r \in Paths \ {p} : copyOf'[r] = Nil
  BY <1>1, NothingStaged DEF IInv, TypeOK, At
<1>5. UNCHANGED <<pc, base, seen, discarded, dismissed>>
  BY <1>1 DEF steady, store, input, history
<1>6. GivenUp' = GivenUp
  BY <1>5 DEF GivenUp
<1>7. p \notin done' /\ todo' \cap done' = {}
  BY <1>1 DEF QInv, FlightIsTodo
<1>8. Stands(p) /\ (base[p] # Nil => base[p].v \in GivenUp)
  BY <1>1 DEF QInv, WorkStands, InRun, Stands, ConflictStands
<1>9. ASSUME NEW q \in Paths \ {p}, NEW v
      PROVE  /\ KeptHere(q, v) => KeptHere(q, v)'
             /\ KeptThere(q, v) => KeptThere(q, v)'
  BY <1>1, <1>3, <1>6 DEF KeptHere, KeptThere
<1>10. RowsAreKept'
  <2>1. base[p] # Nil => KeptHere(p, base[p].v)' /\ KeptThere(p, base[p].v)'
    BY <1>5, <1>6, <1>8 DEF KeptHere, KeptThere
  <2> QED
    BY <1>5, <1>9, <2>1 DEF QInv, RowsAreKept
<1>11. ASSUME NEW q \in Paths PROVE RowStands(q)'
  <2>1. RowStands(q)
    BY <1>1 DEF QInv, WorkStands, Working
  <2>2. plan[p].op \in Pending
    BY <1>1 DEF Pending, Executed, Deletes
  <2> QED
    BY <1>1, <1>7, <1>9, <2>1, <2>2 DEF RowStands
<1>12. Stands(p)'
  <2>1. UploadStands(p)' /\ DeletionStands(p)' /\ RenameStands(p)' /\ DownloadStands(p)'
    BY <1>1 DEF UploadStands, DeletionStands, RenameStands, DownloadStands, Renames
  <2>2. ConflictStands(p)'
    <3>1. remote[p] # Nil /\ remote[p].v = plan[p].row.v
      BY <1>1, <1>8 DEF Stands, ConflictStands
    <3>2. /\ remote' = remote /\ plan' = plan /\ base' = base /\ copyOf'[p] = c /\ staged'[p] = Nil
          /\ At(p)' = "none"
      BY <1>1, <1>4, <1>5
    <3> QED
      BY <1>1, <1>2, <1>6, <1>8, <3>1, <3>2 DEF ConflictStands
  <2> QED
    BY <2>1, <2>2 DEF Stands
<1>13. \A q \in todo \ {p} : Stands(q)'
  <2>1. /\ \A r \in Paths : plan'[r].op = plan[r].op /\ (plan[r].op # "none" => plan'[r] = plan[r])
        /\ plan[p].op # "none"
    BY <1>1
  <2>2. ASSUME NEW r \in Paths \ {p}
        PROVE  /\ plan[r].op # "none" => local'[r] = local[r] /\ remote'[r] = remote[r]
               /\ base[r] # Nil => /\ local'[r] = local[r] \/ local'[r] = Nil
                                   /\ remote'[r] = remote[r] \/ remote'[r] = Nil
               /\ staged'[r] = staged[r] /\ copyOf'[r] = copyOf[r]
               /\ copyOf[r] # Nil => remote'[copyOf[r]] = remote[copyOf[r]]
    BY <1>1, <1>2, <1>3, <1>4
  <2> QED
    BY <1>1, <2>1, <2>2, OthersStand
<1>14. WorkStands' /\ ScanStands'
  <2>1. \A q \in todo' : Stands(q)'
    BY <1>1, <1>12, <1>13
  <2> QED
    BY <1>1, <1>5, <1>11, <2>1 DEF WorkStands, ScanStands
<1>15. FlightIsTodo'
  BY <1>1, <1>4, <1>5, <1>7 DEF FlightIsTodo
<1>16. StampsTell'
  <2>1. \A q \in Paths : local'[q] # Nil => local'[q].t = local'[q].v
    BY <1>3 DEF QInv, StampsTell
  <2> QED
    BY <1>1, <1>4, <1>5, <2>1 DEF QInv, StampsTell, Stamped
<1>17. Retired \subseteq GivenUp'
  <2>1. ASSUME NEW v \in Live PROVE v \in Live'
    <3>1. PICK q \in Paths : v \in Contents(local, q) \cup Contents(remote, q)
      BY DEF Live
    <3>2. \E r \in Paths : v \in Contents(local', r) \cup Contents(remote', r)
      BY <1>1, <1>3, <3>1 DEF Contents
    <3>3. Live' = UNION {Contents(local', r) \cup Contents(remote', r) : r \in Paths}
      BY DEF Live, Contents
    <3> QED
      BY <3>2, <3>3
  <2> QED
    BY <2>1 DEF Retired
<1> QED
  BY <1>10, <1>14, <1>15, <1>16, <1>17 DEF QInv

LEMMA ConflictUploadIsQuiet ==
  ASSUME IInv, IInv', QInv, Quiet, NEW p \in Paths, ConflictUpload(p)
  PROVE  QInv' /\ Retired \subseteq GivenUp'
<1> DEFINE c == copyOf[p]
           row == [dir |-> FALSE, v |-> local[c].v, t |-> NoTime, h |-> FALSE]
<1>1. /\ staged[p] # Nil /\ At(p) = "installed" /\ local[c] # Nil
      /\ UNCHANGED <<local, steady>>
      /\ remote' = [remote EXCEPT ![c] = local[c]]
      /\ staged' = [staged EXCEPT ![p] = Nil] /\ copyOf' = [copyOf EXCEPT ![p] = Nil]
      /\ plan' = [plan EXCEPT ![c].row = row] \/ plan' = plan
  BY DEF ConflictUpload, At
<1>2. /\ pc = "apply" /\ p \in todo /\ plan[p].op \in {"download", "conflict"}
      /\ remote[p] # Nil /\ remote[p].v = plan[p].row.v
  BY <1>1, StagedIsTodo
<1>3. /\ c \in Paths /\ c # Nil /\ plan[p].op = "conflict" /\ ConflictStands(p)
  <2>1. copyOf[p] # Nil /\ plan[p].op = "conflict" /\ copyOf[p] \in Paths
    BY <1>1, StagedMeans
  <2> QED
    BY <1>2, <2>1 DEF QInv, WorkStands, InRun, Stands
<1>4. /\ c \in CopyPaths /\ plan[c].op = "none" /\ remote[c] = Nil /\ base[c] = Nil /\ c # p
      /\ local[p] # Nil /\ local[p].v = plan[p].row.v
  BY <1>1, <1>3 DEF ConflictStands
<1>5. todo' = todo \ {p} /\ done' \subseteq done \cup {p}
  BY DEF ConflictUpload, Succeeded, TimedOut, Failed
<1> HIDE DEF row
<1>6. /\ \A r \in Paths : plan'[r].op = plan[r].op
      /\ \A r \in Paths \ {c} : plan'[r] = plan[r]
      /\ plan'[c].row = plan[c].row \/ plan'[c].row = row
  <2>1. plan \in [Paths -> Planned]
    BY DEF IInv, TypeOK
  <2>2. CASE plan' = [plan EXCEPT ![c].row = row]
    <3>1. plan'[c] = [plan[c] EXCEPT !.row = row] /\ \A r \in Paths \ {c} : plan'[r] = plan[r]
      BY <1>3, <2>1, <2>2
    <3>2. plan'[c].op = plan[c].op /\ plan'[c].row = row
      BY <1>3, <2>1, <3>1 DEF Planned
    <3> QED
      BY <3>1, <3>2
  <2> QED
    BY <1>1, <2>2
<1>7. row.v = local[c].v /\ row.t = NoTime
  BY DEF row
<1>8. /\ remote'[c] = local[c] /\ \A r \in Paths \ {c} : remote'[r] = remote[r]
  BY <1>1, <1>3, WorldTyped DEF Tree
<1>9. /\ staged'[p] = Nil /\ copyOf'[p] = Nil
      /\ \A r \in Paths \ {p} : staged'[r] = staged[r] /\ copyOf'[r] = Nil /\ copyOf[r] = Nil
  BY <1>1, <1>3 DEF IInv, TypeOK, QInv, FlightIsTodo
<1>10. UNCHANGED <<pc, base, seen, discarded, dismissed>>
  BY <1>1 DEF steady, store, input, history
<1> HIDE DEF c
<1>11. \A q \in Paths : Yields(local[q], local'[q]) /\ Yields(remote[q], remote'[q])
  BY <1>1, <1>4, <1>8 DEF Yields
<1>12. \A q \in todo' : Stands(q)'
  <2>1. \A r \in Paths : /\ plan'[r].op = plan[r].op
                         /\ plan[r].op # "none" => plan'[r] = plan[r]
    BY <1>4, <1>6
  <2>2. ASSUME NEW r \in Paths \ {p}
        PROVE  /\ plan[r].op # "none" => local'[r] = local[r] /\ remote'[r] = remote[r]
               /\ base[r] # Nil => /\ local'[r] = local[r] \/ local'[r] = Nil
                                   /\ remote'[r] = remote[r] \/ remote'[r] = Nil
               /\ staged'[r] = staged[r] /\ copyOf'[r] = copyOf[r]
               /\ copyOf[r] # Nil => remote'[copyOf[r]] = remote[copyOf[r]]
    BY <1>1, <1>4, <1>8, <1>9
  <2>3. plan[p].op # "none"
    BY <1>3
  <2> QED
    BY <1>1, <1>2, <1>5, <2>1, <2>2, <2>3, OthersStand
<1>13. StampsTell'
  <2>1. SizesTell
    BY <1>4 DEF Quiet, Told
  <2>2. Stamped(row)
    BY <1>7, <2>1 DEF Stamped
  <2>3. \A q \in Paths : /\ plan'[q].row # Nil => Stamped(plan'[q].row)
                         /\ plan'[q].op \in {"download", "renameLocal", "conflict"} =>
                               plan'[q].row.t = plan'[q].row.v
    BY <1>4, <1>6, <2>2 DEF QInv, StampsTell
  <2> QED
    BY <1>1, <1>8, <1>9, <1>10, <2>3, <1>3 DEF QInv, StampsTell, Stamped
<1>14. FlightIsTodo'
  BY <1>5, <1>9, <1>10 DEF QInv, FlightIsTodo
<1>15. ASSUME NEW q \in Paths PROVE RowStands(q)' \/ (plan'[q] = plan[q] /\ (q \in done' => q \in done))
  <2>1. CASE q = p
    <3>1. KeptHere(p, plan[p].row.v)' /\ KeptThere(p, plan[p].row.v)'
      BY <1>1, <1>2, <1>4, <1>6, <1>8 DEF KeptHere, KeptThere
    <3>2. plan'[p] = plan[p]
      BY <1>4, <1>6
    <3> QED
      BY <2>1, <3>1, <3>2 DEF RowStands
  <2>2. CASE q = c /\ plan'[c].row = row
    <3>1. local'[c] # Nil /\ remote'[c] # Nil /\ local'[c].v = row.v /\ remote'[c].v = row.v
      BY <1>1, <1>7, <1>8
    <3> QED
      BY <2>2, <3>1 DEF RowStands, KeptHere, KeptThere
  <2>3. CASE q = c /\ plan'[c].row = plan[c].row
    <3>1. plan[q].op \notin Pending /\ plan'[q].op = plan[q].op /\ plan'[q].row = plan[q].row
      BY <1>4, <1>6, <2>3 DEF Pending, Executed, LocalOps, RemoteOps
    <3>2. RowStands(q)
      BY <1>2 DEF QInv, WorkStands, Working
    <3>3. \A v : /\ KeptHere(q, v) => KeptHere(q, v)'
                 /\ KeptThere(q, v) => KeptThere(q, v)'
      BY <1>10, <1>11, YieldingKeeps DEF GivenUp
    <3> QED
      BY <3>1, <3>2, <3>3 DEF RowStands
  <2>4. CASE q \notin {p, c}
    BY <1>5, <1>6, <2>4
  <2> QED
    BY <1>6, <2>1, <2>2, <2>3, <2>4
<1> QED
  BY <1>1, <1>2, <1>5, <1>11, <1>12, <1>13, <1>14, <1>15, OperationIsQuiet

LEMMA OperationsAreQuiet ==
  ASSUME IInv, IInv', QInv, Quiet, NEW p \in Paths, Op(p)
  PROVE  QInv' /\ Retired \subseteq GivenUp'
  BY UploadIsQuiet, DeletionIsQuiet, RenamingIsQuiet, ConflictAsideIsQuiet, FetchIsQuiet,
     InstallCheckIsQuiet, InstallRenameIsQuiet, ConflictUploadIsQuiet, OpFailsIsQuiet DEF Op

\* When the run ends, nothing is in flight.
LEMMA DrainedMeans ==
  ASSUME QInv, Drained PROVE InFlight = {}
  BY DEF QInv, FlightIsTodo, Drained, InFlight

\* The rows committed are those the plan stands on.
LEMMA CommitIsQuiet ==
  ASSUME QInv, Commit PROVE QInv'
<1>1. /\ pc = "apply" /\ pc' = "retry" /\ InFlight = {}
      /\ UNCHANGED <<local, remote, plan, todo, done, copyOf, staged, discarded, dismissed>>
      /\ \A p \in Paths : base'[p] = Nil \/ base'[p] = base[p]
                          \/ (Confirmed(p) /\ base'[p] = plan[p].row)
  BY DrainedMeans DEF Commit, world, work
<1>2. GivenUp' = GivenUp
  BY <1>1 DEF GivenUp
<1>3. \A p \in Paths : \A v : (KeptHere(p, v)' <=> KeptHere(p, v)) /\ (KeptThere(p, v)' <=> KeptThere(p, v))
  BY <1>1, <1>2 DEF KeptHere, KeptThere
<1>4. \A p \in Paths : RowStands(p)
  BY <1>1 DEF QInv, WorkStands, Working
<1>5. RowsAreKept'
  BY <1>1, <1>3, <1>4 DEF QInv, RowsAreKept, RowStands, Confirmed
<1>6. StampsTell'
  <2>1. \A p \in Paths : base'[p] # Nil => Stamped(base'[p])
    BY <1>1 DEF QInv, StampsTell, Confirmed
  <2> QED
    BY <1>1, <2>1 DEF QInv, StampsTell, Stamped
<1>7. WorkStands' /\ ScanStands'
  <2>1. \A p \in Paths : RowStands(p)'
    BY <1>1, <1>3, <1>4 DEF RowStands
  <2> QED
    BY <1>1, <2>1 DEF WorkStands, ScanStands, InRun
<1>8. FlightIsTodo'
  BY <1>1, NothingStaged DEF QInv, FlightIsTodo
<1> QED
  BY <1>5, <1>6, <1>7, <1>8 DEF QInv

\* Where both trees stay as they are nothing retires.
LEMMA NothingRetires ==
  ASSUME UNCHANGED <<local, remote>> PROVE Retired \subseteq GivenUp'
  BY DEF Retired, Live, Contents

LEMMA RunIsQuiet ==
  ASSUME IInv, IInv', QInv, Quiet, Engine PROVE QInv' /\ Retired \subseteq GivenUp'
<1>1. CASE Begin
  BY <1>1, BeginIsQuiet
<1>2. CASE List
  <2>1. CASE ListFails
    BY <2>1, ResetIsQuiet, NothingRetires DEF ListFails, world, store, history
  <2>2. CASE Plan({}, FALSE)
    BY <2>2, PlanIsQuiet
  <2> QED
    BY <1>2, <2>1, <2>2, ListIsWhole
<1>3. CASE EnsureBase
  BY <1>3, WaitingIsQuiet, NothingRetires DEF EnsureBase, world, store, input, work, history
<1>4. CASE EnsureBaseFails
  BY <1>4, ResetIsQuiet, NothingRetires DEF EnsureBaseFails, world, store, history
<1>5. CASE Commit
  BY <1>5, CommitIsQuiet, NothingRetires DEF Commit, world
<1>6. CASE CommitFails
  BY <1>6, DrainedMeans, WaitingIsQuiet, NothingRetires DEF CommitFails, world, store, input, work, history
<1>7. CASE SaveRetries
  BY <1>7, ResetIsQuiet, NothingRetires DEF SaveRetries, world, history
<1>8. ASSUME NEW p \in Paths, Op(p) PROVE QInv' /\ Retired \subseteq GivenUp'
  BY <1>8, OperationsAreQuiet
<1> QED
  BY <1>1, <1>2, <1>3, <1>4, <1>5, <1>6, <1>7, <1>8 DEF Engine, Apply, Finish

LEMMA EnvironmentIsQuiet ==
  ASSUME IInv, QInv, Quiet, Environment PROVE QInv' /\ (pc # "idle" => Retired \subseteq GivenUp')
<1>1. CASE Cancel
  BY <1>1, WaitingIsQuiet, NothingRetires DEF Cancel, world, store, input, work, history
<1>2. CASE Crash
  BY <1>2, ResetIsQuiet, NothingRetires DEF Crash, world, store, history
<1>3. ASSUME NEW p \in Paths, BackoffElapses(p) \/ ToggleExclude(p) PROVE QInv'
  <2>1. pc = "idle"
    BY <1>3 DEF BackoffElapses, ToggleExclude
  <2> QED
    BY <1>3, <2>1, WaitingIsQuiet DEF BackoffElapses, ToggleExclude, world, store, input, work, history
<1>4. ASSUME NEW p \in Paths, BackoffElapses(p) \/ ToggleExclude(p) PROVE pc = "idle"
  BY <1>4 DEF BackoffElapses, ToggleExclude
<1>5. ASSUME NEW p \in Paths,
             \/ LocalEdit(p) \/ LocalDeletes(p) \/ LocalRestore(p)
             \/ RemoteEdit(p) \/ RemoteDeletes(p) \/ RemoteRestore(p)
      PROVE  QInv' /\ pc = "idle"
  BY <1>5, MoveIsQuiet
<1>6. \A p, q \in Paths : ~LocalRename(p, q) /\ ~RemoteRename(p, q)
  BY DEF Quiet, LocalRename, RemoteRename, LocalFree, RemoteFree
<1> QED
  BY <1>1, <1>2, <1>3, <1>4, <1>5, <1>6 DEF Environment

LEMMA StepIsQuiet ==
  ASSUME IInv, IInv', QInv, Quiet, [Next]_vars
  PROVE  QInv' /\ (pc # "idle" => Retired \subseteq discarded' \cup dismissed')
<1>1. GivenUp' = discarded' \cup dismissed'
  BY DEF GivenUp
<1>2. CASE Engine
  BY <1>1, <1>2, RunIsQuiet
<1>3. CASE Environment
  BY <1>1, <1>3, EnvironmentIsQuiet
<1>4. CASE UNCHANGED vars
  BY <1>1, <1>4, WaitingIsQuiet, NothingRetires DEF vars, world, store, input, work, history
<1> QED
  BY <1>2, <1>3, <1>4 DEF Next

\* As long as nobody moves anything while a run is in flight, and every scan sees what is there
\* or says that it did not, a run takes the last copy in the two trees only of a version whose
\* author replaced it or that somebody deleted, whatever fails, is cancelled or is killed.
THEOREM NothingRetiresUnasked == ASSUME Quiet PROVE Spec => OnlyDismissedRetire
<1>1. Init => QInv
  BY InitIsQuiet
<1>2. IInv /\ IInv' /\ QInv /\ [Next]_vars =>
         QInv' /\ (pc # "idle" => Retired \subseteq discarded' \cup dismissed')
  BY StepIsQuiet
<1>3. IInv /\ IInv' /\ QInv /\ [Next]_vars =>
         QInv' /\ [pc # "idle" => Retired \subseteq discarded' \cup dismissed']_vars
  BY <1>2
<1> QED
  BY <1>1, <1>3, Invariance, PTL DEF Spec, OnlyDismissedRetire

\* Operations end during runs.
LEMMA EndedDuringRuns ==
  ASSUME IInv, [Next]_vars, NEW p \in Paths, p \in Ended' \ Ended PROVE pc # "idle"
<1>1. Ended' # Ended /\ ~Reset
  BY DEF Reset, Ended
<1>2. \E q \in Paths : Op(q)
  BY <1>1 DEF vars, Next, Engine, Environment, Begin, List, Apply, Finish, ScanLocal, ScanLocalBlind,
         ScanLocalCarried, ScanEmptyRoot, Scan, ListAndPlan, ListPartly, ListRootMissing,
         ListFails, Plan, EnsureBase, EnsureBaseFails, Commit, CommitFails, SaveRetries,
         Cancel, Crash, BackoffElapses, ToggleExclude, LocalEdit, LocalDeletes, LocalRestore,
         LocalRename, RemoteEdit, RemoteDeletes, RemoteRestore, RemoteRename, localMove,
         remoteMove, work, Ended
<1>3. PICK q \in Paths : Op(q)
  BY <1>2
<1>4. \/ pc = "apply" \/ staged[q] # Nil \/ copyOf[q] # Nil
  BY <1>3 DEF Op, Upload, DeleteRemote, DeleteLocal, RenameRemote, RenameLocal, ConflictAside,
              Fetch, InstallCheck, InstallRename, ConflictUpload, OpFails, At, Running, Takes,
              MayFetch, InFlight
<1> QED
  BY <1>4, InFlightWhen

\* In particular an upload then never replaces an edit made on the other side that the run has
\* not seen: what is broken by a remote folder that could not be listed (the run pair_unlisted)
\* holds when every folder was.
THEOREM UploadsReplaceNothingUnseen == ASSUME Quiet PROVE Spec => UploadsKeepRemoteEdits
<1>1. /\ IInv /\ [Next]_vars
      /\ [pc # "idle" => Retired \subseteq discarded' \cup dismissed']_vars
      => [\A p \in Paths : Completes(p, "upload") =>
             Contents(remote, p) \subseteq Live' \cup discarded' \cup dismissed']_vars
  <2> SUFFICES ASSUME IInv, [Next]_vars, NEW p \in Paths, Completes(p, "upload"),
                      pc # "idle" => Retired \subseteq discarded' \cup dismissed'
               PROVE  Contents(remote, p) \subseteq Live' \cup discarded' \cup dismissed'
    BY DEF vars
  <2>1. pc # "idle"
    BY EndedDuringRuns DEF Completes
  <2>2. Contents(remote, p) \subseteq Live
    BY DEF Live
  <2> QED
    BY <2>1, <2>2 DEF Retired
<1> QED
  BY <1>1, NothingRetiresUnasked, Invariance, PTL DEF Spec, OnlyDismissedRetire, UploadsKeepRemoteEdits
=============================================================================
