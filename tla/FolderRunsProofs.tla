-------------------------- MODULE FolderRunsProofs --------------------------
(***************************************************************************)
(* The folder-by-folder runs implement the delete budget, for any tree and *)
(* any number of threads; so what is proved of the budget holds of them.   *)
(***************************************************************************)
EXTENDS FolderRuns, DeleteBudgetProofs, FiniteSetTheorems

-----------------------------------------------------------------------------
(* The tree of folders.                                                      *)

\* What the proofs use of the constants.
LEMMA TreeConstants ==
    /\ Files \subseteq Items /\ Dirs \subseteq Items /\ Items = Files \cup Dirs
    /\ Files \cap Dirs = {} /\ Root \notin Items
    /\ Parent \in [Items -> Folders] /\ Folders = Dirs \cup {Root}
    /\ IsFiniteSet(Files) /\ IsFiniteSet(Dirs)
    /\ \A d \in Dirs : d \notin Above[d]
<1>1. IsFiniteSet(Items)
  BY FolderRunsAssumption
<1>2. IsFiniteSet(Files) /\ IsFiniteSet(Dirs)
  BY <1>1, FS_Subset DEF Items
<1> QED
  BY <1>2, FolderRunsAssumption DEF Items, Folders

\* Above[x] is the least set of folders that climbs from x to the root.
LEMMA AboveIsLeast ==
    ASSUME NEW x \in Items
    PROVE  /\ Above[x] \subseteq Dirs /\ Climbs(Above[x], x)
           /\ \A S \in SUBSET Dirs : Climbs(S, x) => Above[x] \subseteq S
<1>1. Above[x] = {d \in Dirs : \A S \in SUBSET Dirs : Climbs(S, x) => d \in S}
  BY DEF Above
<1>2. Above[x] \subseteq Dirs
  BY <1>1
<1>3. ASSUME NEW y \in Above[x] \cup {x} PROVE Parent[y] \in Above[x] \cup {Root}
  <2>1. y \in Items /\ Parent[y] \in Dirs \cup {Root}
    BY <1>2, <1>3, TreeConstants
  <2>2. ASSUME NEW S \in SUBSET Dirs, Climbs(S, x) PROVE Parent[y] \in S \cup {Root}
    <3>1. y \in S \cup {x}
      BY <1>1, <1>3, <2>2
    <3> QED
      BY <2>2, <3>1 DEF Climbs
  <2> QED
    BY <1>1, <2>1, <2>2
<1>4. Climbs(Above[x], x)
  BY <1>3 DEF Climbs
<1>5. \A S \in SUBSET Dirs : Climbs(S, x) => Above[x] \subseteq S
  BY <1>1
<1> QED
  BY <1>2, <1>4, <1>5

\* A folder a path is in is in no folder the path is not in.
LEMMA AboveIsTransitive ==
    ASSUME NEW x \in Items, NEW d \in Above[x]
    PROVE  d \in Dirs /\ d \in Items /\ Above[d] \subseteq Above[x] /\ d # x
<1>1. d \in Dirs /\ d \in Items /\ Climbs(Above[x], x) /\ Above[x] \subseteq Dirs
  BY AboveIsLeast, TreeConstants
<1>2. Climbs(Above[x], d)
  BY <1>1 DEF Climbs
<1>3. d # x
  BY TreeConstants, <1>1
<1> QED
  BY <1>1, <1>2, <1>3, AboveIsLeast

\* The folders a path is in: its parent, and those its parent is in.
LEMMA AboveStep ==
    ASSUME NEW x \in Items
    PROVE  /\ Parent[x] \in Folders
           /\ Parent[x] = Root => Above[x] = {}
           /\ Parent[x] # Root => /\ Parent[x] \in Dirs
                                  /\ Above[x] = {Parent[x]} \cup Above[Parent[x]]
<1>1. Parent[x] \in Folders
  BY TreeConstants
<1>2. ASSUME Parent[x] = Root PROVE Above[x] = {}
  <2>1. Climbs({}, x)
    BY <1>2 DEF Climbs
  <2> QED
    BY <2>1, AboveIsLeast
<1>3. ASSUME Parent[x] # Root PROVE Above[x] = {Parent[x]} \cup Above[Parent[x]]
  <2> DEFINE P == Parent[x]
  <2>1. P \in Dirs /\ P \in Items
    BY <1>1, <1>3, TreeConstants
  <2>2. P \in Above[x]
    BY <1>3, AboveIsLeast DEF Climbs
  <2>3. Above[P] \subseteq Above[x]
    BY <2>2, AboveIsTransitive
  <2>4. Climbs(Above[P], P) /\ Above[P] \subseteq Dirs
    BY <2>1, AboveIsLeast
  <2>5. Climbs({P} \cup Above[P], x)
    BY <2>4 DEF Climbs
  <2>6. Above[x] \subseteq {P} \cup Above[P]
    BY <2>1, <2>4, <2>5, AboveIsLeast
  <2> QED
    BY <2>2, <2>3, <2>6
<1> QED
  BY <1>1, <1>2, <1>3, TreeConstants

\* The folders a path is in are in one another.
LEMMA AboveIsChain ==
    ASSUME NEW x \in Items, NEW d \in Above[x], NEW e \in Above[x]
    PROVE  d = e \/ d \in Above[e] \/ e \in Above[d]
<1> DEFINE S == {y \in Above[x] : d = y \/ d \in Above[y] \/ y \in Above[d]}
<1>1. Above[x] \subseteq Dirs /\ Climbs(Above[x], x)
  BY AboveIsLeast
<1>2. ASSUME NEW y \in S \cup {x} PROVE Parent[y] \in S \cup {Root}
  <2> SUFFICES ASSUME Parent[y] # Root PROVE Parent[y] \in S
    OBVIOUS
  <2> DEFINE P == Parent[y]
  <2>1. y \in Items /\ y \in Above[x] \cup {x}
    BY <1>1, TreeConstants
  <2>2. P \in Above[x]
    BY <1>1, <2>1 DEF Climbs
  <2>3. Above[y] = {P} \cup Above[P]
    BY <2>1, AboveStep
  <2>4. CASE y = x
    BY <2>2, <2>3, <2>4
  <2>5. CASE y \in S
    <3>1. CASE d = y
      BY <2>2, <2>3, <3>1
    <3>2. CASE d \in Above[y]
      BY <2>2, <2>3, <3>2
    <3>3. CASE y \in Above[d]
      <4>1. Above[y] \subseteq Above[d]
        BY <1>1, <3>3, AboveIsTransitive, TreeConstants
      <4> QED
        BY <2>2, <2>3, <4>1
    <3> QED
      BY <2>5, <3>1, <3>2, <3>3
  <2> QED
    BY <2>4, <2>5
<1>3. Climbs(S, x) /\ S \in SUBSET Dirs
  BY <1>1, <1>2 DEF Climbs
<1>4. Above[x] \subseteq S
  BY <1>3, AboveIsLeast
<1> QED
  BY <1>4

\* What is in a folder that is left out is left out.
LEMMA ExcludedBelow ==
    ASSUME NEW x \in Items, NEW d \in Above[x], NEW ex, Excluded(d, ex)
    PROVE  Excluded(x, ex)
<1>1. d \in Items /\ Above[d] \subseteq Above[x]
  BY AboveIsTransitive
<1> QED
  BY <1>1 DEF Excluded

\* A folder with nothing left out around it or in it has nothing in it that is left out.
LEMMA NothingExcludedInside ==
    ASSUME NEW d \in Dirs, NEW ex, ~Excluded(d, ex), Under(d) \cap ex = {},
           NEW x \in Subtree(d)
    PROVE  ~Excluded(x, ex)
<1>1. CASE x = d
  BY <1>1
<1>2. CASE x \in Under(d)
  <2>1. x \in Items /\ d \in Above[x] /\ d \in Items
    BY <1>2, TreeConstants DEF Under
  <2>2. x \notin ex
    BY <1>2
  <2>3. ASSUME NEW e \in Above[x] \cap ex PROVE FALSE
    <3>1. e \in Items
      BY <2>1, <2>3, AboveIsTransitive
    <3>2. e = d \/ e \in Above[d] \/ d \in Above[e]
      BY <2>1, <2>3, AboveIsChain
    <3> QED
      BY <2>1, <2>3, <3>1, <3>2 DEF Excluded, Under
  <2> QED
    BY <2>2, <2>3 DEF Excluded
<1> QED
  BY <1>1, <1>2 DEF Subtree

-----------------------------------------------------------------------------
(* The delete budget.                                                        *)

\* One folder's plan asks for no more files than there are on the two sides.
LEMMA AskIsBounded ==
    ASSUME NEW P, NEW rec
    PROVE  Cardinality(PlannedDeletes(P, rec)) \in 0..MaxAsk
<1>1. IsFiniteSet(Files)
  <2>1. IsFiniteSet(Items)
    BY FolderRunsAssumption DEF FolderRunsAssumption
  <2> QED
    BY <2>1, FS_Subset DEF Items
<1>2. Cardinality(Files) \in Nat
  BY <1>1, FS_CardinalityType
<1>3. IsFiniteSet(Sides) /\ Cardinality(Sides) = 2
  <2>1. IsFiniteSet({"here"}) /\ Cardinality({"here"}) = 1
    BY FS_Singleton
  <2>2. "there" \notin {"here"} /\ Sides = {"here"} \cup {"there"}
    BY DEF Sides
  <2> QED
    BY <2>1, <2>2, FS_AddElement
<1>4. IsFiniteSet(Sides \X Files) /\ Cardinality(Sides \X Files) = 2 * Cardinality(Files)
  BY <1>1, <1>3, FS_Product
<1>5. PlannedDeletes(P, rec) \subseteq Sides \X Files
  <2>1. ASSUME NEW op PROVE ToDelete(P, op, rec) \subseteq Files
    <3>1. \A d : Within(rec, d) \subseteq Files
      BY DEF Within
    <3>2. UNION {Within(rec, d) : d \in {x \in Dirs : P[x].op = op}} \subseteq Files
      BY <3>1
    <3> QED
      BY <3>2 DEF ToDelete
  <2>2. /\ ToDelete(P, "deleteLocal", rec) \subseteq Files
        /\ ToDelete(P, "deleteRemote", rec) \subseteq Files
    BY <2>1
  <2> QED
    BY <2>2 DEF PlannedDeletes, Sides
<1>6. /\ IsFiniteSet(PlannedDeletes(P, rec))
      /\ Cardinality(PlannedDeletes(P, rec)) <= Cardinality(Sides \X Files)
  BY <1>4, <1>5, FS_Subset
<1>7. Cardinality(PlannedDeletes(P, rec)) \in Nat
  BY <1>6, FS_CardinalityType
<1>8. MaxAsk \in Nat /\ MaxAsk >= 2 * Cardinality(Files)
  BY BudgetAssumption, FolderRunsAssumption
<1> QED
  BY <1>2, <1>4, <1>6, <1>7, <1>8

LEMMA BeginMakesABudget ==
    ASSUME NEW r \in Runs, NEW missing \in Nat, New(r, missing)
    PROVE  BudgetNext
<1>1. CASE missing > Allowed
  <2>1. (missing > Allowed) = (Allowed + 1 > Allowed)
    BY <1>1, BudgetAssumption
  <2>2. New(r, Allowed + 1)
    BY <2>1, Zenon DEF New
  <2> QED
    BY <2>2 DEF BudgetNext
<1>2. CASE ~(missing > Allowed)
  <2>1. (missing > Allowed) = (0 > Allowed)
    BY <1>2, BudgetAssumption
  <2>2. New(r, 0)
    BY <2>1, Zenon DEF New
  <2> QED
    BY <2>2 DEF BudgetNext
<1> QED
  BY <1>1, <1>2

\* A census counts files.
LEMMA MissingIsNat == Missing \in Nat
<1>1. IsFiniteSet(Files)
  <2>1. IsFiniteSet(Items)
    BY FolderRunsAssumption
  <2> QED
    BY <2>1, FS_Subset DEF Items
<1>2. ASSUME NEW t, NEW ex PROVE Tracked(t, ex) \in Nat
  <2>1. {g \in Filed(t) : ~Excluded(g, ex)} \subseteq Files
    BY DEF Filed
  <2> QED
    BY <1>1, <2>1, FS_Subset, FS_CardinalityType DEF Tracked
<1> DEFINE here == Tracked(tree["here"], excludes)
           known == Tracked(rows, excludes)
<1>3. here \in Nat /\ known \in Nat
  BY <1>2
<1>4. Missing = IF known > here THEN known - here ELSE 0
  BY DEF Missing
<1> HIDE DEF here, known
<1> QED
  BY <1>3, <1>4

\* Planning a folder asks the budget once, or leaves it alone.
LEMMA PlanningAsks ==
    ASSUME NEW w \in Workers, NEW there, NEW listed, PlanFolder(w, there, listed)
    PROVE  BudgetNext \/ UNCHANGED budget
<1> DEFINE D == Decided(w, there)
           P == IF SeenWhole(w, listed) THEN D ELSE Without(D)
           asked == Cardinality(PlannedDeletes(P, snap[RunOf[w]]))
<1>1. (asked > 0 /\ Reserve(w, asked)) \/ UNCHANGED budget
  BY DEF PlanFolder
<1>2. asked \in 0..MaxAsk
  BY AskIsBounded
<1> HIDE DEF asked
<1>3. asked > 0 => asked \in 1..MaxAsk
  BY <1>2, BudgetAssumption
<1> QED
  BY <1>1, <1>3 DEF BudgetNext

LEMMA ThreadsShareTheBudget ==
    ASSUME NEW w \in Workers, Thread(w)
    PROVE  BudgetNext \/ UNCHANGED budget
<1>1. CASE TakeFolder(w) \/ ReadLocal(w) \/ ReadLocalBlind(w)
  BY <1>1 DEF TakeFolder, ReadLocal, ReadLocalBlind
<1>2. CASE ListRemote(w) \/ ListRemoteFails(w)
  BY <1>2, PlanningAsks DEF ListRemote, ListRemoteFails
<1>3. CASE InReserve(w)
  BY <1>3 DEF InReserve, BudgetNext
<1>4. CASE Granted(w) \/ HeldBack(w) \/ RemoveFolder(w) \/ Commit(w) \/ Purge(w)
  BY <1>4 DEF Granted, HeldBack, RemoveFolder, Commit, Purge
<1>5. ASSUME NEW d \in Dirs, MakeFolder(w, d) \/ CheckFolder(w, d) \/ KeepFolder(w, d)
      PROVE  UNCHANGED budget
  BY <1>5 DEF MakeFolder, CheckFolder, KeepFolder
<1>6. ASSUME NEW g \in Files, Upload(w, g) \/ Download(w, g) \/ DeleteFile(w, g)
      PROVE  UNCHANGED budget
  BY <1>6 DEF Upload, Download, DeleteFile
<1>7. ASSUME NEW x \in Items, OpFails(w, x) PROVE UNCHANGED budget
  BY <1>7 DEF OpFails
<1> QED
  BY <1>1, <1>2, <1>3, <1>4, <1>5, <1>6, <1>7 DEF Thread

LEMMA EveryStepIsABudgetStep == [Next]_vars => [BudgetNext]_budget
<1> SUFFICES ASSUME [Next]_vars PROVE BudgetNext \/ UNCHANGED budget
  OBVIOUS
<1>1. CASE UNCHANGED vars
  BY <1>1 DEF vars
<1>2. CASE StartWalk
  <2>1. "walk" \in Runs
    BY FolderRunsAssumption
  <2>2. PICK missing \in {Missing, 0} : New("walk", missing)
    BY <1>2 DEF StartWalk, Begin
  <2>3. missing \in Nat
    BY <2>2, MissingIsNat
  <2> QED
    BY <2>1, <2>2, <2>3, BeginMakesABudget
<1>3. CASE StartBurst
  <2>1. "burst" \in Runs
    BY FolderRunsAssumption
  <2>2. New("burst", 0)
    BY <1>3 DEF StartBurst, Begin
  <2> QED
    BY <2>1, <2>2, BeginMakesABudget
<1>4. ASSUME NEW r \in Runs, RunStep(r) PROVE UNCHANGED budget
  BY <1>4 DEF RunStep, NextLevel, End
<1>5. ASSUME NEW w \in Workers, Thread(w) PROVE BudgetNext \/ UNCHANGED budget
  BY <1>5, ThreadsShareTheBudget
<1>6. CASE Crash
  BY <1>6 DEF Crash, BudgetNext
<1>7. ASSUME NEW r \in Runs, Cancel(r) PROVE UNCHANGED budget
  BY <1>7 DEF Cancel
<1>8. ASSUME NEW x \in Items, BackoffElapses(x) PROVE UNCHANGED budget
  BY <1>8 DEF BackoffElapses
<1>9. ASSUME NEW side \in Sides, NEW x, Edit(side, x) \/ Restore(side, x) \/ Dismiss(side, x)
      PROVE  UNCHANGED budget
  BY <1>9 DEF Edit, Restore, Dismiss, Drop, Undisturbed
<1>10. ASSUME NEW d \in Dirs, Exclude(d) \/ Include(d) \/ FreeUp(d) PROVE UNCHANGED budget
  BY <1>10 DEF Exclude, Include, FreeUp, Drop, Undisturbed
<1> QED
  BY <1>1, <1>2, <1>3, <1>4, <1>5, <1>6, <1>7, <1>8, <1>9, <1>10 DEF Next, Engine, Environment

\* The runs implement the budget: however the threads of a walk and of a burst take turns,
\* crash, or are cancelled, its requests are those DeleteBudget describes.
THEOREM RunsImplementTheBudget == Spec => BudgetIsShared
<1>1. Init => BudgetInit
  BY DEF Init
<1> QED
  BY <1>1, EveryStepIsABudgetStep, PTL DEF Spec, BudgetIsShared, BudgetSpec

\* So the threads of a run are never granted more files together than it may delete ...
THEOREM RunsStayWithinAllowed == Spec => []WithinAllowed
  BY RunsImplementTheBudget, BudgetIsNeverExceeded, PTL DEF BudgetIsShared

\* ... and once it has tripped every later request is refused.
THEOREM RunsRefuseOnceTripped == Spec => []LateIsRefused
  BY RunsImplementTheBudget, TrippedForTheRestOfTheRun, PTL DEF BudgetIsShared

\* ... and to the run its budget is one that decides every request at a single instant.
THEOREM RunsSeeAnAtomicBudget == Spec => BudgetIsAtomic
  BY RunsImplementTheBudget, TheBudgetIsAtomic, PTL DEF BudgetIsShared

-----------------------------------------------------------------------------
(* What the merge decides for a child of a folder.                           *)

FileEntry(v) == [dir |-> FALSE, v |-> v, t |-> v, h |-> FALSE]
FolderEntry == [dir |-> TRUE, v |-> 1, t |-> NoTime, h |-> FALSE]
FileOrNil(v) == IF v = 0 THEN Nil ELSE FileEntry(v)
FolderOrNil(there) == IF there THEN FolderEntry ELSE Nil

LEMMA SettingConstants ==
    /\ MaxClock \in Nat /\ Versions = 1..MaxClock /\ 1 \in Versions
    /\ C.compare = "size_mtime" /\ C.conflict = "skip" /\ C.propagate \in BOOLEAN
    /\ \A m, n \in Versions : m # n => Size[m] # Size[n]
BY FolderRunsAssumption DEF Settings

LEMMA EntriesAreThere ==
    /\ \A v \in Versions : FileEntry(v) \in Entries /\ FileEntry(v) # Nil
    /\ FolderEntry \in Entries /\ FolderEntry # Nil
<1>1. \A v \in Versions : FileEntry(v) \in Entries
  BY SettingConstants DEF FileEntry, Entries
<1>2. FolderEntry \in Entries
  BY SettingConstants DEF FolderEntry, Entries, NoTime
<1> QED
  BY <1>1, <1>2, NilAssumption

\* A size and a time tell the versions of a file apart.
LEMMA VersionsDiffer ==
    ASSUME NEW m \in Versions, NEW n \in Versions
    PROVE  /\ SameContent(FileEntry(m), FileEntry(n), C.compare) <=> m = n
           /\ SameContent(FolderEntry, FolderEntry, C.compare)
<1>1. m # NoTime /\ n # NoTime
  BY SettingConstants DEF NoTime
<1> QED
  BY <1>1, SettingConstants DEF SameContent, FileEntry, FolderEntry

LEMMA ClassifyFile ==
    ASSUME NEW a \in 0..MaxClock, NEW c \in 0..MaxClock
    PROVE  Classify(FileOrNil(a), FileOrNil(c), C.compare) =
               IF a = 0 THEN IF c = 0 THEN "absent" ELSE "deleted"
               ELSE IF c = 0 THEN "created" ELSE IF a = c THEN "unchanged" ELSE "modified"
<1>1. a # 0 => a \in Versions
  BY SettingConstants
<1>2. c # 0 => c \in Versions
  BY SettingConstants
<1>3. CASE a = 0 /\ c = 0
  BY <1>3 DEF Classify, FileOrNil
<1>4. CASE a # 0 /\ c = 0
  BY <1>1, <1>4, EntriesAreThere DEF Classify, FileOrNil
<1>5. CASE a = 0 /\ c # 0
  BY <1>2, <1>5, EntriesAreThere DEF Classify, FileOrNil
<1>6. CASE a # 0 /\ c # 0
  <2>1. /\ FileEntry(a) # Nil /\ FileEntry(c) # Nil
        /\ SameContent(FileEntry(a), FileEntry(c), C.compare) <=> a = c
    BY <1>1, <1>2, <1>6, EntriesAreThere, VersionsDiffer
  <2> QED
    BY <1>6, <2>1 DEF Classify, FileOrNil
<1> QED
  BY <1>3, <1>4, <1>5, <1>6

\* The verdict on a file, from the version here, the one there, and the one on record.
LEMMA JudgeOfFile ==
    ASSUME NEW a \in 0..MaxClock, NEW b \in 0..MaxClock, NEW c \in 0..MaxClock
    PROVE  LET V == Judge(FileOrNil(a), FileOrNil(b), FileOrNil(c), C) IN
           /\ a = 0 /\ b = 0 => V = Verdict("none", Nil)
           /\ a = b /\ a # 0 => V = Verdict("none", FileEntry(a))
           /\ a # 0 /\ b = 0 => V = IF a # c THEN Verdict("upload", FileEntry(a))
                                    ELSE IF C.propagate THEN Verdict("deleteLocal", Nil)
                                    ELSE Verdict("noop", FileEntry(a))
           /\ a = 0 /\ b # 0 => V = IF b # c THEN Verdict("download", FileEntry(b))
                                    ELSE IF C.propagate THEN Verdict("deleteRemote", Nil)
                                    ELSE Verdict("noop", FileEntry(b))
           /\ a # 0 /\ b # 0 /\ a # b => V = IF a = c THEN Verdict("download", FileEntry(b))
                                             ELSE IF b = c THEN Verdict("upload", FileEntry(a))
                                             ELSE Verdict("skip", Nil)
<1> DEFINE l  == FileOrNil(a)
           r  == FileOrNil(b)
           k  == FileOrNil(c)
           lc == Classify(l, k, C.compare)
           rc == Classify(r, k, C.compare)
           V  == Judge(l, r, k, C)
<1>1. /\ lc = IF a = 0 THEN IF c = 0 THEN "absent" ELSE "deleted"
              ELSE IF c = 0 THEN "created" ELSE IF a = c THEN "unchanged" ELSE "modified"
      /\ rc = IF b = 0 THEN IF c = 0 THEN "absent" ELSE "deleted"
              ELSE IF c = 0 THEN "created" ELSE IF b = c THEN "unchanged" ELSE "modified"
  BY ClassifyFile
<1>2. /\ a # 0 => a \in Versions /\ l = FileEntry(a) /\ l # Nil
      /\ a = 0 => l = Nil
      /\ b # 0 => b \in Versions /\ r = FileEntry(b) /\ r # Nil
      /\ b = 0 => r = Nil
      /\ c # 0 => c \in Versions /\ k = FileEntry(c) /\ k # Nil
      /\ c = 0 => k = Nil
  BY SettingConstants, EntriesAreThere DEF FileOrNil
<1>3. WithDigest(l, r, lc, rc) = l
  BY <1>2 DEF WithDigest, FileEntry
<1>4. ~TypeClash(l, r) /\ ~IsDir(l, r, k)
  <2>1. /\ l # Nil => l.dir = FALSE
        /\ r # Nil => r.dir = FALSE
        /\ k # Nil => k.dir = FALSE
    BY <1>2 DEF FileEntry
  <2> HIDE DEF l, r, k
  <2> QED
    BY <2>1 DEF TypeClash, IsDir, Either
<1>5. V = Decide(lc, rc, l, r, k, C)
  BY <1>3 DEF Judge
<1>6. V = IF lc = "unchanged" /\ rc = "unchanged" THEN Verdict("none", Either(l, r))
          ELSE DecideFile(lc, rc, l, r, C)
  BY <1>4, <1>5 DEF Decide
<1>7. a # 0 /\ b # 0 => (SameContent(l, r, C.compare) <=> a = b)
  BY <1>2, VersionsDiffer
<1>8. a # 0 /\ b # 0 => ~SameDigest(l, r)
  BY <1>2 DEF SameDigest, FileEntry
<1>9. a # 0 /\ b # 0 =>
        BothEdited(l, r, C) = IF a = b THEN Verdict("none", l) ELSE Verdict("skip", Nil)
  BY <1>7, <1>8, SettingConstants DEF BothEdited, EmitConflict
<1> HIDE DEF l, r, k, lc, rc, V
<1> USE DEF DecideFile, Edited, EmitUpload, EmitDownload, EmitDeleteLocal, EmitDeleteRemote, Either
<1>10. a = 0 /\ b = 0 => V = Verdict("none", Nil)
  BY <1>1, <1>2, <1>6
<1>11. a = b /\ a # 0 => V = Verdict("none", FileEntry(a))
  BY <1>1, <1>2, <1>6, <1>9
<1>12. a # 0 /\ b = 0 => V = IF a # c THEN Verdict("upload", FileEntry(a))
                             ELSE IF C.propagate THEN Verdict("deleteLocal", Nil)
                             ELSE Verdict("noop", FileEntry(a))
  BY <1>1, <1>2, <1>6
<1>13. a = 0 /\ b # 0 => V = IF b # c THEN Verdict("download", FileEntry(b))
                             ELSE IF C.propagate THEN Verdict("deleteRemote", Nil)
                             ELSE Verdict("noop", FileEntry(b))
  BY <1>1, <1>2, <1>6
<1>14. a # 0 /\ b # 0 /\ a # b => V = IF a = c THEN Verdict("download", FileEntry(b))
                                      ELSE IF b = c THEN Verdict("upload", FileEntry(a))
                                      ELSE Verdict("skip", Nil)
  BY <1>1, <1>2, <1>6, <1>9
<1> QED
  BY <1>10, <1>11, <1>12, <1>13, <1>14 DEF l, r, k, V

\* The verdict on a folder, from whether it is here, there, and on record.
LEMMA JudgeOfFolder ==
    ASSUME NEW a \in BOOLEAN, NEW b \in BOOLEAN, NEW c \in BOOLEAN
    PROVE  LET V == Judge(FolderOrNil(a), FolderOrNil(b), FolderOrNil(c), C) IN
           /\ ~a /\ ~b => V = Verdict("none", Nil)
           /\ a /\ b => V = Verdict("none", FolderEntry)
           /\ a /\ ~b => V = IF ~c THEN Verdict("mkdirRemote", FolderEntry)
                             ELSE IF C.propagate THEN Verdict("deleteLocal", Nil)
                             ELSE Verdict("none", FolderEntry)
           /\ ~a /\ b => V = IF ~c THEN Verdict("mkdirLocal", FolderEntry)
                             ELSE IF C.propagate THEN Verdict("deleteRemote", Nil)
                             ELSE Verdict("none", FolderEntry)
<1> DEFINE l  == FolderOrNil(a)
           r  == FolderOrNil(b)
           k  == FolderOrNil(c)
           lc == Classify(l, k, C.compare)
           rc == Classify(r, k, C.compare)
           V  == Judge(l, r, k, C)
<1>1. FolderEntry # Nil /\ FolderEntry.dir /\ SameContent(FolderEntry, FolderEntry, C.compare)
  BY EntriesAreThere, VersionsDiffer, SettingConstants DEF FolderEntry
<1>2. /\ lc = IF a THEN IF c THEN "unchanged" ELSE "created"
              ELSE IF c THEN "deleted" ELSE "absent"
      /\ rc = IF b THEN IF c THEN "unchanged" ELSE "created"
              ELSE IF c THEN "deleted" ELSE "absent"
  BY <1>1 DEF Classify, FolderOrNil
<1>3. /\ a => l = FolderEntry
      /\ ~a => l = Nil
      /\ b => r = FolderEntry
      /\ ~b => r = Nil
      /\ c => k = FolderEntry
      /\ ~c => k = Nil
  BY DEF FolderOrNil
<1>4. WithDigest(l, r, lc, rc) = l
  BY <1>1, <1>3 DEF WithDigest
<1>5. ~TypeClash(l, r)
  BY <1>1, <1>3 DEF TypeClash
<1>6. a \/ b \/ c => IsDir(l, r, k)
  BY <1>1, <1>3 DEF IsDir, Either
<1>7. V = Decide(lc, rc, l, r, k, C)
  BY <1>4 DEF Judge
<1> HIDE DEF l, r, k, lc, rc, V
<1>8. ~a /\ ~b /\ ~c => V = Verdict("none", Nil)
  <2> SUFFICES ASSUME ~a, ~b, ~c PROVE V = Verdict("none", Nil)
    OBVIOUS
  <2>1. ~IsDir(l, r, k)
    BY <1>3 DEF IsDir, Either
  <2>2. V = DecideFile("absent", "absent", Nil, Nil, C)
    BY <1>2, <1>3, <1>5, <1>7, <2>1 DEF Decide
  <2> QED
    BY <2>2 DEF DecideFile, Edited, Either
<1>9. a \/ b \/ c =>
        V = IF lc = "unchanged" /\ rc = "unchanged" THEN Verdict("none", Either(l, r))
            ELSE DecideDir(lc, rc, l, r, C)
  BY <1>5, <1>6, <1>7 DEF Decide
<1> USE <1>1, <1>2, <1>3, <1>9 DEF DecideDir, Either
<1>10. ~a /\ ~b => V = Verdict("none", Nil)
  BY <1>8
<1>11. a /\ b => V = Verdict("none", FolderEntry)
  OBVIOUS
<1>12. a /\ ~b => V = IF ~c THEN Verdict("mkdirRemote", FolderEntry)
                      ELSE IF C.propagate THEN Verdict("deleteLocal", Nil)
                      ELSE Verdict("none", FolderEntry)
  OBVIOUS
<1>13. ~a /\ b => V = IF ~c THEN Verdict("mkdirLocal", FolderEntry)
                      ELSE IF C.propagate THEN Verdict("deleteRemote", Nil)
                      ELSE Verdict("none", FolderEntry)
  OBVIOUS
<1> QED
  BY <1>10, <1>11, <1>12, <1>13 DEF l, r, k, V

LEMMA EntryMeans ==
    ASSUME NEW t, NEW x \in Items
    PROVE  /\ x \in Files => EntryAt(t, x) = FileOrNil(t.f[x])
           /\ x \in Dirs => EntryAt(t, x) = FolderOrNil(x \in t.d)
<1>1. x \in Files => x \notin Dirs
  BY TreeConstants
<1> QED
  BY <1>1 DEF EntryAt, FileOrNil, FileEntry, FolderOrNil, FolderEntry

\* Rows that a plan may hold.
Rows == {Nil, FolderEntry} \cup {FileEntry(v) : v \in Versions}
Plans == [op : Ops, row : Rows]

LEMMA RowsAreEntries ==
    /\ Rows \subseteq Entries \cup {Nil}
    /\ \A row \in Rows : row # Nil => row.v \in Versions
    /\ Plans \subseteq [op : Ops, row : Entries \cup {Nil}]
<1>1. Rows \subseteq Entries \cup {Nil}
  BY EntriesAreThere DEF Rows
<1>2. \A row \in Rows : row # Nil => row.v \in Versions
  BY SettingConstants DEF Rows, FileEntry, FolderEntry
<1> QED
  BY <1>1, <1>2 DEF Plans

LEMMA JudgedIsPlan ==
    ASSUME NEW s \in Trees, NEW t \in Trees, NEW rec \in Trees, NEW x \in Items
    PROVE  Judge(EntryAt(s, x), EntryAt(t, x), EntryAt(rec, x), C) \in Plans
<1>1. \A op \in Ops, row \in Rows : Verdict(op, row) \in Plans
  BY DEF Verdict, Plans
<1>2. Nil \in Rows /\ FolderEntry \in Rows /\ \A v \in Versions : FileEntry(v) \in Rows
  BY DEF Rows
<1>3. {"none", "noop", "skip", "upload", "download", "deleteLocal", "deleteRemote",
       "mkdirLocal", "mkdirRemote"} \subseteq Ops
  BY DEF Ops, Deletes, Makes
<1>4. CASE x \in Files
  <2>1. s.f[x] \in 0..MaxClock /\ t.f[x] \in 0..MaxClock /\ rec.f[x] \in 0..MaxClock
    BY <1>4 DEF Trees
  <2>2. \A v \in 0..MaxClock : v # 0 => v \in Versions
    BY SettingConstants
  <2> DEFINE V == Judge(FileOrNil(s.f[x]), FileOrNil(t.f[x]), FileOrNil(rec.f[x]), C)
  <2>3. \/ V = Verdict("none", Nil) \/ V = Verdict("skip", Nil)
        \/ V = Verdict("deleteLocal", Nil) \/ V = Verdict("deleteRemote", Nil)
        \/ \E op \in {"none", "noop", "upload", "download"}, v \in Versions :
               V = Verdict(op, FileEntry(v))
    BY <2>1, <2>2, JudgeOfFile
  <2> HIDE DEF V
  <2>4. V \in Plans
    BY <1>1, <1>2, <1>3, <2>3
  <2> QED
    BY <1>4, <2>4, EntryMeans DEF V
<1>5. CASE x \in Dirs
  <2> DEFINE V == Judge(FolderOrNil(x \in s.d), FolderOrNil(x \in t.d), FolderOrNil(x \in rec.d), C)
  <2>1. (x \in s.d) \in BOOLEAN /\ (x \in t.d) \in BOOLEAN /\ (x \in rec.d) \in BOOLEAN
    OBVIOUS
  <2>2. \/ V = Verdict("none", Nil)
        \/ V = Verdict("deleteLocal", Nil) \/ V = Verdict("deleteRemote", Nil)
        \/ \E op \in {"none", "mkdirLocal", "mkdirRemote"} : V = Verdict(op, FolderEntry)
    BY <2>1, JudgeOfFolder
  <2> HIDE DEF V
  <2>3. V \in Plans
    BY <1>1, <1>2, <1>3, <2>2
  <2> QED
    BY <1>5, <2>3, EntryMeans DEF V
<1> QED
  BY <1>4, <1>5, TreeConstants

-----------------------------------------------------------------------------
(* Typing: the invariant, part by part, and the frames of the actions.        *)

Tasks == {j \in [at : {"free", "local", "remote", "reserve", "apply", "remove", "purge"},
                 folder : Folders, seen : Trees, whole : BOOLEAN, kids : SUBSET Dirs,
                 plan : [Items -> Plans],
                 todo : SUBSET Items, done : SUBSET Items, gone : SUBSET Items,
                 failed : SUBSET Items, doomed : Dirs \cup {Nil}] :
             j.at = "remove" => j.doomed \in Dirs}

OuterTyped == /\ clock \in 0..MaxClock /\ moves \in 0..MaxMoves /\ excludes \subseteq Dirs
              /\ discarded \cup dismissed \cup restored \cup spared \subseteq Versions
WorldTyped == /\ tree \in [Sides -> Trees] /\ trash \in [Sides -> [Files -> 0..MaxClock]]
              /\ OuterTyped
StoreTyped == rows \in Trees /\ backoff \subseteq Items
RunsTyped == /\ on \in [Runs -> BOOLEAN] /\ snap \in [Runs -> Trees]
             /\ skips \in [Runs -> SUBSET Dirs]
             /\ queue \in [Runs -> SUBSET Folders] /\ next \in [Runs -> SUBSET Dirs]
             /\ cancelled \in [Runs -> BOOLEAN]
JobsTyped == job \in [Workers -> Tasks]
TalliesTyped == /\ held \in [Runs -> SUBSET (Sides \X Files)]
                /\ removed \in [Runs -> SUBSET (Sides \X Files)]
                /\ faults \in 0..MaxFaults /\ calm \in BOOLEAN
Typed == WorldTyped /\ StoreTyped /\ RunsTyped /\ JobsTyped /\ TalliesTyped

LEMMA Bounds ==
    /\ MaxFaults \in Nat /\ MaxMoves \in Nat /\ MaxTroubles \in Nat
    /\ Start \in [Files -> 0..MaxClock]
    /\ Cardinality({g \in Files : Start[g] # 0}) \in 0..MaxClock
    /\ Runs = {"walk", "burst"} /\ RunOf \in [Workers -> Runs]
<1>1. {MaxFaults, MaxMoves, MaxTroubles} \subseteq Nat /\ Start \in [Files -> 0..MaxClock]
  BY FolderRunsAssumption
<1>2. Cardinality({g \in Files : Start[g] # 0}) \in Nat
  BY TreeConstants, FS_Subset, FS_CardinalityType
<1>3. Cardinality({g \in Files : Start[g] # 0}) <= MaxClock /\ MaxClock \in Nat
  BY FolderRunsAssumption
<1>4. Runs = {"walk", "burst"} /\ RunOf \in [Workers -> Runs]
  BY FolderRunsAssumption, BudgetAssumption
<1> QED
  BY <1>1, <1>2, <1>3, <1>4

\* The operators on trees make trees.
LEMMA TreesMade ==
    ASSUME NEW t \in Trees
    PROVE  /\ \A g \in Files, v \in 0..MaxClock : Put(t, g, v) \in Trees
           /\ \A d \in Dirs : Made(t, d) \in Trees
           /\ \A gone : Cut(t, gone) \in Trees
           /\ \A folder, ex : Listing(t, folder, ex) \in Trees
<1>1. 0 \in 0..MaxClock
  BY SettingConstants
<1>2. \A x \in Items : Above[x] \subseteq Dirs
  BY AboveIsLeast
<1>3. t.f \in [Files -> 0..MaxClock] /\ t.d \in SUBSET Dirs
  BY DEF Trees
<1>4. \A f \in [Files -> 0..MaxClock], d \in SUBSET Dirs : [f |-> f, d |-> d] \in Trees
  BY DEF Trees
<1>5. ASSUME NEW g \in Files, NEW v \in 0..MaxClock PROVE Put(t, g, v) \in Trees
  <2>1. [t.f EXCEPT ![g] = v] \in [Files -> 0..MaxClock]
    BY <1>3
  <2>2. t.d \cup Above[g] \in SUBSET Dirs
    BY <1>2, <1>3, TreeConstants
  <2> QED
    BY <1>4, <2>1, <2>2 DEF Put
<1>6. ASSUME NEW d \in Dirs PROVE Made(t, d) \in Trees
  <2>1. t.d \cup {d} \cup Above[d] \in SUBSET Dirs
    BY <1>2, <1>3, TreeConstants
  <2> HIDE DEF Trees
  <2>2. Made(t, d) = [f |-> t.f, d |-> t.d \cup {d} \cup Above[d]]
    BY DEF Made, Trees
  <2> QED
    BY <1>3, <1>4, <2>1, <2>2
<1>7. ASSUME NEW gone PROVE Cut(t, gone) \in Trees
  <2>1. [g \in Files |-> IF g \in gone THEN 0 ELSE t.f[g]] \in [Files -> 0..MaxClock]
    BY <1>1, <1>3
  <2>2. t.d \ gone \in SUBSET Dirs
    BY <1>3
  <2> QED
    BY <1>4, <2>1, <2>2 DEF Cut
<1>8. ASSUME NEW folder, NEW ex PROVE Listing(t, folder, ex) \in Trees
  <2>1. [g \in Files |-> IF Parent[g] = folder /\ ~Excluded(g, ex) THEN t.f[g] ELSE 0]
            \in [Files -> 0..MaxClock]
    BY <1>1, <1>3
  <2>2. {d \in t.d : Parent[d] = folder /\ ~Excluded(d, ex)} \in SUBSET Dirs
    BY <1>3
  <2> QED
    BY <1>4, <2>1, <2>2 DEF Listing
<1> QED
  BY <1>5, <1>6, <1>7, <1>8

LEMMA BareIsTree == Bare \in Trees
<1>1. 0 \in 0..MaxClock
  BY SettingConstants
<1> QED
  BY <1>1 DEF Bare, Trees

LEMMA FreeIsTask == Free \in Tasks /\ Free.at = "free"
<1>1. Bare \in Trees /\ Root \in Folders
  BY BareIsTree DEF Folders
<1>2. Verdict("none", Nil) \in Plans
  BY DEF Verdict, Plans, Rows, Ops
<1>3. [x \in Items |-> Verdict("none", Nil)] \in [Items -> Plans]
  BY <1>2
<1> HIDE DEF Verdict
<1> QED
  BY <1>1, <1>3 DEF Free, Tasks

LEMMA WithinIsFiles == \A t, x : Within(t, x) \subseteq Files
BY DEF Within

LEMMA PlannedAreFiles ==
    ASSUME NEW P, NEW rec
    PROVE  PlannedDeletes(P, rec) \subseteq Sides \X Files
<1>1. ASSUME NEW op PROVE ToDelete(P, op, rec) \subseteq Files
  <2>1. UNION {Within(rec, d) : d \in {x \in Dirs : P[x].op = op}} \subseteq Files
    BY WithinIsFiles
  <2> QED
    BY <2>1 DEF ToDelete
<1>2. /\ ToDelete(P, "deleteLocal", rec) \subseteq Files
      /\ ToDelete(P, "deleteRemote", rec) \subseteq Files
  BY <1>1
<1> QED
  BY <1>2 DEF PlannedDeletes, Sides

\* A step that leaves a part alone leaves it typed.
LEMMA TypedFrames ==
    /\ WorldTyped /\ UNCHANGED world => WorldTyped'
    /\ OuterTyped /\ UNCHANGED outer => OuterTyped'
    /\ StoreTyped /\ UNCHANGED store => StoreTyped'
    /\ RunsTyped /\ UNCHANGED runs => RunsTyped'
    /\ JobsTyped /\ UNCHANGED job => JobsTyped'
    /\ TalliesTyped /\ UNCHANGED <<held, removed, faults, calm>> => TalliesTyped'
BY DEF WorldTyped, OuterTyped, StoreTyped, RunsTyped, JobsTyped, TalliesTyped,
       world, outer, past, store, runs

LEMMA FaultTyped ==
    ASSUME NEW kind, Typed, Fault(kind)
    PROVE  faults' \in 0..MaxFaults
BY Bounds DEF Fault, Typed, TalliesTyped

LEMMA JobTyped ==
    ASSUME Typed, NEW w \in Workers, NEW j \in Tasks, Becomes(w, j)
    PROVE  JobsTyped'
BY DEF Typed, JobsTyped, Becomes

LEMMA TaskOf ==
    ASSUME Typed, NEW w \in Workers
    PROVE  /\ job[w] \in Tasks /\ RunOf[w] \in Runs
           /\ snap[RunOf[w]] \in Trees /\ skips[RunOf[w]] \in SUBSET Dirs
           /\ queue[RunOf[w]] \in SUBSET Folders
BY Bounds DEF Typed, JobsTyped, RunsTyped

LEMMA SidesTyped ==
    ASSUME Typed, NEW s \in Sides
    PROVE  tree[s] \in Trees /\ tree[s].f \in [Files -> 0..MaxClock] /\ tree[s].d \in SUBSET Dirs
BY DEF Typed, WorldTyped, Trees

LEMMA GrowTyped ==
    ASSUME Typed, NEW s \in Sides, NEW t \in Trees, Grow(s, t)
    PROVE  tree' \in [Sides -> Trees]
BY DEF Typed, WorldTyped, Grow

LEMMA BinTyped ==
    ASSUME Typed, NEW s \in Sides, NEW files, Bin(s, files)
    PROVE  trash' \in [Sides -> [Files -> 0..MaxClock]]
<1>1. tree[s].f \in [Files -> 0..MaxClock]
  BY SidesTyped
<1> QED
  BY <1>1 DEF Typed, WorldTyped, Bin

LEMMA RemoveTyped ==
    ASSUME Typed, NEW w \in Workers, NEW s \in Sides, NEW x, Remove(w, s, x)
    PROVE  WorldTyped' /\ removed' \in [Runs -> SUBSET (Sides \X Files)]
<1>1. Cut(tree[s], Subtree(x)) \in Trees
  BY SidesTyped, TreesMade
<1>2. tree' \in [Sides -> Trees]
  BY <1>1, GrowTyped DEF Remove
<1>3. trash' \in [Sides -> [Files -> 0..MaxClock]]
  BY BinTyped DEF Remove
<1>4. OuterTyped'
  BY TypedFrames DEF Remove, Typed, WorldTyped
<1>5. removed' \in [Runs -> SUBSET (Sides \X Files)]
  <2>1. {<<s, g>> : g \in Within(tree[s], x)} \subseteq Sides \X Files
    BY WithinIsFiles
  <2> QED
    BY <2>1, Bounds DEF Remove, Typed, TalliesTyped
<1> QED
  BY <1>2, <1>3, <1>4, <1>5 DEF WorldTyped

LEMMA InitTyped == Init => Typed
<1> SUFFICES ASSUME Init PROVE Typed
  OBVIOUS
<1>1. StartTree \in Trees /\ Bare \in Trees /\ 0 \in 0..MaxClock
  BY BareIsTree, Bounds, SettingConstants DEF StartTree, Trees
<1>2. clock \in 0..MaxClock
  BY Bounds DEF Init, Filed, StartTree
<1>3. WorldTyped
  BY <1>1, <1>2, Bounds DEF Init, WorldTyped, OuterTyped
<1>4. StoreTyped
  BY <1>1 DEF Init, StoreTyped
<1>5. RunsTyped
  BY <1>1 DEF Init, RunsTyped
<1>6. JobsTyped
  BY FreeIsTask DEF Init, JobsTyped
<1>7. TalliesTyped
  <2>1. /\ held = [r \in Runs |-> {}] /\ removed = [r \in Runs |-> {}]
        /\ faults = MaxFaults /\ calm = FALSE
    BY DEF Init
  <2>2. /\ held \in [Runs -> SUBSET (Sides \X Files)]
        /\ removed \in [Runs -> SUBSET (Sides \X Files)]
    BY <2>1
  <2>3. faults \in 0..MaxFaults
    BY <2>1, Bounds
  <2>4. calm \in BOOLEAN
    BY <2>1
  <2> QED
    BY <2>2, <2>3, <2>4 DEF TalliesTyped
<1> QED
  BY <1>3, <1>4, <1>5, <1>6, <1>7 DEF Typed

LEMMA BeginTyped ==
    ASSUME Typed, NEW r \in Runs, NEW folders \in SUBSET Folders, NEW missing,
           Begin(r, folders, missing), calm' \in BOOLEAN
    PROVE  Typed'
<1>1. WorldTyped' /\ StoreTyped' /\ JobsTyped'
  BY TypedFrames DEF Typed, Begin
<1>2. RunsTyped'
  BY DEF Typed, Begin, RunsTyped, StoreTyped, WorldTyped, OuterTyped
<1>3. TalliesTyped'
  BY DEF Typed, Begin, TalliesTyped
<1> QED
  BY <1>1, <1>2, <1>3 DEF Typed

LEMMA EndTyped ==
    ASSUME Typed, NEW r \in Runs, End(r)
    PROVE  Typed'
<1>1. StoreTyped' /\ JobsTyped'
  BY TypedFrames DEF Typed, End
<1>2. RunsTyped'
  BY BareIsTree DEF Typed, End, RunsTyped
<1>3. TalliesTyped'
  BY DEF Typed, End, TalliesTyped
<1>4. \A g \in LeftOut(r) : tree["there"].f[g] \in Versions
  BY SidesTyped, SettingConstants DEF LeftOut, Filed, Sides
<1>5. spared' \subseteq Versions
  BY <1>4 DEF End, Typed, WorldTyped, OuterTyped
<1>6. WorldTyped'
  BY <1>5 DEF End, Typed, WorldTyped, OuterTyped
<1> QED
  BY <1>1, <1>2, <1>3, <1>6 DEF Typed

LEMMA NextLevelTyped ==
    ASSUME Typed, NEW r \in Runs, NextLevel(r)
    PROVE  Typed'
<1>1. WorldTyped' /\ StoreTyped' /\ JobsTyped' /\ TalliesTyped'
  BY TypedFrames DEF Typed, NextLevel
<1>2. RunsTyped'
  BY DEF Typed, NextLevel, RunsTyped, Folders
<1> QED
  BY <1>1, <1>2 DEF Typed

LEMMA CancelTyped ==
    ASSUME Typed, NEW r \in Runs, Cancel(r)
    PROVE  Typed'
<1>1. WorldTyped' /\ StoreTyped' /\ JobsTyped'
  BY TypedFrames DEF Typed, Cancel
<1>2. RunsTyped'
  BY DEF Typed, Cancel, RunsTyped
<1>3. TalliesTyped'
  BY FaultTyped DEF Typed, Cancel, TalliesTyped
<1> QED
  BY <1>1, <1>2, <1>3 DEF Typed

LEMMA CrashTyped ==
    ASSUME Typed, Crash
    PROVE  Typed'
<1>1. WorldTyped' /\ StoreTyped'
  BY TypedFrames DEF Typed, Crash
<1>2. RunsTyped'
  BY BareIsTree DEF Crash, RunsTyped
<1>3. JobsTyped'
  BY FreeIsTask DEF Crash, JobsTyped
<1>4. TalliesTyped'
  BY FaultTyped DEF Crash, TalliesTyped
<1> QED
  BY <1>1, <1>2, <1>3, <1>4 DEF Typed

LEMMA BackoffTyped ==
    ASSUME Typed, NEW x, BackoffElapses(x)
    PROVE  Typed'
<1>1. WorldTyped' /\ RunsTyped' /\ JobsTyped'
  BY TypedFrames DEF Typed, BackoffElapses
<1>2. StoreTyped' /\ TalliesTyped'
  BY DEF Typed, BackoffElapses, StoreTyped, TalliesTyped
<1> QED
  BY <1>1, <1>2 DEF Typed

\* What the steps of a thread make of its job are jobs.
LEMMA TaskSteps ==
    ASSUME NEW j \in Tasks
    PROVE  /\ \A folder \in Folders : [j EXCEPT !.at = "local", !.folder = folder] \in Tasks
           /\ \A t \in Trees, b \in BOOLEAN :
                 /\ [j EXCEPT !.at = "remote", !.seen = t, !.whole = b] \in Tasks
                 /\ [j EXCEPT !.at = "remote", !.whole = b, !.seen = t] \in Tasks
           /\ \A at \in {"reserve", "apply"}, kids \in SUBSET Dirs, P \in [Items -> Plans],
                 todo \in SUBSET Items :
                 /\ [j EXCEPT !.at = at, !.kids = kids, !.plan = P, !.todo = todo] \in Tasks
                 /\ [j EXCEPT !.at = at, !.plan = P, !.todo = todo] \in Tasks
           /\ [j EXCEPT !.at = "apply"] \in Tasks /\ [j EXCEPT !.at = "purge"] \in Tasks
           /\ \A todo, done, gone \in SUBSET Items :
                 /\ [j EXCEPT !.at = "apply", !.todo = todo, !.done = done, !.gone = gone] \in Tasks
                 /\ [j EXCEPT !.at = "apply", !.doomed = Nil, !.todo = todo, !.done = done,
                              !.gone = gone] \in Tasks
           /\ \A d \in Dirs : [j EXCEPT !.at = "remove", !.doomed = d] \in Tasks
           /\ \A todo, failed \in SUBSET Items :
                 /\ [j EXCEPT !.todo = todo] \in Tasks
                 /\ [j EXCEPT !.todo = todo, !.failed = failed] \in Tasks
<1> DEFINE Plain == [Items -> Plans]
<1> HIDE DEF Plain
<1>1. Tasks = {k \in [at : {"free", "local", "remote", "reserve", "apply", "remove", "purge"},
                      folder : Folders, seen : Trees, whole : BOOLEAN, kids : SUBSET Dirs,
                      plan : Plain,
                      todo : SUBSET Items, done : SUBSET Items, gone : SUBSET Items,
                      failed : SUBSET Items, doomed : Dirs \cup {Nil}] :
                  k.at = "remove" => k.doomed \in Dirs}
  BY DEF Tasks, Plain
<1>2. \A folder \in Folders : [j EXCEPT !.at = "local", !.folder = folder] \in Tasks
  BY <1>1
<1>3. \A t \in Trees, b \in BOOLEAN :
          /\ [j EXCEPT !.at = "remote", !.seen = t, !.whole = b] \in Tasks
          /\ [j EXCEPT !.at = "remote", !.whole = b, !.seen = t] \in Tasks
  BY <1>1
<1>4. \A at \in {"reserve", "apply"}, kids \in SUBSET Dirs, P \in Plain, todo \in SUBSET Items :
          /\ [j EXCEPT !.at = at, !.kids = kids, !.plan = P, !.todo = todo] \in Tasks
          /\ [j EXCEPT !.at = at, !.plan = P, !.todo = todo] \in Tasks
  BY <1>1
<1>5. [j EXCEPT !.at = "apply"] \in Tasks /\ [j EXCEPT !.at = "purge"] \in Tasks
  BY <1>1
<1>6. \A todo, done, gone \in SUBSET Items :
          [j EXCEPT !.at = "apply", !.todo = todo, !.done = done, !.gone = gone] \in Tasks
  BY <1>1
<1>7. \A todo, done, gone \in SUBSET Items :
          [j EXCEPT !.at = "apply", !.doomed = Nil, !.todo = todo, !.done = done,
                    !.gone = gone] \in Tasks
  BY <1>1
<1>8. \A d \in Dirs : [j EXCEPT !.at = "remove", !.doomed = d] \in Tasks
  BY <1>1
<1>9. \A todo, failed \in SUBSET Items :
          /\ [j EXCEPT !.todo = todo] \in Tasks
          /\ [j EXCEPT !.todo = todo, !.failed = failed] \in Tasks
  BY <1>1
<1> QED
  BY <1>2, <1>3, <1>4, <1>5, <1>6, <1>7, <1>8, <1>9 DEF Plain

LEMMA TodoIsItems == \A P : Todo(P) \in SUBSET Items
BY DEF Todo

LEMMA WithoutIsPlan ==
    ASSUME NEW P \in [Items -> Plans]
    PROVE  Without(P) \in [Items -> Plans]
<1>1. \A x \in Items : Verdict("none", P[x].row) \in Plans
  BY DEF Plans, Verdict, Ops
<1> HIDE DEF Plans, Verdict
<1> QED
  BY <1>1 DEF Without

LEMMA DecidedIsPlan ==
    ASSUME Typed, NEW w \in Workers, NEW there \in Trees
    PROVE  Decided(w, there) \in [Items -> Plans]
<1> DEFINE rec == Listing(snap[RunOf[w]], job[w].folder, skips[RunOf[w]])
<1>1. rec \in Trees /\ job[w].seen \in Trees
  BY TaskOf, TreesMade DEF Tasks
<1>2. Verdict("none", Nil) \in Plans
  BY DEF Verdict, Plans, Rows, Ops
<1> HIDE DEF rec
<1>3. \A x \in Items :
        Judge(EntryAt(job[w].seen, x), EntryAt(there, x), EntryAt(rec, x), C) \in Plans
  BY <1>1, JudgedIsPlan
<1> HIDE DEF Plans, Verdict
<1> QED
  BY <1>2, <1>3 DEF Decided, rec

LEMMA TakeFolderTyped ==
    ASSUME Typed, NEW w \in Workers, TakeFolder(w)
    PROVE  Typed'
<1>1. WorldTyped' /\ StoreTyped' /\ TalliesTyped'
  BY TypedFrames DEF Typed, TakeFolder
<1>2. JobsTyped'
  BY TaskOf, TaskSteps, JobTyped, TypedFrames DEF TakeFolder, Typed
<1>3. RunsTyped'
  BY TaskOf DEF TakeFolder, Typed, RunsTyped
<1> QED
  BY <1>1, <1>2, <1>3 DEF Typed

LEMMA ReadsTyped ==
    ASSUME Typed, NEW w \in Workers, ReadLocal(w) \/ ReadLocalBlind(w)
    PROVE  Typed'
<1>1. WorldTyped' /\ StoreTyped' /\ RunsTyped'
  BY TypedFrames DEF Typed, ReadLocal, ReadLocalBlind, quiet
<1>2. \A folder, ex : Listing(tree["here"], folder, ex) \in Trees
  BY SidesTyped, TreesMade DEF Sides
<1>3. \A folder, ex, gone : Cut(Listing(tree["here"], folder, ex), gone) \in Trees
  BY <1>2, TreesMade
<1>4. JobsTyped'
  <2>1. CASE ReadLocal(w)
    BY <2>1, <1>2, TaskOf, TaskSteps, JobTyped DEF ReadLocal
  <2>2. CASE ReadLocalBlind(w)
    BY <2>2, <1>3, BareIsTree, TaskOf, TaskSteps, JobTyped DEF ReadLocalBlind
  <2> QED
    BY <2>1, <2>2
<1>5. TalliesTyped'
  <2>1. CASE ReadLocal(w)
    BY <2>1 DEF Typed, TalliesTyped, ReadLocal, quiet
  <2>2. CASE ReadLocalBlind(w)
    BY <2>2, FaultTyped DEF Typed, TalliesTyped, ReadLocalBlind, quiet
  <2> QED
    BY <2>1, <2>2
<1> QED
  BY <1>1, <1>4, <1>5 DEF Typed

LEMMA PlanTyped ==
    ASSUME Typed, NEW w \in Workers, NEW there \in Trees, NEW listed,
           PlanFolder(w, there, listed), faults' \in 0..MaxFaults, calm' \in BOOLEAN
    PROVE  Typed'
<1>1. WorldTyped' /\ StoreTyped' /\ RunsTyped'
  BY TypedFrames DEF Typed, PlanFolder, quiet
<1>2. TalliesTyped'
  BY DEF Typed, TalliesTyped, PlanFolder, quiet
<1>3. Decided(w, there) \in [Items -> Plans]
  BY DecidedIsPlan
<1>4. Without(Decided(w, there)) \in [Items -> Plans]
  BY <1>3, WithoutIsPlan
<1>5. job[w].seen.d \cup there.d \in SUBSET Dirs
  BY TaskOf DEF Tasks, Trees
<1>6. PICK at \in {"reserve", "apply"}, P \in [Items -> Plans] :
          Becomes(w, [job[w] EXCEPT !.at = at, !.kids = job[w].seen.d \cup there.d,
                                    !.plan = P, !.todo = Todo(P)])
  BY <1>3, <1>4 DEF PlanFolder
<1>7. [job[w] EXCEPT !.at = at, !.kids = job[w].seen.d \cup there.d,
                     !.plan = P, !.todo = Todo(P)] \in Tasks
  BY <1>5, TodoIsItems, TaskOf, TaskSteps
<1>8. JobsTyped'
  BY <1>6, <1>7, JobTyped
<1> QED
  BY <1>1, <1>2, <1>8 DEF Typed

LEMMA ListsTyped ==
    ASSUME Typed, NEW w \in Workers, ListRemote(w) \/ ListRemoteFails(w)
    PROVE  Typed'
<1>1. CASE ListRemote(w)
  <2>1. \A folder, ex : Listing(tree["there"], folder, ex) \in Trees
    BY SidesTyped, TreesMade DEF Sides
  <2>2. faults' \in 0..MaxFaults /\ calm' \in BOOLEAN
    BY <1>1 DEF ListRemote, Typed, TalliesTyped
  <2> QED
    BY <1>1, <2>1, <2>2, PlanTyped DEF ListRemote
<1>2. CASE ListRemoteFails(w)
  <2>1. faults' \in 0..MaxFaults /\ calm' \in BOOLEAN
    BY <1>2, FaultTyped DEF ListRemoteFails, Typed, TalliesTyped
  <2> QED
    BY <1>2, <2>1, BareIsTree, PlanTyped DEF ListRemoteFails
<1> QED
  BY <1>1, <1>2

LEMMA ReservesTyped ==
    ASSUME Typed, NEW w \in Workers, InReserve(w) \/ Granted(w) \/ HeldBack(w)
    PROVE  Typed'
<1>1. CASE InReserve(w)
  BY <1>1, TypedFrames DEF InReserve, Typed, quiet
<1>2. CASE Granted(w)
  <2>1. JobsTyped'
    BY <1>2, TaskOf, TaskSteps, JobTyped DEF Granted
  <2> QED
    BY <1>2, <2>1, TypedFrames DEF Granted, Typed, quiet
<1>3. CASE HeldBack(w)
  <2>1. WorldTyped' /\ StoreTyped' /\ RunsTyped'
    BY <1>3, TypedFrames DEF Typed, HeldBack
  <2>2. Without(job[w].plan) \in [Items -> Plans]
    BY TaskOf, WithoutIsPlan DEF Tasks
  <2>3. JobsTyped'
    BY <1>3, <2>2, TodoIsItems, TaskOf, TaskSteps, JobTyped DEF HeldBack
  <2>4. PlannedDeletes(job[w].plan, snap[RunOf[w]]) \subseteq Sides \X Files
    BY PlannedAreFiles
  <2>5. held' \in [Runs -> SUBSET (Sides \X Files)]
    BY <1>3, <2>4 DEF HeldBack, Typed, TalliesTyped
  <2>6. TalliesTyped'
    BY <1>3, <2>5 DEF HeldBack, Typed, TalliesTyped
  <2> QED
    BY <2>1, <2>3, <2>6 DEF Typed
<1> QED
  BY <1>1, <1>2, <1>3

LEMMA SucceedsTyped ==
    ASSUME Typed, NEW w \in Workers, NEW x \in Items, Succeeds(w, x)
    PROVE  JobsTyped'
<1>1. job[w].todo \ {x} \in SUBSET Items /\ job[w].done \cup {x} \in SUBSET Items
      /\ (IF OpOf(w, x) \in Deletes THEN job[w].gone \cup {x} ELSE job[w].gone) \in SUBSET Items
  BY TaskOf DEF Tasks
<1> QED
  BY <1>1, TaskOf, TaskSteps, JobTyped DEF Succeeds

LEMMA TransfersTyped ==
    ASSUME Typed, NEW w \in Workers,
           \/ \E d \in Dirs : MakeFolder(w, d)
           \/ \E g \in Files : Upload(w, g) \/ Download(w, g) \/ DeleteFile(w, g)
    PROVE  Typed'
<1> USE DEF Sides
<1>1. ASSUME NEW d \in Dirs, MakeFolder(w, d) PROVE Typed'
  <2>1. tree' \in [Sides -> Trees]
    BY <1>1, SidesTyped, TreesMade, GrowTyped DEF MakeFolder
  <2>2. OuterTyped' /\ StoreTyped' /\ RunsTyped' /\ TalliesTyped'
    BY <1>1, TypedFrames DEF MakeFolder, Typed, WorldTyped, quiet
  <2>3. WorldTyped'
    BY <1>1, <2>1, <2>2 DEF MakeFolder, Typed, WorldTyped
  <2>4. JobsTyped'
    BY <1>1, SucceedsTyped, TreeConstants DEF MakeFolder
  <2> QED
    BY <2>2, <2>3, <2>4 DEF Typed
<1>2. ASSUME NEW g \in Files, Upload(w, g) PROVE Typed'
  <2>1. tree' \in [Sides -> Trees]
    BY <1>2, SidesTyped, TreesMade, GrowTyped DEF Upload
  <2>2. trash' \in [Sides -> [Files -> 0..MaxClock]]
    BY <1>2, BinTyped DEF Upload
  <2>3. OuterTyped' /\ StoreTyped' /\ RunsTyped' /\ TalliesTyped'
    BY <1>2, TypedFrames DEF Upload, Typed, WorldTyped, quiet
  <2>4. JobsTyped'
    BY <1>2, SucceedsTyped, TreeConstants DEF Upload
  <2> QED
    BY <2>1, <2>2, <2>3, <2>4 DEF Typed, WorldTyped
<1>3. ASSUME NEW g \in Files, Download(w, g) PROVE Typed'
  <2>1. tree' \in [Sides -> Trees]
    BY <1>3, SidesTyped, TreesMade, GrowTyped DEF Download
  <2>2. OuterTyped' /\ StoreTyped' /\ RunsTyped' /\ TalliesTyped'
    BY <1>3, TypedFrames DEF Download, Typed, WorldTyped, quiet
  <2>3. WorldTyped'
    BY <1>3, <2>1, <2>2 DEF Download, Typed, WorldTyped
  <2>4. JobsTyped'
    BY <1>3, SucceedsTyped, TreeConstants DEF Download
  <2> QED
    BY <2>2, <2>3, <2>4 DEF Typed
<1>4. ASSUME NEW g \in Files, DeleteFile(w, g) PROVE Typed'
  <2>1. PICK op \in Deletes : Remove(w, Side(op), g)
    BY <1>4 DEF DeleteFile
  <2>2. Side(op) \in Sides
    BY DEF Side
  <2>3. WorldTyped' /\ removed' \in [Runs -> SUBSET (Sides \X Files)]
    BY <2>1, <2>2, RemoveTyped
  <2>4. StoreTyped' /\ RunsTyped'
    BY <1>4, TypedFrames DEF DeleteFile, Typed
  <2>5. TalliesTyped'
    BY <1>4, <2>3 DEF DeleteFile, Typed, TalliesTyped
  <2>6. JobsTyped'
    BY <1>4, SucceedsTyped, TreeConstants DEF DeleteFile
  <2> QED
    BY <2>3, <2>4, <2>5, <2>6 DEF Typed
<1> QED
  BY <1>1, <1>2, <1>3, <1>4

LEMMA FoldersTyped ==
    ASSUME Typed, NEW w \in Workers,
           \/ \E d \in Dirs : CheckFolder(w, d) \/ KeepFolder(w, d)
           \/ RemoveFolder(w) \/ \E x \in Items : OpFails(w, x)
    PROVE  Typed'
<1>1. ASSUME NEW d \in Dirs, CheckFolder(w, d) PROVE Typed'
  <2>1. JobsTyped'
    BY <1>1, TaskOf, TaskSteps, JobTyped DEF CheckFolder
  <2> QED
    BY <1>1, <2>1, TypedFrames DEF CheckFolder, Typed, quiet
<1>2. ASSUME NEW d \in Dirs, KeepFolder(w, d) PROVE Typed'
  <2>1. job[w].todo \ {d} \in SUBSET Items
    BY TaskOf DEF Tasks
  <2>2. JobsTyped'
    BY <1>2, <2>1, TaskOf, TaskSteps, JobTyped DEF KeepFolder
  <2>3. WorldTyped' /\ StoreTyped' /\ RunsTyped'
    BY <1>2, TypedFrames DEF KeepFolder, Typed, quiet
  <2>4. TalliesTyped'
    BY <1>2, FaultTyped DEF KeepFolder, Typed, TalliesTyped, quiet
  <2> QED
    BY <2>2, <2>3, <2>4 DEF Typed
<1>3. CASE RemoveFolder(w)
  <2> DEFINE d == job[w].doomed
  <2>1. Side(OpOf(w, d)) \in Sides
    BY DEF Side, Sides
  <2>2. WorldTyped' /\ removed' \in [Runs -> SUBSET (Sides \X Files)]
    BY <1>3, <2>1, RemoveTyped DEF RemoveFolder
  <2>3. StoreTyped' /\ RunsTyped'
    BY <1>3, TypedFrames DEF RemoveFolder, Typed
  <2>4. TalliesTyped'
    BY <1>3, <2>2 DEF RemoveFolder, Typed, TalliesTyped
  <2>5. d \in Dirs /\ d \in Items
    BY <1>3, TaskOf, TreeConstants DEF RemoveFolder, At, Tasks
  <2>6. /\ job[w].todo \ {d} \in SUBSET Items /\ job[w].done \cup {d} \in SUBSET Items
        /\ job[w].gone \cup {d} \in SUBSET Items
    BY <2>5, TaskOf DEF Tasks
  <2>7. JobsTyped'
    BY <1>3, <2>6, TaskOf, TaskSteps, JobTyped DEF RemoveFolder
  <2> QED
    BY <2>2, <2>3, <2>4, <2>7 DEF Typed
<1>4. ASSUME NEW x \in Items, OpFails(w, x) PROVE Typed'
  <2>1. job[w].todo \ {x} \in SUBSET Items /\ job[w].failed \cup {x} \in SUBSET Items
    BY TaskOf DEF Tasks
  <2>2. JobsTyped'
    BY <1>4, <2>1, TaskOf, TaskSteps, JobTyped DEF OpFails
  <2>3. WorldTyped' /\ StoreTyped' /\ RunsTyped'
    BY <1>4, TypedFrames DEF OpFails, Typed, quiet
  <2>4. TalliesTyped'
    BY <1>4, FaultTyped DEF OpFails, Typed, TalliesTyped, quiet
  <2> QED
    BY <2>2, <2>3, <2>4 DEF Typed
<1> QED
  BY <1>1, <1>2, <1>3, <1>4

LEMMA CommitTyped ==
    ASSUME Typed, NEW w \in Workers, Commit(w)
    PROVE  Typed'
<1>1. WorldTyped' /\ RunsTyped' /\ TalliesTyped'
  BY TypedFrames DEF Commit, Typed, quiet
<1>2. JobsTyped'
  BY TaskOf, TaskSteps, JobTyped DEF Commit
<1> DEFINE kept == Cut(rows, job[w].gone \cup Pruned(w))
<1>3. kept \in Trees
  BY TreesMade DEF Typed, StoreTyped
<1> HIDE DEF kept
<1>4. \A x \in Items : job[w].plan[x].row # Nil => job[w].plan[x].row.v \in 0..MaxClock
  <2>1. \A x \in Items : job[w].plan[x].row \in Rows
    BY TaskOf DEF Tasks, Plans
  <2> QED
    BY <2>1, RowsAreEntries, SettingConstants
<1>5. rows' \in Trees
  <2>1. rows' = [f |-> [g \in Files |-> IF Confirmed(w, g) /\ g \notin job[w].gone
                                        THEN job[w].plan[g].row.v ELSE kept.f[g]],
                 d |-> kept.d \cup {d \in Dirs : Confirmed(w, d)}]
    BY DEF Commit, kept
  <2>2. \A g \in Files : Confirmed(w, g) => job[w].plan[g].row.v \in 0..MaxClock
    BY <1>4, TreeConstants DEF Confirmed
  <2>3. [g \in Files |-> IF Confirmed(w, g) /\ g \notin job[w].gone
                         THEN job[w].plan[g].row.v ELSE kept.f[g]] \in [Files -> 0..MaxClock]
    BY <1>3, <2>2 DEF Trees
  <2>4. kept.d \cup {d \in Dirs : Confirmed(w, d)} \in SUBSET Dirs
    BY <1>3 DEF Trees
  <2> QED
    BY <2>1, <2>3, <2>4 DEF Trees
<1>6. backoff' \subseteq Items
  BY TaskOf DEF Commit, Tasks, Typed, StoreTyped
<1> QED
  BY <1>1, <1>2, <1>5, <1>6 DEF Typed, StoreTyped

LEMMA PurgeTyped ==
    ASSUME Typed, NEW w \in Workers, Purge(w)
    PROVE  Typed'
<1>1. WorldTyped' /\ TalliesTyped'
  BY TypedFrames DEF Purge, Typed
<1>2. JobsTyped'
  BY FreeIsTask, JobTyped DEF Purge
<1>3. StoreTyped'
  BY TreesMade DEF Purge, Typed, StoreTyped
<1>4. Kids(w) \subseteq Dirs
  BY TaskOf DEF Kids, Tasks
<1>5. RunsTyped'
  BY <1>4 DEF Purge, Typed, RunsTyped
<1> QED
  BY <1>1, <1>2, <1>3, <1>5 DEF Typed

\* What is left alone while something happens on either side.
LEMMA MoveTyped ==
    ASSUME Typed, UNCHANGED Undisturbed, moves' = moves - 1, moves > 0, calm' = FALSE
    PROVE  /\ StoreTyped' /\ RunsTyped' /\ JobsTyped' /\ TalliesTyped'
           /\ moves' \in 0..MaxMoves
<1>1. moves' \in 0..MaxMoves
  BY Bounds DEF Typed, WorldTyped, OuterTyped
<1>2. StoreTyped' /\ RunsTyped' /\ JobsTyped'
  BY TypedFrames DEF Typed, Undisturbed
<1>3. TalliesTyped'
  BY DEF Typed, TalliesTyped, Undisturbed
<1> QED
  BY <1>1, <1>2, <1>3

\* The versions in a tree were written.
LEMMA VersionsInTrees ==
    ASSUME Typed, NEW s \in Sides
    PROVE  /\ \A g \in Files : {tree[s].f[g]} \ {0} \subseteq Versions
           /\ \A x : {tree[s].f[g] : g \in Within(tree[s], x)} \subseteq Versions
BY SidesTyped, SettingConstants DEF Within

LEMMA DropTyped ==
    ASSUME Typed, NEW s \in Sides, NEW x, Drop(s, x),
           moves' = moves - 1, moves > 0, calm' = FALSE
    PROVE  Typed'
<1>1. StoreTyped' /\ RunsTyped' /\ JobsTyped' /\ TalliesTyped' /\ moves' \in 0..MaxMoves
  BY MoveTyped DEF Drop
<1>2. tree' \in [Sides -> Trees]
  BY SidesTyped, TreesMade, GrowTyped DEF Drop
<1>3. trash' \in [Sides -> [Files -> 0..MaxClock]]
  BY BinTyped DEF Drop
<1> DEFINE gone == {tree[s].f[g] : g \in Within(tree[s], x)}
<1>4. gone \subseteq Versions
  BY VersionsInTrees
<1>5. dismissed' = dismissed \cup gone /\ restored' = restored \ gone
      /\ spared' = spared \ gone /\ discarded' = discarded /\ clock' = clock
      /\ excludes' = excludes
  BY DEF Drop
<1> HIDE DEF gone
<1>6. OuterTyped'
  BY <1>1, <1>4, <1>5 DEF OuterTyped, Typed, WorldTyped
<1> QED
  BY <1>1, <1>2, <1>3, <1>6 DEF Typed, WorldTyped

LEMMA OutsideTyped ==
    ASSUME Typed,
           \/ \E d \in Dirs : Exclude(d) \/ Include(d) \/ FreeUp(d)
           \/ \E side \in Sides : \/ \E g \in Files : Edit(side, g) \/ Restore(side, g)
                                  \/ \E x \in Items : Dismiss(side, x)
    PROVE  Typed'
<1>1. ASSUME NEW d \in Dirs, Exclude(d) \/ Include(d) PROVE Typed'
  <2>1. StoreTyped' /\ RunsTyped' /\ JobsTyped' /\ TalliesTyped' /\ moves' \in 0..MaxMoves
    BY <1>1, MoveTyped DEF Exclude, Include, MayMove
  <2>2. WorldTyped'
    BY <1>1, <2>1 DEF Exclude, Include, Typed, WorldTyped, OuterTyped, past
  <2> QED
    BY <2>1, <2>2 DEF Typed
<1>2. ASSUME NEW d \in Dirs, FreeUp(d) PROVE Typed'
  BY <1>2, DropTyped DEF FreeUp, MayMove, Sides
<1>3. ASSUME NEW side \in Sides, NEW x \in Items, Dismiss(side, x) PROVE Typed'
  BY <1>3, DropTyped DEF Dismiss, MayMove
<1>4. ASSUME NEW side \in Sides, NEW g \in Files, Edit(side, g) PROVE Typed'
  <2>1. StoreTyped' /\ RunsTyped' /\ JobsTyped' /\ TalliesTyped' /\ moves' \in 0..MaxMoves
    BY <1>4, MoveTyped DEF Edit, MayMove
  <2>2. clock + 1 \in 0..MaxClock /\ clock' \in 0..MaxClock
    BY <1>4, SettingConstants DEF Edit, Typed, WorldTyped, OuterTyped
  <2>3. tree' \in [Sides -> Trees]
    BY <1>4, <2>2, SidesTyped, TreesMade, GrowTyped DEF Edit
  <2>4. discarded' \subseteq Versions
    BY <1>4, VersionsInTrees DEF Edit, Typed, WorldTyped, OuterTyped
  <2>5. WorldTyped'
    BY <1>4, <2>1, <2>2, <2>3, <2>4 DEF Edit, Typed, WorldTyped, OuterTyped
  <2> QED
    BY <2>1, <2>5 DEF Typed
<1>5. ASSUME NEW side \in Sides, NEW g \in Files, Restore(side, g) PROVE Typed'
  <2>1. StoreTyped' /\ RunsTyped' /\ JobsTyped' /\ TalliesTyped' /\ moves' \in 0..MaxMoves
    BY <1>5, MoveTyped DEF Restore, MayMove
  <2>2. trash[side][g] \in 0..MaxClock /\ trash[side][g] \in Versions
    BY <1>5, SettingConstants DEF Restore, Typed, WorldTyped
  <2>3. tree' \in [Sides -> Trees]
    BY <1>5, <2>2, SidesTyped, TreesMade, GrowTyped DEF Restore
  <2>4. trash' \in [Sides -> [Files -> 0..MaxClock]]
    BY <1>5, SettingConstants DEF Restore, Typed, WorldTyped
  <2>5. WorldTyped'
    BY <1>5, <2>1, <2>2, <2>3, <2>4 DEF Restore, Typed, WorldTyped, OuterTyped
  <2> QED
    BY <2>1, <2>5 DEF Typed
<1> QED
  BY <1>1, <1>2, <1>3, <1>4, <1>5

LEMMA ThreadTyped ==
    ASSUME Typed, NEW w \in Workers, Thread(w)
    PROVE  Typed'
BY TakeFolderTyped, ReadsTyped, ListsTyped, ReservesTyped, TransfersTyped, FoldersTyped,
   CommitTyped, PurgeTyped DEF Thread

LEMMA NextTyped == Typed /\ [Next]_vars => Typed'
<1> SUFFICES ASSUME Typed, [Next]_vars PROVE Typed'
  OBVIOUS
<1>1. CASE UNCHANGED vars
  BY <1>1, TypedFrames DEF vars, Typed
<1>2. CASE StartWalk \/ StartBurst
  <2>1. AllFree("walk") \in BOOLEAN /\ (\A r \in Runs : on[r] \in BOOLEAN)
    BY DEF Typed, RunsTyped, AllFree
  <2>2. calm' \in BOOLEAN /\ "walk" \in Runs /\ "burst" \in Runs
    BY <1>2, <2>1, Bounds DEF StartWalk, StartBurst
  <2> QED
    BY <1>2, <2>2, BeginTyped DEF StartWalk, StartBurst, Folders
<1>3. ASSUME NEW r \in Runs, RunStep(r) PROVE Typed'
  BY <1>3, NextLevelTyped, EndTyped DEF RunStep
<1>4. ASSUME NEW w \in Workers, Thread(w) PROVE Typed'
  BY <1>4, ThreadTyped
<1>5. CASE Environment
  BY <1>5, CrashTyped, CancelTyped, BackoffTyped, OutsideTyped DEF Environment
<1> QED
  BY <1>1, <1>2, <1>3, <1>4, <1>5 DEF Next, Engine

LEMMA AlwaysTyped == Spec => []Typed
BY InitTyped, NextTyped, PTL DEF Spec

LEMMA TypedIsTypeOK == Typed /\ BudgetTypeOK => TypeOK
<1> SUFFICES ASSUME Typed, BudgetTypeOK PROVE TypeOK
  OBVIOUS
<1>1. Tasks \subseteq Jobs
  <2>1. [Items -> Plans] \subseteq [Items -> [op : Ops, row : Entries \cup {Nil}]]
    BY RowsAreEntries
  <2> QED
    BY <2>1 DEF Tasks, Jobs
<1>2. job \in [Workers -> Jobs]
  BY <1>1 DEF Typed, JobsTyped
<1> QED
  BY <1>2 DEF TypeOK, Typed, WorldTyped, OuterTyped, StoreTyped, RunsTyped, TalliesTyped

\* Every variable of the runs keeps its type, for any tree of folders, any number of threads
\* and of versions: no plan asks for an operation the engine has not got, nor holds a row that
\* the database could not, and the clock the model bounds never passes its bound.
THEOREM FoldersTypeCorrect == Spec => []TypeOK
<1>1. Spec => []BudgetTypeOK
  BY RunsImplementTheBudget, BudgetTypeCorrect, PTL DEF BudgetIsShared
<1> QED
  BY <1>1, AlwaysTyped, TypedIsTypeOK, PTL
=============================================================================
