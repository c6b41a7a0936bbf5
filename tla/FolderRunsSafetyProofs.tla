----------------------- MODULE FolderRunsSafetyProofs -----------------------
(***************************************************************************)
(* What the folder-by-folder runs leave alone, the guard against mass      *)
(* deletions over a whole run, what a folder takes along when it goes, and *)
(* that a walk nothing disturbs leaves both sides alike, for any tree and  *)
(* any number of threads.                                                  *)
(***************************************************************************)
EXTENDS FolderRunsProofs

-----------------------------------------------------------------------------
(* What is in a folder, and folders that have nothing in common.             *)

Beneath(q) == {x \in Items : q = Root \/ q \in Above[x]}
Disjoint(p, q) == Beneath(p) \cap Beneath(q) = {}

LEMMA ChildIsBeneath ==
    ASSUME NEW q \in Folders, NEW x \in Children(q)
    PROVE  /\ x \in Items /\ x \in Beneath(q) /\ Beneath(x) \subseteq Beneath(q)
           /\ Subtree(x) \cap Items \subseteq Beneath(q) /\ Under(x) \subseteq Beneath(q)
           /\ x \notin Beneath(x)
<1>1. x \in Items /\ Parent[x] = q /\ x # Root
  BY TreeConstants DEF Children
<1>2. q # Root => q \in Above[x]
  BY <1>1, AboveStep
<1>3. x \in Beneath(q)
  BY <1>1, <1>2 DEF Beneath
<1>4. ASSUME NEW y \in Items, x \in Above[y] PROVE y \in Beneath(q)
  BY <1>2, <1>4, AboveIsTransitive DEF Beneath
<1>5. x \notin Above[x]
  BY <1>1, AboveIsTransitive
<1> QED
  BY <1>1, <1>3, <1>4, <1>5 DEF Beneath, Subtree, Under

\* Nothing is in two folders of one folder, and no folder's child is in another of them.
LEMMA SiblingsAreApart ==
    ASSUME NEW q \in Folders, NEW x \in Children(q), NEW y \in Children(q)
    PROVE  /\ x \notin Beneath(y) /\ x \notin Under(y)
           /\ x # y => Disjoint(x, y) /\ x \notin Subtree(y)
           /\ x # y => Subtree(x) \cap Subtree(y) = {}
<1>1. /\ x \in Items /\ Parent[x] = q /\ x # Root
      /\ y \in Items /\ Parent[y] = q /\ y # Root
  BY TreeConstants DEF Children
<1>2. ASSUME NEW a \in Children(q), NEW b \in Children(q) PROVE b \notin Above[a]
  <2>1. a \in Items /\ b \in Items /\ Parent[a] = q /\ Parent[b] = q
    BY <1>2 DEF Children
  <2>2. b \notin Above[b]
    BY <2>1, AboveIsTransitive
  <2>3. Above[a] = Above[b]
    BY <2>1, AboveStep
  <2> QED
    BY <2>2, <2>3
<1>3. x \notin Beneath(y) /\ x \notin Under(y) /\ y \notin Beneath(x) /\ y \notin Under(x)
  BY <1>1, <1>2 DEF Beneath, Under
<1>4. ASSUME x # y, NEW z \in Items, x \in Above[z], y \in Above[z] PROVE FALSE
  <2>1. x \in Above[y] \/ y \in Above[x]
    BY <1>4, AboveIsChain
  <2> QED
    BY <1>2, <2>1
<1>5. x # y => Disjoint(x, y)
  BY <1>1, <1>4 DEF Disjoint, Beneath
<1>6. x # y => x \notin Subtree(y) /\ Subtree(x) \cap Subtree(y) = {}
  BY <1>3, <1>4, TreeConstants DEF Subtree, Under
<1> QED
  BY <1>3, <1>5, <1>6

LEMMA PartsAreDisjoint ==
    ASSUME NEW p, NEW q, NEW x, Disjoint(p, q), Beneath(x) \subseteq Beneath(p)
    PROVE  Disjoint(x, q) /\ Disjoint(q, x) /\ Disjoint(q, p)
BY DEF Disjoint

\* Files are in no file.
LEMMA FileSubtree ==
    ASSUME NEW g \in Files
    PROVE  Subtree(g) = {g} /\ \A t : Within(t, g) \subseteq {g}
BY TreeConstants DEF Subtree, Within

LEMMA FolderSubtree ==
    ASSUME NEW d \in Dirs
    PROVE  /\ Subtree(d) = {d} \cup Under(d) /\ d \notin Files
           /\ \A t : Within(t, d) = {g \in Files \cap Under(d) : t.f[g] # 0}
BY TreeConstants DEF Subtree, Within

-----------------------------------------------------------------------------
(* What a plan says of a child.                                              *)

\* Of a file: versions a here, b there, c on record.
FilePlanned(V, a, b, c) ==
    /\ V.op \in Deletes \cup {"skip"} => V.row = Nil
    /\ V.op = "deleteLocal" => b = 0 /\ a # 0
    /\ V.op = "deleteRemote" => a = 0 /\ b # 0
    /\ V.op \in {"none", "noop", "upload", "download"} /\ V.row # Nil => V.row.v # 0
    /\ V.op = "upload" => V.row # Nil /\ V.row.v = a
    /\ V.op = "download" => V.row # Nil /\ V.row.v = b
    /\ V.op = "none" /\ V.row # Nil => V.row.v = a /\ V.row.v = b
    /\ V.op = "noop" => V.row # Nil /\ V.row.v = c
    /\ V.op \notin {"mkdirLocal", "mkdirRemote"}
    /\ V # Verdict("none", Nil) => a # 0 \/ b # 0

\* Of a folder: whether it is here, there.
FolderPlanned(V, a, b) ==
    /\ V.op \in Deletes => V.row = Nil
    /\ V.op = "deleteLocal" => a /\ ~b
    /\ V.op = "deleteRemote" => b /\ ~a
    /\ V.op \in Deletes \cup {"none", "mkdirLocal", "mkdirRemote"}
    /\ V # Verdict("none", Nil) => a \/ b

LEMMA PlanOfFile ==
    ASSUME NEW s \in Trees, NEW t \in Trees, NEW rec \in Trees, NEW g \in Files
    PROVE  FilePlanned(Judge(EntryAt(s, g), EntryAt(t, g), EntryAt(rec, g), C),
                       s.f[g], t.f[g], rec.f[g])
<1> DEFINE a == s.f[g]
           b == t.f[g]
           c == rec.f[g]
           V == Judge(FileOrNil(a), FileOrNil(b), FileOrNil(c), C)
<1>1. a \in 0..MaxClock /\ b \in 0..MaxClock /\ c \in 0..MaxClock
  BY DEF Trees
<1>2. V = Judge(EntryAt(s, g), EntryAt(t, g), EntryAt(rec, g), C)
  BY EntryMeans, TreeConstants
<1>3. \A v \in 0..MaxClock : v # 0 => FileEntry(v) # Nil /\ FileEntry(v).v = v
  BY EntriesAreThere, SettingConstants DEF FileEntry
<1> HIDE DEF a, b, c
<1>4. /\ a = 0 /\ b = 0 => V = Verdict("none", Nil)
      /\ a = b /\ a # 0 => V = Verdict("none", FileEntry(a))
      /\ a # 0 /\ b = 0 => V = IF a # c THEN Verdict("upload", FileEntry(a))
                               ELSE IF C.propagate THEN Verdict("deleteLocal", Nil)
                               ELSE Verdict("noop", FileEntry(a))
      /\ a = 0 /\ b # 0 => V = IF b # c THEN Verdict("download", FileEntry(b))
                               ELSE IF C.propagate THEN Verdict("deleteRemote", Nil)
                               ELSE Verdict("noop", FileEntry(b))
      /\ a # 0 /\ b # 0 /\ a # b => V = IF a = c THEN Verdict("download", FileEntry(b))
                                        ELSE IF b = c THEN Verdict("upload", FileEntry(a))
                                        ELSE Verdict("skip", Nil)
  BY <1>1, JudgeOfFile
<1> HIDE DEF V
<1>5. FilePlanned(V, a, b, c)
  <2> USE <1>1, <1>3 DEF FilePlanned, Verdict, Deletes
  <2>1. CASE a = 0 /\ b = 0
    BY <1>4, <2>1
  <2>2. CASE a = b /\ a # 0
    BY <1>4, <2>2
  <2>3. CASE a # 0 /\ b = 0
    BY <1>4, <2>3
  <2>4. CASE a = 0 /\ b # 0
    BY <1>4, <2>4
  <2>5. CASE a # 0 /\ b # 0 /\ a # b
    BY <1>4, <2>5
  <2> QED
    BY <2>1, <2>2, <2>3, <2>4, <2>5
<1> QED
  BY <1>2, <1>5 DEF a, b, c

LEMMA PlanOfFolder ==
    ASSUME NEW s \in Trees, NEW t \in Trees, NEW rec \in Trees, NEW d \in Dirs
    PROVE  FolderPlanned(Judge(EntryAt(s, d), EntryAt(t, d), EntryAt(rec, d), C),
                         d \in s.d, d \in t.d)
<1> DEFINE a == d \in s.d
           b == d \in t.d
           c == d \in rec.d
           V == Judge(FolderOrNil(a), FolderOrNil(b), FolderOrNil(c), C)
<1>1. a \in BOOLEAN /\ b \in BOOLEAN /\ c \in BOOLEAN
  OBVIOUS
<1>2. V = Judge(EntryAt(s, d), EntryAt(t, d), EntryAt(rec, d), C)
  BY EntryMeans, TreeConstants
<1> HIDE DEF a, b, c
<1>4. /\ ~a /\ ~b => V = Verdict("none", Nil)
      /\ a /\ b => V = Verdict("none", FolderEntry)
      /\ a /\ ~b => V = IF ~c THEN Verdict("mkdirRemote", FolderEntry)
                        ELSE IF C.propagate THEN Verdict("deleteLocal", Nil)
                        ELSE Verdict("none", FolderEntry)
      /\ ~a /\ b => V = IF ~c THEN Verdict("mkdirLocal", FolderEntry)
                        ELSE IF C.propagate THEN Verdict("deleteRemote", Nil)
                        ELSE Verdict("none", FolderEntry)
  BY <1>1, JudgeOfFolder
<1> HIDE DEF V
<1>5. FolderPlanned(V, a, b)
  BY <1>1, <1>4 DEF FolderPlanned, Verdict, Deletes
<1> QED
  BY <1>2, <1>5 DEF a, b

-----------------------------------------------------------------------------
(* The shape of a job, from the folders its run leaves out.                   *)

Early == {"local", "remote", "reserve"}
Nothing == Verdict("none", Nil)
Visible(j, ex) == {x \in Children(j.folder) : ~Excluded(x, ex)}

\* A plan is about the children that are not left out; the folders it deletes were listed.
PlanShape(P, kids, visible) ==
    \A x \in Items : /\ P[x] # Nothing => x \in visible
                     /\ P[x].op \in Deletes \cup {"skip"} => P[x].row = Nil
                     /\ x \in Dirs /\ P[x].op \in Deletes => x \in kids

JobShape(j, ex) ==
    /\ j.at = "free" => j = Free
    /\ j.at \in {"local", "remote"} => j.plan = Free.plan /\ j.kids = {} /\ j.todo = {}
    /\ j.at \in Early => j.done = {} /\ j.gone = {}
    /\ j.seen.d \cup j.kids \cup Filed(j.seen) \subseteq Visible(j, ex)
    /\ PlanShape(j.plan, j.kids, Visible(j, ex))
    /\ \A x \in j.gone : j.plan[x].op \in Deletes
    /\ j.todo \cap (j.gone \cup j.done) = {}
    /\ j.at = "remove" => /\ j.doomed \in j.todo /\ j.plan[j.doomed].op \in Deletes
                          /\ Under(j.doomed) \cap ex = {}

\* A run that is not in flight has nothing.
IdleRun(r) == /\ AllFree(r) /\ queue[r] = {} /\ next[r] = {} /\ held[r] = {} /\ removed[r] = {}
              /\ ~cancelled[r]
IdleRuns == \A r \in Runs : ~on[r] => IdleRun(r)
JobsShaped == \A w \in Workers : JobShape(job[w], skips[RunOf[w]])
Shaped == IdleRuns /\ JobsShaped

LEMMA NothingPlanned ==
    /\ Nothing.op = "none" /\ Nothing.row = Nil
    /\ \A x \in Items : Free.plan[x] = Nothing
    /\ \A kids, visible : PlanShape(Free.plan, kids, visible)
BY DEF Nothing, Verdict, Free, PlanShape, Deletes

LEMMA BareIsBare == Bare.d = {} /\ Filed(Bare) = {}
BY DEF Bare, Filed

LEMMA FreeShape == \A ex : JobShape(Free, ex)
BY NothingPlanned, BareIsBare DEF JobShape, Free, Early

LEMMA ListingIsVisible ==
    ASSUME NEW t \in Trees, NEW folder, NEW ex
    PROVE  LET found == Listing(t, folder, ex)
               seen  == {x \in Children(folder) : ~Excluded(x, ex)}
           IN  /\ found.d \subseteq seen /\ Filed(found) \subseteq seen
               /\ \A missed : LET rest == Cut(found, missed)
                              IN  rest.d \subseteq seen /\ Filed(rest) \subseteq seen
               /\ \A g \in Files : found.f[g] = IF g \in seen THEN t.f[g] ELSE 0
               /\ \A d \in seen \cap Dirs : d \in found.d <=> d \in t.d
<1>1. t.d \subseteq Dirs
  BY DEF Trees
<1> QED
  BY <1>1, TreeConstants DEF Listing, Filed, Cut, Children

\* What Decided makes of listings of the folder.
LEMMA DecidedShape ==
    ASSUME Typed, NEW w \in Workers, NEW there \in Trees, NEW visible,
           job[w].seen.d \cup Filed(job[w].seen) \subseteq visible,
           there.d \cup Filed(there) \subseteq visible
    PROVE  LET P == Decided(w, there)
               kids == job[w].seen.d \cup there.d
           IN  PlanShape(P, kids, visible) /\ PlanShape(Without(P), kids, visible)
<1> DEFINE P == Decided(w, there)
           kids == job[w].seen.d \cup there.d
           rec == Listing(snap[RunOf[w]], job[w].folder, skips[RunOf[w]])
           seen == job[w].seen
           V(x) == Judge(EntryAt(seen, x), EntryAt(there, x), EntryAt(rec, x), C)
<1>1. rec \in Trees /\ seen \in Trees
  BY TaskOf, TreesMade DEF Tasks
<1>2. \A x \in Items : P[x] = IF x \in Children(job[w].folder) THEN V(x) ELSE Nothing
  BY DEF Decided, Nothing
<1> HIDE DEF P, rec
<1>3. ASSUME NEW x \in Items
      PROVE  /\ V(x) # Nothing => x \in visible
             /\ V(x).op \in Deletes \cup {"skip"} => V(x).row = Nil
             /\ x \in Dirs /\ V(x).op \in Deletes => x \in kids
  <2>1. CASE x \in Files
    <3>1. FilePlanned(V(x), seen.f[x], there.f[x], rec.f[x])
      BY <1>1, <2>1, PlanOfFile
    <3>2. x \notin Dirs
      BY <2>1, TreeConstants
    <3> HIDE DEF V
    <3> QED
      BY <2>1, <3>1, <3>2 DEF FilePlanned, Filed, Nothing
  <2>2. CASE x \in Dirs
    <3>1. FolderPlanned(V(x), x \in seen.d, x \in there.d)
      BY <1>1, <2>2, PlanOfFolder
    <3> HIDE DEF V
    <3> QED
      BY <2>2, <3>1 DEF FolderPlanned, Nothing, Deletes
  <2> QED
    BY <2>1, <2>2, TreeConstants
<1> HIDE DEF V, kids, seen
<1>4. PlanShape(P, kids, visible)
  BY <1>2, <1>3, NothingPlanned DEF PlanShape, Deletes
<1>5. PlanShape(Without(P), kids, visible)
  <2>1. \A x \in Items : Without(P)[x] = IF P[x].op \in Deletes THEN Verdict("none", P[x].row)
                                         ELSE P[x]
    BY DEF Without
  <2>2. \A x \in Items : P[x].op \in Deletes => Without(P)[x] = Nothing
    BY <1>4, <2>1 DEF PlanShape, Nothing
  <2> QED
    BY <1>4, <2>1, <2>2, NothingPlanned DEF PlanShape, Deletes
<1> QED
  BY <1>4, <1>5 DEF P, kids, seen

LEMMA WithoutShape ==
    ASSUME NEW P, NEW kids, NEW visible, PlanShape(P, kids, visible)
    PROVE  /\ PlanShape(Without(P), kids, visible)
           /\ \A x \in Items : Without(P)[x].op \notin Deletes
           /\ \A x \in Items : Without(P)[x] = IF P[x].op \in Deletes THEN Nothing ELSE P[x]
<1>1. \A x \in Items : Without(P)[x] = IF P[x].op \in Deletes THEN Verdict("none", P[x].row)
                                       ELSE P[x]
  BY DEF Without
<1>2. \A x \in Items : P[x].op \in Deletes => Without(P)[x] = Nothing
  BY <1>1 DEF PlanShape, Nothing
<1>3. PlanShape(Without(P), kids, visible)
  BY <1>1, <1>2, NothingPlanned DEF PlanShape, Deletes
<1> QED
  BY <1>1, <1>2, <1>3, NothingPlanned DEF Deletes

-----------------------------------------------------------------------------
(* A thread's step is local: it changes only what is in the folder the        *)
(* thread is busy with, and what belongs to its run.                          *)

Busy(w) == job[w].at # "free"
Reaches(w) == IF Busy(w) THEN Beneath(job[w].folder) ELSE {}

ThreadLocal(w) ==
    LET r == RunOf[w]
        F == Reaches(w)
    IN  /\ on[r] /\ UNCHANGED <<on, snap, skips, cancelled, discarded, dismissed>>
        /\ \A b \in Workers : b # w => job'[b] = job[b]
        /\ \A q \in Runs : q # r => /\ queue'[q] = queue[q] /\ next'[q] = next[q]
                                    /\ held'[q] = held[q] /\ removed'[q] = removed[q]
        /\ \A h \in Files \ F : /\ rows'.f[h] = rows.f[h]
                                /\ \A s \in Sides : tree'[s].f[h] = tree[s].f[h]
        /\ held[r] \subseteq held'[r] /\ held'[r] \subseteq held[r] \cup (Sides \X F)
        /\ removed[r] \subseteq removed'[r] /\ removed'[r] \subseteq removed[r] \cup (Sides \X F)

LEMMA OpIsSomething ==
    \A V : V.op \in Deletes \cup Makes => V # Nothing
BY NothingPlanned DEF Deletes, Makes

LEMMA PlannedIsChild ==
    ASSUME Typed, JobsShaped, NEW w \in Workers, NEW x \in Items,
           job[w].plan[x].op \in Deletes \cup Makes
    PROVE  /\ job[w].folder \in Folders /\ x \in Children(job[w].folder)
           /\ x \in Visible(job[w], skips[RunOf[w]]) /\ ~Excluded(x, skips[RunOf[w]])
<1>1. job[w].folder \in Folders
  BY TaskOf DEF Tasks
<1>2. x \in Visible(job[w], skips[RunOf[w]])
  BY OpIsSomething DEF JobsShaped, JobShape, PlanShape
<1> QED
  BY <1>1, <1>2 DEF Visible

LEMMA TakenIsVisible ==
    ASSUME Typed, JobsShaped, NEW w \in Workers, NEW x \in Items,
           NEW op \in Deletes \cup Makes, Takes(w, x, op)
    PROVE  /\ on[RunOf[w]] /\ job[w].at = "apply" /\ Busy(w)
           /\ x \in job[w].todo /\ job[w].plan[x].op = op
           /\ job[w].folder \in Folders /\ x \in Children(job[w].folder)
           /\ ~Excluded(x, skips[RunOf[w]])
           /\ x \in Beneath(job[w].folder) /\ Under(x) \subseteq Beneath(job[w].folder)
           /\ Subtree(x) \subseteq Beneath(job[w].folder)
<1>1. on[RunOf[w]] /\ job[w].at = "apply" /\ x \in job[w].todo /\ job[w].plan[x].op = op
  BY DEF Takes, At, OpOf
<1>2. job[w].folder \in Folders /\ x \in Children(job[w].folder) /\ ~Excluded(x, skips[RunOf[w]])
  BY <1>1, PlannedIsChild
<1>3. x \in Beneath(job[w].folder) /\ Under(x) \subseteq Beneath(job[w].folder)
  BY <1>2, ChildIsBeneath
<1> QED
  BY <1>1, <1>2, <1>3 DEF Subtree, Busy

LEMMA DoomedIsVisible ==
    ASSUME Typed, JobsShaped, NEW w \in Workers, job[w].at = "remove"
    PROVE  LET d == job[w].doomed IN
           /\ d \in Dirs /\ d \in Items /\ d \in job[w].todo /\ job[w].plan[d].op \in Deletes
           /\ d \in job[w].kids \ job[w].gone
           /\ job[w].folder \in Folders /\ d \in Children(job[w].folder) /\ Busy(w)
           /\ ~Excluded(d, skips[RunOf[w]]) /\ Under(d) \cap skips[RunOf[w]] = {}
           /\ Under(d) \subseteq Beneath(job[w].folder)
           /\ Subtree(d) \subseteq Beneath(job[w].folder)
<1> DEFINE d == job[w].doomed
<1>1. d \in Dirs /\ d \in Items
  BY TaskOf, TreeConstants DEF Tasks
<1>2. d \in job[w].todo /\ job[w].plan[d].op \in Deletes /\ Under(d) \cap skips[RunOf[w]] = {}
      /\ job[w].todo \cap job[w].gone = {}
  BY DEF JobsShaped, JobShape
<1>3. d \in job[w].kids
  BY <1>1, <1>2 DEF JobsShaped, JobShape, PlanShape
<1>4. job[w].folder \in Folders /\ d \in Children(job[w].folder) /\ ~Excluded(d, skips[RunOf[w]])
  BY <1>1, <1>2, PlannedIsChild
<1>5. d \in Beneath(job[w].folder) /\ Under(d) \subseteq Beneath(job[w].folder)
  BY <1>4, ChildIsBeneath
<1> QED
  BY <1>1, <1>2, <1>3, <1>4, <1>5 DEF Subtree, Busy

LEMMA PlannedIsBeneath ==
    ASSUME NEW P, NEW rec, NEW q \in Folders,
           \A x \in Items : P[x].op \in Deletes => x \in Children(q)
    PROVE  PlannedDeletes(P, rec) \subseteq Sides \X Beneath(q)
<1>1. \A x \in Children(q) : x \in Beneath(q) /\ Under(x) \subseteq Beneath(q)
  BY ChildIsBeneath
<1>2. ASSUME NEW op \in Deletes PROVE ToDelete(P, op, rec) \subseteq Beneath(q)
  <2>1. ASSUME NEW d \in Dirs, P[d].op = op PROVE Within(rec, d) \subseteq Beneath(q)
    <3>1. d \in Children(q)
      BY <1>2, <2>1, TreeConstants
    <3> QED
      BY <1>1, <2>1, <3>1, FolderSubtree
  <2>2. \A g \in Files : P[g].op = op => g \in Beneath(q)
    BY <1>1, <1>2, TreeConstants
  <2> QED
    BY <2>1, <2>2 DEF ToDelete
<1>3. /\ ToDelete(P, "deleteLocal", rec) \subseteq Beneath(q)
      /\ ToDelete(P, "deleteRemote", rec) \subseteq Beneath(q)
  BY <1>2 DEF Deletes
<1> QED
  BY <1>3 DEF PlannedDeletes, Sides

\* The operators on trees change what they say they change.
LEMMA TreesKeep ==
    ASSUME NEW t \in Trees, NEW h \in Files
    PROVE  /\ \A g \in Files : \A v : Put(t, g, v).f[h] = IF h = g THEN v ELSE t.f[h]
           /\ \A d : Made(t, d).f = t.f
           /\ \A gone : Cut(t, gone).f[h] = IF h \in gone THEN 0 ELSE t.f[h]
BY DEF Trees, Put, Made, Cut

LEMMA GrowKeeps ==
    ASSUME Typed, NEW s \in Sides, NEW t, Grow(s, t)
    PROVE  tree'[s] = t /\ \A z \in Sides : z # s => tree'[z] = tree[z]
BY DEF Typed, WorldTyped, Grow

LEMMA BecomesKeeps ==
    ASSUME Typed, NEW w \in Workers, NEW j, Becomes(w, j)
    PROVE  job'[w] = j /\ \A b \in Workers : b # w => job'[b] = job[b]
BY DEF Typed, JobsTyped, Becomes

LEMMA TakeFolderIsLocal ==
    ASSUME Typed, NEW w \in Workers, TakeFolder(w)
    PROVE  ThreadLocal(w)
<1>1. \A b \in Workers : b # w => job'[b] = job[b]
  BY BecomesKeeps DEF TakeFolder
<1>2. \A q \in Runs : q # RunOf[w] => queue'[q] = queue[q]
  BY TaskOf DEF TakeFolder, Typed, RunsTyped
<1> QED
  BY <1>1, <1>2 DEF TakeFolder, ThreadLocal, At, world, outer, past, store

LEMMA QuietIsLocal ==
    ASSUME Typed, NEW w \in Workers, on[RunOf[w]],
           UNCHANGED <<world, store, quiet>>,
           \A b \in Workers : b # w => job'[b] = job[b]
    PROVE  ThreadLocal(w)
BY DEF ThreadLocal, world, outer, past, store, quiet, runs

LEMMA PreparingIsLocal ==
    ASSUME Typed, NEW w \in Workers,
           \/ ReadLocal(w) \/ ReadLocalBlind(w) \/ ListRemote(w) \/ ListRemoteFails(w)
           \/ InReserve(w) \/ Granted(w)
           \/ \E d \in Dirs : CheckFolder(w, d) \/ KeepFolder(w, d)
           \/ \E x \in Items : OpFails(w, x)
    PROVE  ThreadLocal(w)
<1>1. on[RunOf[w]]
  BY DEF ReadLocal, ReadLocalBlind, ListRemote, ListRemoteFails, PlanFolder, InReserve, Granted,
         CheckFolder, KeepFolder, OpFails, Takes, At
<1>2. UNCHANGED <<world, store, quiet>>
  BY DEF ReadLocal, ReadLocalBlind, ListRemote, ListRemoteFails, PlanFolder, InReserve, Granted,
         CheckFolder, KeepFolder, OpFails
<1>3. UNCHANGED job \/ \E j : Becomes(w, j)
  BY DEF ReadLocal, ReadLocalBlind, ListRemote, ListRemoteFails, PlanFolder, InReserve, Granted,
         CheckFolder, KeepFolder, OpFails
<1>4. \A b \in Workers : b # w => job'[b] = job[b]
  BY <1>3, BecomesKeeps
<1> QED
  BY <1>1, <1>2, <1>4, QuietIsLocal

LEMMA HeldBackIsLocal ==
    ASSUME Typed, JobsShaped, NEW w \in Workers, HeldBack(w)
    PROVE  ThreadLocal(w) /\ held'[RunOf[w]] = held[RunOf[w]] \cup
                                 PlannedDeletes(job[w].plan, snap[RunOf[w]])
<1> DEFINE r == RunOf[w]
           planned == PlannedDeletes(job[w].plan, snap[r])
<1>1. on[r] /\ job[w].at = "reserve"
  BY DEF HeldBack, At
<1>2. \A x \in Items : job[w].plan[x].op \in Deletes => x \in Children(job[w].folder)
  BY PlannedIsChild
<1>3. planned \subseteq Sides \X Beneath(job[w].folder)
  BY <1>2, PlannedIsBeneath, TaskOf DEF Tasks
<1>4. \A b \in Workers : b # w => job'[b] = job[b]
  BY BecomesKeeps DEF HeldBack
<1>5. held' = [held EXCEPT ![r] = held[r] \cup planned]
  BY DEF HeldBack
<1>6. r \in Runs /\ \A q \in Runs : held'[q] = IF q = r THEN held[q] \cup planned ELSE held[q]
  BY <1>5, TaskOf DEF Typed, TalliesTyped
<1> QED
  BY <1>1, <1>3, <1>4, <1>6
  DEF HeldBack, ThreadLocal, Reaches, Busy, world, outer, past, store, runs

\* What a transfer does to the files.
LEMMA TransferEffect ==
    ASSUME Typed, NEW w \in Workers
    PROVE  /\ \A d \in Dirs : MakeFolder(w, d) =>
                  \A s \in Sides : tree'[s].f = tree[s].f
           /\ \A g \in Files : Upload(w, g) =>
                  /\ tree'["here"] = tree["here"]
                  /\ \A h \in Files : tree'["there"].f[h] =
                         IF h = g THEN tree["here"].f[g] ELSE tree["there"].f[h]
           /\ \A g \in Files : Download(w, g) =>
                  /\ tree'["there"] = tree["there"]
                  /\ \A h \in Files : tree'["here"].f[h] =
                         IF h = g THEN tree["there"].f[g] ELSE tree["here"].f[h]
<1> USE DEF Sides
<1>1. tree["here"] \in Trees /\ tree["there"] \in Trees
  BY SidesTyped
<1>2. ASSUME NEW d \in Dirs, MakeFolder(w, d) PROVE \A s \in Sides : tree'[s].f = tree[s].f
  <2>1. Grow("here", Made(tree["here"], d)) \/ Grow("there", Made(tree["there"], d))
    BY <1>2 DEF MakeFolder
  <2>2. Made(tree["here"], d).f = tree["here"].f /\ Made(tree["there"], d).f = tree["there"].f
    BY <1>1 DEF Made, Trees
  <2> QED
    BY <2>1, <2>2, GrowKeeps
<1>3. ASSUME NEW g \in Files, Upload(w, g)
      PROVE  /\ tree'["here"] = tree["here"]
             /\ \A h \in Files : tree'["there"].f[h] =
                    IF h = g THEN tree["here"].f[g] ELSE tree["there"].f[h]
  BY <1>1, <1>3, GrowKeeps, TreesKeep DEF Upload
<1>4. ASSUME NEW g \in Files, Download(w, g)
      PROVE  /\ tree'["there"] = tree["there"]
             /\ \A h \in Files : tree'["here"].f[h] =
                    IF h = g THEN tree["there"].f[g] ELSE tree["here"].f[h]
  BY <1>1, <1>4, GrowKeeps, TreesKeep DEF Download
<1> QED
  BY <1>2, <1>3, <1>4

LEMMA RemoveEffect ==
    ASSUME Typed, NEW w \in Workers, NEW s \in Sides, NEW x, Remove(w, s, x)
    PROVE  /\ \A h \in Files : tree'[s].f[h] = IF h \in Subtree(x) THEN 0 ELSE tree[s].f[h]
           /\ tree'[s].d = tree[s].d \ Subtree(x)
           /\ \A z \in Sides : z # s => tree'[z] = tree[z]
           /\ removed'[RunOf[w]] = removed[RunOf[w]] \cup {<<s, g>> : g \in Within(tree[s], x)}
           /\ \A q \in Runs : q # RunOf[w] => removed'[q] = removed[q]
           /\ UNCHANGED <<discarded, dismissed>>
<1>1. tree[s] \in Trees
  BY SidesTyped
<1>2. tree'[s] = Cut(tree[s], Subtree(x)) /\ \A z \in Sides : z # s => tree'[z] = tree[z]
  BY GrowKeeps DEF Remove
<1>3. Cut(tree[s], Subtree(x)).d = tree[s].d \ Subtree(x)
  BY DEF Cut
<1>4. \A q \in Runs : removed'[q] = IF q = RunOf[w]
          THEN removed[q] \cup {<<s, g>> : g \in Within(tree[s], x)} ELSE removed[q]
  BY DEF Remove, Typed, TalliesTyped
<1>5. UNCHANGED <<discarded, dismissed>>
  BY DEF Remove, outer, past
<1>6. \A h \in Files : tree'[s].f[h] = IF h \in Subtree(x) THEN 0 ELSE tree[s].f[h]
  BY <1>1, <1>2, TreesKeep
<1>7. RunOf[w] \in Runs
  BY TaskOf
<1> QED
  BY <1>2, <1>3, <1>4, <1>5, <1>6, <1>7, Zenon

LEMMA TransferIsLocal ==
    ASSUME Typed, JobsShaped, NEW w \in Workers, NEW x \in Items, NEW op \in Makes,
           Takes(w, x, op), Succeeds(w, x), UNCHANGED <<outer, store, quiet>>,
           \A s \in Sides, h \in Files : tree'[s].f[h] = tree[s].f[h] \/ h = x
    PROVE  ThreadLocal(w)
<1>1. /\ on[RunOf[w]] /\ Busy(w) /\ x \in Beneath(job[w].folder)
  BY TakenIsVisible
<1>2. \A b \in Workers : b # w => job'[b] = job[b]
  BY BecomesKeeps DEF Succeeds
<1> QED
  BY <1>1, <1>2 DEF ThreadLocal, Reaches, outer, past, store, quiet, runs

LEMMA TransfersAreLocal ==
    ASSUME Typed, JobsShaped, NEW w \in Workers,
           \/ \E d \in Dirs : MakeFolder(w, d)
           \/ \E g \in Files : Upload(w, g) \/ Download(w, g)
    PROVE  ThreadLocal(w)
<1>1. ASSUME NEW d \in Dirs, MakeFolder(w, d) PROVE ThreadLocal(w)
  <2>1. PICK op \in Makes : Takes(w, d, op)
    BY <1>1 DEF MakeFolder, Makes
  <2>2. Succeeds(w, d) /\ UNCHANGED <<outer, store, quiet>> /\ d \in Items
    BY <1>1, TreeConstants DEF MakeFolder
  <2>3. \A s \in Sides, h \in Files : tree'[s].f[h] = tree[s].f[h]
    BY <1>1, TransferEffect
  <2> QED
    BY <2>1, <2>2, <2>3, TransferIsLocal
<1>2. ASSUME NEW g \in Files, Upload(w, g) PROVE ThreadLocal(w)
  <2>1. Takes(w, g, "upload") /\ "upload" \in Makes
    BY <1>2 DEF Upload, Makes
  <2>2. Succeeds(w, g) /\ UNCHANGED <<outer, store, quiet>> /\ g \in Items
    BY <1>2, TreeConstants DEF Upload
  <2>3. \A s \in Sides, h \in Files : tree'[s].f[h] = tree[s].f[h] \/ h = g
    BY <1>2, TransferEffect DEF Sides
  <2> QED
    BY <2>1, <2>2, <2>3, TransferIsLocal
<1>3. ASSUME NEW g \in Files, Download(w, g) PROVE ThreadLocal(w)
  <2>1. Takes(w, g, "download") /\ "download" \in Makes
    BY <1>3 DEF Download, Makes
  <2>2. Succeeds(w, g) /\ UNCHANGED <<outer, store, quiet>> /\ g \in Items
    BY <1>3, TreeConstants DEF Download
  <2>3. \A s \in Sides, h \in Files : tree'[s].f[h] = tree[s].f[h] \/ h = g
    BY <1>3, TransferEffect DEF Sides
  <2> QED
    BY <2>1, <2>2, <2>3, TransferIsLocal
<1> QED
  BY <1>1, <1>2, <1>3

\* What a removal of x, on side s, does.
LEMMA RemovalIsLocal ==
    ASSUME Typed, NEW w \in Workers, NEW s \in Sides, NEW x, Remove(w, s, x),
           Subtree(x) \subseteq Reaches(w), on[RunOf[w]],
           \A b \in Workers : b # w => job'[b] = job[b],
           UNCHANGED <<store, runs, held>>
    PROVE  ThreadLocal(w)
<1>1. \A h \in Files \ Reaches(w), z \in Sides : tree'[z].f[h] = tree[z].f[h]
  BY RemoveEffect
<1>2. {<<s, g>> : g \in Within(tree[s], x)} \subseteq Sides \X Reaches(w)
  BY DEF Within
<1> HIDE DEF Reaches
<1>3. /\ removed[RunOf[w]] \subseteq removed'[RunOf[w]]
      /\ removed'[RunOf[w]] \subseteq removed[RunOf[w]] \cup (Sides \X Reaches(w))
      /\ \A q \in Runs : q # RunOf[w] => removed'[q] = removed[q]
      /\ UNCHANGED <<discarded, dismissed>>
  BY <1>2, RemoveEffect
<1> QED
  BY <1>1, <1>3 DEF ThreadLocal, store, runs

LEMMA DeletionsAreLocal ==
    ASSUME Typed, JobsShaped, NEW w \in Workers,
           (\E g \in Files : DeleteFile(w, g)) \/ RemoveFolder(w)
    PROVE  ThreadLocal(w)
<1>1. ASSUME NEW g \in Files, DeleteFile(w, g) PROVE ThreadLocal(w)
  <2>1. PICK op \in Deletes : Takes(w, g, op) /\ Remove(w, Side(op), g)
    BY <1>1 DEF DeleteFile
  <2>2. Side(op) \in Sides /\ g \in Items
    BY TreeConstants DEF Side, Sides
  <2>3. on[RunOf[w]] /\ Busy(w) /\ Subtree(g) \subseteq Beneath(job[w].folder)
    BY <2>1, <2>2, TakenIsVisible
  <2>4. \A b \in Workers : b # w => job'[b] = job[b]
    BY <1>1, BecomesKeeps DEF DeleteFile, Succeeds
  <2>5. UNCHANGED <<store, runs, held>>
    BY <1>1 DEF DeleteFile
  <2>6. Subtree(g) \subseteq Reaches(w)
    BY <2>3 DEF Reaches
  <2> QED
    BY <2>1, <2>2, <2>3, <2>4, <2>5, <2>6, RemovalIsLocal
<1>2. CASE RemoveFolder(w)
  <2> DEFINE d == job[w].doomed
  <2>1. Remove(w, Side(OpOf(w, d)), d) /\ on[RunOf[w]] /\ job[w].at = "remove"
        /\ UNCHANGED <<store, runs, held>>
    BY <1>2 DEF RemoveFolder, At
  <2>2. Side(OpOf(w, d)) \in Sides
    BY DEF Side, Sides
  <2>3. Subtree(d) \subseteq Reaches(w)
    BY <2>1, DoomedIsVisible DEF Reaches
  <2>4. \A b \in Workers : b # w => job'[b] = job[b]
    BY <1>2, BecomesKeeps DEF RemoveFolder
  <2> QED
    BY <2>1, <2>2, <2>3, <2>4, RemovalIsLocal
<1> QED
  BY <1>1, <1>2

\* What a thread has planned for an item it has confirmed or deleted, it planned for a child.
LEMMA CommitEffect ==
    ASSUME Typed, JobsShaped, NEW w \in Workers, Commit(w), NEW h \in Files
    PROVE  \/ /\ Confirmed(w, h) /\ h \in Children(job[w].folder)
              /\ rows'.f[h] = job[w].plan[h].row.v
           \/ rows'.f[h] = 0 /\ h \in Children(job[w].folder)
           \/ rows'.f[h] = rows.f[h]
<1> DEFINE j == job[w]
           kept == Cut(rows, j.gone \cup Pruned(w))
<1>1. h \in Items /\ j \in Tasks /\ rows \in Trees
  BY TaskOf, TreeConstants DEF Typed, StoreTyped
<1>2. rows'.f[h] = IF Confirmed(w, h) /\ h \notin j.gone THEN j.plan[h].row.v ELSE kept.f[h]
  BY DEF Commit
<1>3. kept.f[h] = IF h \in j.gone \cup Pruned(w) THEN 0 ELSE rows.f[h]
  BY <1>1, TreesKeep
<1>4. Confirmed(w, h) => h \in Children(j.folder)
  <2>1. Confirmed(w, h) => j.plan[h] # Nothing
    BY NothingPlanned DEF Confirmed
  <2> QED
    BY <1>1, <2>1 DEF JobsShaped, JobShape, PlanShape, Visible
<1>5. h \in j.gone => h \in Children(j.folder)
  BY <1>1, PlannedIsChild DEF JobsShaped, JobShape
<1>6. h \in Pruned(w) => h \in Children(j.folder)
  BY DEF Pruned
<1> HIDE DEF j, kept
<1> QED
  BY <1>2, <1>3, <1>4, <1>5, <1>6 DEF j

LEMMA RecordingIsLocal ==
    ASSUME Typed, JobsShaped, NEW w \in Workers, Commit(w) \/ Purge(w)
    PROVE  ThreadLocal(w)
<1>1. \A x \in Children(job[w].folder) :
          x \in Beneath(job[w].folder) /\ Under(x) \subseteq Beneath(job[w].folder)
  BY ChildIsBeneath, TaskOf DEF Tasks
<1>2. CASE Commit(w)
  <2>1. \A h \in Files : rows'.f[h] = rows.f[h] \/ h \in Beneath(job[w].folder)
    BY <1>1, <1>2, CommitEffect
  <2>2. on[RunOf[w]] /\ Busy(w)
    BY <1>2 DEF Commit, At, Busy
  <2>3. \A b \in Workers : b # w => job'[b] = job[b]
    BY <1>2, BecomesKeeps DEF Commit
  <2>4. UNCHANGED <<world, quiet>>
    BY <1>2 DEF Commit
  <2> QED
    BY <2>1, <2>2, <2>3, <2>4 DEF ThreadLocal, Reaches, world, outer, past, quiet, runs
<1>3. CASE Purge(w)
  <2>1. \A d \in job[w].gone : d \in Children(job[w].folder)
    BY PlannedIsChild, TaskOf DEF JobsShaped, JobShape, Tasks
  <2>2. UNION {Under(d) : d \in job[w].gone \cap Dirs} \subseteq Beneath(job[w].folder)
    BY <1>1, <2>1
  <2>3. rows \in Trees
    BY DEF Typed, StoreTyped
  <2>4. \A h \in Files : rows'.f[h] = rows.f[h] \/ h \in Beneath(job[w].folder)
    BY <1>3, <2>2, <2>3, TreesKeep DEF Purge
  <2>5. on[RunOf[w]] /\ Busy(w)
    BY <1>3 DEF Purge, At, Busy
  <2>6. \A b \in Workers : b # w => job'[b] = job[b]
    BY <1>3, BecomesKeeps DEF Purge
  <2>7. \A q \in Runs : q # RunOf[w] => next'[q] = next[q]
    BY <1>3, TaskOf DEF Purge, Typed, RunsTyped
  <2>8. UNCHANGED <<world, on, snap, skips, queue, cancelled, held, removed>>
    BY <1>3 DEF Purge
  <2> QED
    BY <2>4, <2>5, <2>6, <2>7, <2>8 DEF ThreadLocal, Reaches, world, outer, past
<1> QED
  BY <1>2, <1>3

\* Every step of a thread is local.
LEMMA ThreadsAreLocal ==
    ASSUME Typed, JobsShaped, NEW w \in Workers, Thread(w)
    PROVE  ThreadLocal(w)
BY TakeFolderIsLocal, PreparingIsLocal, HeldBackIsLocal, TransfersAreLocal, DeletionsAreLocal,
   RecordingIsLocal DEF Thread

-----------------------------------------------------------------------------
(* Jobs keep their shape.                                                    *)

LEMMA TakeFolderShape ==
    ASSUME Typed, JobsShaped, NEW w \in Workers, TakeFolder(w)
    PROVE  JobShape(job'[w], skips[RunOf[w]])
<1>1. CASE UNCHANGED job
  BY <1>1 DEF JobsShaped
<1>2. CASE \E q : Becomes(w, [job[w] EXCEPT !.at = "local", !.folder = q])
  <2>1. PICK q : job'[w] = [job[w] EXCEPT !.at = "local", !.folder = q]
    BY <1>2, BecomesKeeps
  <2>2. job[w] = Free
    BY DEF TakeFolder, At, JobsShaped, JobShape
  <2>3. job'[w] = [Free EXCEPT !.at = "local", !.folder = q]
    BY <2>1, <2>2
  <2> DEFINE j == [Free EXCEPT !.at = "local", !.folder = q]
  <2>4. /\ j.at = "local" /\ j.plan = Free.plan /\ j.kids = {} /\ j.todo = {} /\ j.done = {}
        /\ j.gone = {} /\ j.seen = Bare
    BY DEF Free
  <2> HIDE DEF j
  <2>5. JobShape(j, skips[RunOf[w]])
    BY <2>4, NothingPlanned, BareIsBare DEF JobShape
  <2> QED
    BY <2>3, <2>5 DEF j
<1> QED
  BY <1>1, <1>2 DEF TakeFolder

LEMMA ReadShape ==
    ASSUME Typed, JobsShaped, NEW w \in Workers, ReadLocal(w) \/ ReadLocalBlind(w)
    PROVE  JobShape(job'[w], skips[RunOf[w]])
<1> DEFINE visible == Visible(job[w], skips[RunOf[w]])
<1>1. tree["here"] \in Trees /\ job[w] \in Tasks
  BY SidesTyped, TaskOf DEF Sides
<1>2. job[w].at = "local"
  BY DEF ReadLocal, ReadLocalBlind, At
<1>3. PICK t, b : /\ \/ Becomes(w, [job[w] EXCEPT !.at = "remote", !.seen = t, !.whole = b])
                     \/ Becomes(w, [job[w] EXCEPT !.at = "remote", !.whole = b, !.seen = t])
                  /\ t.d \cup Filed(t) \subseteq visible
  <2> DEFINE found == Listing(tree["here"], job[w].folder, skips[RunOf[w]])
  <2>1. /\ found.d \cup Filed(found) \subseteq visible
        /\ \A missed : Cut(found, missed).d \cup Filed(Cut(found, missed)) \subseteq visible
    BY <1>1, ListingIsVisible DEF Visible
  <2> HIDE DEF visible
  <2>2. CASE ReadLocal(w)
    <3>1. \E b : Becomes(w, [job[w] EXCEPT !.at = "remote", !.seen = found, !.whole = b])
      BY <2>2 DEF ReadLocal
    <3> HIDE DEF found
    <3> QED
      BY <2>1, <3>1
  <2>3. CASE ReadLocalBlind(w)
    <3>1. \E t : /\ Becomes(w, [job[w] EXCEPT !.at = "remote", !.whole = FALSE, !.seen = t])
                 /\ t = Bare \/ \E missed : t = Cut(found, missed)
      BY <2>3 DEF ReadLocalBlind
    <3> HIDE DEF found
    <3>2. Bare.d \cup Filed(Bare) \subseteq visible
      BY BareIsBare
    <3> QED
      BY <2>1, <3>1, <3>2
  <2> QED
    BY <2>2, <2>3
<1>4. \/ job'[w] = [job[w] EXCEPT !.at = "remote", !.seen = t, !.whole = b]
      \/ job'[w] = [job[w] EXCEPT !.at = "remote", !.whole = b, !.seen = t]
  BY <1>3, BecomesKeeps
<1>5. /\ job'[w].at = "remote" /\ job'[w].seen = t /\ job'[w].folder = job[w].folder
      /\ job'[w].plan = job[w].plan /\ job'[w].kids = job[w].kids /\ job'[w].todo = job[w].todo
      /\ job'[w].done = job[w].done /\ job'[w].gone = job[w].gone
  <2>1. CASE job'[w] = [job[w] EXCEPT !.at = "remote", !.seen = t, !.whole = b]
    BY <1>1, <2>1 DEF Tasks
  <2>2. CASE job'[w] = [job[w] EXCEPT !.at = "remote", !.whole = b, !.seen = t]
    BY <1>1, <2>2 DEF Tasks
  <2> QED
    BY <1>4, <2>1, <2>2
<1>6. JobShape(job[w], skips[RunOf[w]])
  BY DEF JobsShaped
<1> QED
  BY <1>2, <1>3, <1>5, <1>6 DEF JobShape, Visible, Early

\* The plan of a thread, before it has asked for its deletions.
LEMMA PlanStep ==
    ASSUME Typed, JobsShaped, NEW w \in Workers, NEW there \in Trees, NEW listed,
           PlanFolder(w, there, listed)
    PROVE  LET P == IF SeenWhole(w, listed) THEN Decided(w, there) ELSE Without(Decided(w, there))
               asks == Cardinality(PlannedDeletes(P, snap[RunOf[w]])) > 0 /\ Guarded(RunOf[w])
           IN  /\ job[w].at = "remote" /\ on[RunOf[w]]
               /\ job'[w].at = IF asks THEN "reserve" ELSE "apply"
               /\ job'[w].plan = P /\ job'[w].todo = Todo(P)
               /\ job'[w].kids = job[w].seen.d \cup there.d
               /\ job'[w].folder = job[w].folder /\ job'[w].seen = job[w].seen
               /\ job'[w].whole = job[w].whole
               /\ job'[w].done = {} /\ job'[w].gone = {}
<1> DEFINE P == IF SeenWhole(w, listed) THEN Decided(w, there) ELSE Without(Decided(w, there))
           asks == Cardinality(PlannedDeletes(P, snap[RunOf[w]])) > 0 /\ Guarded(RunOf[w])
<1>1. job[w].at = "remote" /\ on[RunOf[w]]
  BY DEF PlanFolder, At
<1>2. Becomes(w, [job[w] EXCEPT !.at = IF asks THEN "reserve" ELSE "apply",
                                !.kids = job[w].seen.d \cup there.d,
                                !.plan = P, !.todo = Todo(P)])
  BY DEF PlanFolder
<1>3. job[w].done = {} /\ job[w].gone = {}
  BY <1>1 DEF JobsShaped, JobShape, Early
<1> HIDE DEF P, asks
<1>4. job'[w] = [job[w] EXCEPT !.at = IF asks THEN "reserve" ELSE "apply",
                               !.kids = job[w].seen.d \cup there.d,
                               !.plan = P, !.todo = Todo(P)]
  BY <1>2, BecomesKeeps
<1>5. /\ job'[w].at = IF asks THEN "reserve" ELSE "apply"
      /\ job'[w].plan = P /\ job'[w].todo = Todo(P)
      /\ job'[w].kids = job[w].seen.d \cup there.d
      /\ job'[w].folder = job[w].folder /\ job'[w].seen = job[w].seen
      /\ job'[w].whole = job[w].whole
      /\ job'[w].done = job[w].done /\ job'[w].gone = job[w].gone
  BY <1>4, TaskOf DEF Tasks
<1> QED
  BY <1>1, <1>3, <1>5 DEF P, asks

LEMMA PlanFolderShape ==
    ASSUME Typed, JobsShaped, NEW w \in Workers, NEW there \in Trees, NEW listed,
           PlanFolder(w, there, listed),
           there.d \cup Filed(there) \subseteq Visible(job[w], skips[RunOf[w]])
    PROVE  JobShape(job'[w], skips[RunOf[w]])
<1> DEFINE visible == Visible(job[w], skips[RunOf[w]])
           found == Decided(w, there)
<1>1. job[w].seen.d \cup Filed(job[w].seen) \subseteq visible
  BY DEF JobsShaped, JobShape
<1>2. /\ PlanShape(found, job[w].seen.d \cup there.d, visible)
      /\ PlanShape(Without(found), job[w].seen.d \cup there.d, visible)
  BY <1>1, DecidedShape
<1> HIDE DEF found
<1>3. /\ job'[w].at \in {"reserve", "apply"}
      /\ job'[w].plan \in {found, Without(found)}
      /\ job'[w].kids = job[w].seen.d \cup there.d
      /\ job'[w].folder = job[w].folder /\ job'[w].seen = job[w].seen
      /\ job'[w].done = {} /\ job'[w].gone = {}
  BY PlanStep DEF found
<1>4. Visible(job'[w], skips[RunOf[w]]) = visible
  BY <1>3 DEF Visible
<1> HIDE DEF visible
<1>5. PlanShape(job'[w].plan, job'[w].kids, visible)
  BY <1>2, <1>3
<1>6. job'[w].seen.d \cup job'[w].kids \cup Filed(job'[w].seen) \subseteq visible
  BY <1>1, <1>3 DEF visible
<1> QED
  BY <1>3, <1>4, <1>5, <1>6 DEF JobShape

\* The two ways a thread comes by the remote side of its folder.
LEMMA ListsPlan ==
    ASSUME Typed, NEW w \in Workers, ListRemote(w) \/ ListRemoteFails(w)
    PROVE  \E there \in Trees, listed \in BOOLEAN :
               /\ PlanFolder(w, there, listed)
               /\ there.d \cup Filed(there) \subseteq Visible(job[w], skips[RunOf[w]])
               /\ listed \/ there = Bare
               /\ listed => there = Listing(tree["there"], job[w].folder, skips[RunOf[w]])
<1>1. tree["there"] \in Trees
  BY SidesTyped DEF Sides
<1>2. CASE ListRemote(w)
  <2> DEFINE there == Listing(tree["there"], job[w].folder, skips[RunOf[w]])
  <2>1. there \in Trees
    BY <1>1, TreesMade
  <2>2. there.d \cup Filed(there) \subseteq Visible(job[w], skips[RunOf[w]])
    BY <1>1, ListingIsVisible DEF Visible
  <2>3. PlanFolder(w, there, TRUE)
    BY <1>2 DEF ListRemote
  <2> HIDE DEF there
  <2> QED
    BY <2>1, <2>2, <2>3 DEF there
<1>3. CASE ListRemoteFails(w)
  BY <1>3, BareIsTree, BareIsBare DEF ListRemoteFails
<1> QED
  BY <1>2, <1>3

LEMMA ReserveShape ==
    ASSUME Typed, JobsShaped, NEW w \in Workers, InReserve(w) \/ Granted(w) \/ HeldBack(w)
    PROVE  JobShape(job'[w], skips[RunOf[w]])
<1>1. JobShape(job[w], skips[RunOf[w]]) /\ job[w] \in Tasks
  BY TaskOf DEF JobsShaped
<1>2. CASE InReserve(w)
  BY <1>1, <1>2 DEF InReserve
<1>3. CASE Granted(w)
  <2>1. job[w].at = "reserve" /\ job'[w] = [job[w] EXCEPT !.at = "apply"]
    BY <1>3, BecomesKeeps DEF Granted, At
  <2>2. /\ job'[w].at = "apply" /\ job'[w].seen = job[w].seen /\ job'[w].folder = job[w].folder
        /\ job'[w].plan = job[w].plan /\ job'[w].kids = job[w].kids /\ job'[w].todo = job[w].todo
        /\ job'[w].done = job[w].done /\ job'[w].gone = job[w].gone
    BY <1>1, <2>1 DEF Tasks
  <2> QED
    BY <1>1, <2>1, <2>2 DEF JobShape, Visible, Early
<1>4. CASE HeldBack(w)
  <2> DEFINE P == Without(job[w].plan)
  <2>1. job[w].at = "reserve"
        /\ job'[w] = [job[w] EXCEPT !.at = "apply", !.plan = P, !.todo = Todo(P)]
    BY <1>4, BecomesKeeps DEF HeldBack, At
  <2> HIDE DEF P
  <2>2. /\ job'[w].at = "apply" /\ job'[w].seen = job[w].seen /\ job'[w].folder = job[w].folder
        /\ job'[w].plan = P /\ job'[w].kids = job[w].kids
        /\ job'[w].done = job[w].done /\ job'[w].gone = job[w].gone
    BY <1>1, <2>1 DEF Tasks
  <2>3. PlanShape(P, job[w].kids, Visible(job[w], skips[RunOf[w]]))
    BY <1>1, WithoutShape DEF JobShape, P
  <2>4. Visible(job'[w], skips[RunOf[w]]) = Visible(job[w], skips[RunOf[w]])
    BY <2>2 DEF Visible
  <2> HIDE DEF PlanShape, Visible
  <2> QED
    BY <1>1, <2>1, <2>2, <2>3, <2>4 DEF JobShape, Early
<1> QED
  BY <1>2, <1>3, <1>4

LEMMA SucceedsStep ==
    ASSUME Typed, NEW w \in Workers, NEW x, Succeeds(w, x)
    PROVE  /\ job'[w].at = "apply" /\ job'[w].seen = job[w].seen /\ job'[w].folder = job[w].folder
           /\ job'[w].plan = job[w].plan /\ job'[w].kids = job[w].kids
           /\ job'[w].todo = job[w].todo \ {x} /\ job'[w].done = job[w].done \cup {x}
           /\ job'[w].gone = IF job[w].plan[x].op \in Deletes THEN job[w].gone \cup {x}
                             ELSE job[w].gone
<1>1. job'[w] = [job[w] EXCEPT !.at = "apply", !.todo = @ \ {x}, !.done = @ \cup {x},
                               !.gone = IF OpOf(w, x) \in Deletes THEN @ \cup {x} ELSE @]
  BY BecomesKeeps DEF Succeeds
<1> QED
  BY <1>1, TaskOf DEF Tasks, OpOf

LEMMA RemoveFolderStep ==
    ASSUME Typed, NEW w \in Workers, RemoveFolder(w)
    PROVE  LET d == job[w].doomed IN
           /\ job[w].at = "remove" /\ on[RunOf[w]]
           /\ job'[w].at = "apply" /\ job'[w].seen = job[w].seen /\ job'[w].folder = job[w].folder
           /\ job'[w].plan = job[w].plan /\ job'[w].kids = job[w].kids
           /\ job'[w].todo = job[w].todo \ {d} /\ job'[w].done = job[w].done \cup {d}
           /\ job'[w].gone = job[w].gone \cup {d}
<1> DEFINE d == job[w].doomed
<1>1. job[w].at = "remove" /\ on[RunOf[w]]
  BY DEF RemoveFolder, At
<1>2. job'[w] = [job[w] EXCEPT !.at = "apply", !.doomed = Nil, !.todo = @ \ {d},
                               !.done = @ \cup {d}, !.gone = @ \cup {d}]
  BY BecomesKeeps DEF RemoveFolder
<1> HIDE DEF d
<1>3. /\ job'[w].at = "apply" /\ job'[w].seen = job[w].seen /\ job'[w].folder = job[w].folder
      /\ job'[w].plan = job[w].plan /\ job'[w].kids = job[w].kids
      /\ job'[w].todo = job[w].todo \ {d} /\ job'[w].done = job[w].done \cup {d}
      /\ job'[w].gone = job[w].gone \cup {d}
  BY <1>2, TaskOf DEF Tasks
<1> QED
  BY <1>1, <1>3 DEF d

LEMMA ShapeAfterDone ==
    ASSUME NEW j, NEW k, NEW ex, NEW x, JobShape(j, ex),
           k.at = "apply", k.seen = j.seen, k.folder = j.folder, k.plan = j.plan, k.kids = j.kids,
           k.todo = j.todo \ {x}, k.done = j.done \cup {x},
           k.gone = j.gone \/ (k.gone = j.gone \cup {x} /\ j.plan[x].op \in Deletes)
    PROVE  JobShape(k, ex)
<1>1. Visible(k, ex) = Visible(j, ex)
  BY DEF Visible
<1>2. k.todo \cap (k.gone \cup k.done) = {}
  BY DEF JobShape
<1>3. \A y \in k.gone : k.plan[y].op \in Deletes
  BY DEF JobShape
<1> HIDE DEF PlanShape, Visible
<1> QED
  BY <1>1, <1>2, <1>3 DEF JobShape, Early

LEMMA ApplyShape ==
    ASSUME Typed, JobsShaped, NEW w \in Workers,
           \/ \E d \in Dirs : MakeFolder(w, d)
           \/ \E g \in Files : Upload(w, g) \/ Download(w, g) \/ DeleteFile(w, g)
           \/ RemoveFolder(w)
    PROVE  JobShape(job'[w], skips[RunOf[w]])
<1>1. JobShape(job[w], skips[RunOf[w]])
  BY DEF JobsShaped
<1> HIDE DEF JobShape
<1>2. ASSUME NEW x, Succeeds(w, x) PROVE JobShape(job'[w], skips[RunOf[w]])
  <2>1. /\ job'[w].at = "apply" /\ job'[w].seen = job[w].seen /\ job'[w].folder = job[w].folder
        /\ job'[w].plan = job[w].plan /\ job'[w].kids = job[w].kids
        /\ job'[w].todo = job[w].todo \ {x} /\ job'[w].done = job[w].done \cup {x}
    BY <1>2, SucceedsStep
  <2>2. \/ job'[w].gone = job[w].gone
        \/ job'[w].gone = job[w].gone \cup {x} /\ job[w].plan[x].op \in Deletes
    BY <1>2, SucceedsStep
  <2> QED
    BY <1>1, <2>1, <2>2, ShapeAfterDone
<1>3. CASE RemoveFolder(w)
  <2>1. job[w].plan[job[w].doomed].op \in Deletes
    BY <1>3, RemoveFolderStep, DoomedIsVisible
  <2> QED
    BY <1>1, <1>3, <2>1, RemoveFolderStep, ShapeAfterDone
<1>4. (\E x : Succeeds(w, x)) \/ RemoveFolder(w)
  BY DEF MakeFolder, Upload, Download, DeleteFile
<1> QED
  BY <1>2, <1>3, <1>4

\* A thread decides to remove a folder, keeps it, or fails an operation.
LEMMA SettledShape ==
    ASSUME Typed, JobsShaped, NEW w \in Workers,
           \/ \E d \in Dirs : CheckFolder(w, d) \/ KeepFolder(w, d)
           \/ \E x \in Items : OpFails(w, x)
    PROVE  JobShape(job'[w], skips[RunOf[w]])
<1>1. JobShape(job[w], skips[RunOf[w]]) /\ job[w] \in Tasks
  BY TaskOf DEF JobsShaped
<1>2. job[w].at = "apply"
  BY DEF CheckFolder, KeepFolder, OpFails, Takes, At
<1>3. ASSUME NEW d \in Dirs, CheckFolder(w, d) PROVE JobShape(job'[w], skips[RunOf[w]])
  <2>1. PICK op \in Deletes : Takes(w, d, op) /\ KnownInside(Side(op), d, skips[RunOf[w]])
    BY <1>3 DEF CheckFolder
  <2>2. d \in job[w].todo /\ job[w].plan[d].op \in Deletes /\ Under(d) \cap skips[RunOf[w]] = {}
    BY <2>1 DEF Takes, OpOf, KnownInside
  <2>3. job'[w] = [job[w] EXCEPT !.at = "remove", !.doomed = d]
    BY <1>3, BecomesKeeps DEF CheckFolder
  <2>4. /\ job'[w].at = "remove" /\ job'[w].seen = job[w].seen /\ job'[w].folder = job[w].folder
        /\ job'[w].plan = job[w].plan /\ job'[w].kids = job[w].kids
        /\ job'[w].todo = job[w].todo /\ job'[w].done = job[w].done
        /\ job'[w].gone = job[w].gone /\ job'[w].doomed = d
    BY <1>1, <2>3 DEF Tasks
  <2>5. Visible(job'[w], skips[RunOf[w]]) = Visible(job[w], skips[RunOf[w]])
    BY <2>4 DEF Visible
  <2> HIDE DEF PlanShape, Visible
  <2> QED
    BY <1>1, <2>2, <2>4, <2>5 DEF JobShape, Early
<1>4. ASSUME NEW x, NEW failed,
             job'[w] = [job[w] EXCEPT !.todo = job[w].todo \ {x}, !.failed = failed]
             \/ job'[w] = [job[w] EXCEPT !.todo = job[w].todo \ {x}]
      PROVE  JobShape(job'[w], skips[RunOf[w]])
  <2>1. /\ job'[w].at = "apply" /\ job'[w].seen = job[w].seen /\ job'[w].folder = job[w].folder
        /\ job'[w].plan = job[w].plan /\ job'[w].kids = job[w].kids
        /\ job'[w].todo = job[w].todo \ {x} /\ job'[w].done = job[w].done
        /\ job'[w].gone = job[w].gone
    BY <1>1, <1>2, <1>4 DEF Tasks
  <2>2. Visible(job'[w], skips[RunOf[w]]) = Visible(job[w], skips[RunOf[w]])
    BY <2>1 DEF Visible
  <2> HIDE DEF PlanShape, Visible
  <2> QED
    BY <1>1, <2>1, <2>2 DEF JobShape, Early
<1>5. ASSUME NEW d \in Dirs, KeepFolder(w, d) PROVE JobShape(job'[w], skips[RunOf[w]])
  BY <1>4, <1>5, BecomesKeeps DEF KeepFolder
<1>6. ASSUME NEW x \in Items, OpFails(w, x) PROVE JobShape(job'[w], skips[RunOf[w]])
  <2>1. job'[w] = [job[w] EXCEPT !.todo = job[w].todo \ {x}, !.failed = job[w].failed \cup {x}]
    BY <1>6, BecomesKeeps DEF OpFails
  <2> QED
    BY <1>4, <2>1
<1> QED
  BY <1>3, <1>5, <1>6

LEMMA RecordShape ==
    ASSUME Typed, JobsShaped, NEW w \in Workers, Commit(w) \/ Purge(w)
    PROVE  JobShape(job'[w], skips[RunOf[w]])
<1>1. JobShape(job[w], skips[RunOf[w]]) /\ job[w] \in Tasks
  BY TaskOf DEF JobsShaped
<1>2. CASE Commit(w)
  <2>1. job'[w] = [job[w] EXCEPT !.at = "purge"]
    BY <1>2, BecomesKeeps DEF Commit
  <2>2. /\ job'[w].at = "purge" /\ job'[w].seen = job[w].seen /\ job'[w].folder = job[w].folder
        /\ job'[w].plan = job[w].plan /\ job'[w].kids = job[w].kids
        /\ job'[w].todo = job[w].todo /\ job'[w].done = job[w].done
        /\ job'[w].gone = job[w].gone
    BY <1>1, <2>1 DEF Tasks
  <2>3. Visible(job'[w], skips[RunOf[w]]) = Visible(job[w], skips[RunOf[w]])
    BY <2>2 DEF Visible
  <2> HIDE DEF PlanShape, Visible
  <2> QED
    BY <1>1, <2>2, <2>3 DEF JobShape, Early
<1>3. CASE Purge(w)
  BY <1>3, FreeShape, BecomesKeeps DEF Purge
<1> QED
  BY <1>2, <1>3

LEMMA ThreadKeepsItsShape ==
    ASSUME Typed, JobsShaped, NEW w \in Workers, Thread(w)
    PROVE  JobShape(job'[w], skips[RunOf[w]])
<1>1. CASE ListRemote(w) \/ ListRemoteFails(w)
  BY <1>1, ListsPlan, PlanFolderShape
<1> QED
  BY <1>1, TakeFolderShape, ReadShape, ReserveShape, ApplyShape, SettledShape, RecordShape
  DEF Thread

\* What a thread's step leaves of the others' jobs, and of the runs that are not in flight.
LEMMA ThreadShaped ==
    ASSUME Typed, Shaped, NEW w \in Workers, Thread(w)
    PROVE  Shaped'
<1>1. ThreadLocal(w)
  BY ThreadsAreLocal DEF Shaped
<1>2. JobShape(job'[w], skips[RunOf[w]])
  BY ThreadKeepsItsShape DEF Shaped
<1>3. \A b \in Workers : JobShape(job'[b], skips'[RunOf[b]])
  <2>1. \A b \in Workers : b # w => job'[b] = job[b]
    BY <1>1 DEF ThreadLocal
  <2>2. skips' = skips
    BY <1>1 DEF ThreadLocal
  <2> QED
    BY <1>2, <2>1, <2>2 DEF Shaped, JobsShaped
<1>4. ASSUME NEW q \in Runs, ~on'[q] PROVE IdleRun(q)'
  <2>1. ~on[q] /\ q # RunOf[w]
    BY <1>1, <1>4 DEF ThreadLocal
  <2>2. IdleRun(q)
    BY <2>1 DEF Shaped, IdleRuns
  <2>3. queue'[q] = queue[q] /\ next'[q] = next[q] /\ held'[q] = held[q]
        /\ removed'[q] = removed[q] /\ cancelled'[q] = cancelled[q]
    BY <1>1, <2>1 DEF ThreadLocal
  <2>4. \A b \in Workers : RunOf[b] = q => job'[b] = job[b]
    BY <1>1, <2>1 DEF ThreadLocal
  <2> QED
    BY <2>2, <2>3, <2>4 DEF IdleRun, AllFree, Crew
<1> QED
  BY <1>3, <1>4 DEF Shaped, IdleRuns, JobsShaped

LEMMA ShapeFrame ==
    ASSUME Typed, Shaped, UNCHANGED <<on, skips, queue, next, cancelled, held, removed, job>>
    PROVE  Shaped'
BY DEF Shaped, IdleRuns, IdleRun, AllFree, JobsShaped

LEMMA BeginShaped ==
    ASSUME Typed, Shaped, NEW r \in Runs, NEW folders, NEW missing, Begin(r, folders, missing)
    PROVE  Shaped'
<1>1. IdleRun(r)
  BY DEF Begin, Shaped, IdleRuns
<1>2. \A q \in Runs : q # r => /\ on'[q] = on[q] /\ skips'[q] = skips[q] /\ queue'[q] = queue[q]
                               /\ held'[q] = held[q] /\ removed'[q] = removed[q]
  BY DEF Begin, Typed, RunsTyped, TalliesTyped
<1>3. on'[r] /\ next' = next /\ cancelled' = cancelled /\ job' = job
  BY DEF Begin, Typed, RunsTyped
<1>4. ASSUME NEW w \in Workers PROVE JobShape(job'[w], skips'[RunOf[w]])
  <2>1. CASE RunOf[w] = r
    <3>1. job[w] = Free
      BY <1>1, <2>1 DEF IdleRun, AllFree, Crew, Shaped, JobsShaped, JobShape
    <3> QED
      BY <1>3, <3>1, FreeShape
  <2>2. CASE RunOf[w] # r
    <3>1. skips'[RunOf[w]] = skips[RunOf[w]]
      BY <1>2, <2>2, TaskOf
    <3> QED
      BY <1>3, <3>1 DEF Shaped, JobsShaped
  <2> QED
    BY <2>1, <2>2
<1>5. ASSUME NEW q \in Runs, ~on'[q] PROVE IdleRun(q)'
  <2>1. q # r /\ IdleRun(q)
    BY <1>2, <1>3, <1>5 DEF Shaped, IdleRuns
  <2> QED
    BY <1>2, <1>3, <2>1 DEF IdleRun, AllFree
<1> QED
  BY <1>4, <1>5 DEF Shaped, IdleRuns, JobsShaped

LEMMA EndShaped ==
    ASSUME Typed, Shaped, NEW r \in Runs, End(r)
    PROVE  Shaped'
<1>1. AllFree(r) /\ job' = job
  BY DEF End
<1>2. \A q \in Runs : q # r => /\ on'[q] = on[q] /\ skips'[q] = skips[q] /\ queue'[q] = queue[q]
                               /\ held'[q] = held[q] /\ removed'[q] = removed[q]
                               /\ next'[q] = next[q] /\ cancelled'[q] = cancelled[q]
  BY DEF End, Typed, RunsTyped, TalliesTyped
<1>3. /\ queue'[r] = {} /\ next'[r] = {} /\ held'[r] = {} /\ removed'[r] = {} /\ ~cancelled'[r]
  BY DEF End, Typed, RunsTyped, TalliesTyped
<1>4. ASSUME NEW w \in Workers PROVE JobShape(job'[w], skips'[RunOf[w]])
  <2>1. CASE RunOf[w] = r
    <3>1. job[w] = Free
      BY <1>1, <2>1 DEF AllFree, Crew, Shaped, JobsShaped, JobShape
    <3> QED
      BY <1>1, <3>1, FreeShape
  <2>2. CASE RunOf[w] # r
    <3>1. skips'[RunOf[w]] = skips[RunOf[w]]
      BY <1>2, <2>2, TaskOf
    <3> QED
      BY <1>1, <3>1 DEF Shaped, JobsShaped
  <2> QED
    BY <2>1, <2>2
<1>5. ASSUME NEW q \in Runs, ~on'[q] PROVE IdleRun(q)'
  <2>1. CASE q = r
    BY <1>1, <1>3, <2>1 DEF IdleRun, AllFree
  <2>2. CASE q # r
    <3>1. IdleRun(q)
      BY <1>2, <1>5, <2>2 DEF Shaped, IdleRuns
    <3> QED
      BY <1>1, <1>2, <2>2, <3>1 DEF IdleRun, AllFree
  <2> QED
    BY <2>1, <2>2
<1> QED
  BY <1>4, <1>5 DEF Shaped, IdleRuns, JobsShaped

LEMMA RunStepsShaped ==
    ASSUME Typed, Shaped, NEW r \in Runs, NextLevel(r) \/ Cancel(r)
    PROVE  Shaped'
<1>1. on[r] /\ UNCHANGED <<on, skips, held, removed, job>>
  BY DEF NextLevel, Cancel
<1>2. \A q \in Runs : q # r => /\ queue'[q] = queue[q] /\ next'[q] = next[q]
                               /\ cancelled'[q] = cancelled[q]
  BY DEF NextLevel, Cancel, Typed, RunsTyped
<1>3. ASSUME NEW q \in Runs, ~on'[q] PROVE IdleRun(q)'
  <2>1. q # r /\ IdleRun(q)
    BY <1>1, <1>3 DEF Shaped, IdleRuns
  <2> QED
    BY <1>1, <1>2, <2>1 DEF IdleRun, AllFree
<1> QED
  BY <1>1, <1>3 DEF Shaped, IdleRuns, JobsShaped

LEMMA CrashShaped ==
    ASSUME Crash
    PROVE  Shaped'
<1>1. \A r \in Runs : /\ queue'[r] = {} /\ next'[r] = {} /\ held'[r] = {} /\ removed'[r] = {}
                      /\ ~cancelled'[r]
  BY DEF Crash
<1>2. \A w \in Workers : job'[w] = Free
  BY DEF Crash
<1> QED
  BY <1>1, <1>2, FreeShape, FreeIsTask
  DEF Shaped, IdleRuns, JobsShaped, IdleRun, AllFree, Crew

LEMMA InitShaped == Init => Shaped
<1> SUFFICES ASSUME Init PROVE Shaped
  OBVIOUS
<1>1. \A r \in Runs : /\ queue[r] = {} /\ next[r] = {} /\ held[r] = {} /\ removed[r] = {}
                      /\ ~cancelled[r]
  BY DEF Init
<1>2. \A w \in Workers : job[w] = Free
  BY DEF Init
<1> QED
  BY <1>1, <1>2, FreeShape, FreeIsTask
  DEF Shaped, IdleRuns, JobsShaped, IdleRun, AllFree, Crew

\* What happens outside the runs changes none of their jobs.
LEMMA OutsideKeeps ==
    ASSUME \/ \E d \in Dirs : Exclude(d) \/ Include(d) \/ FreeUp(d)
           \/ \E side \in Sides : \/ \E g \in Files : Edit(side, g) \/ Restore(side, g)
                                  \/ \E x \in Items : Dismiss(side, x)
    PROVE  /\ UNCHANGED Undisturbed /\ UNCHANGED <<rows, runs, held, job, removed, budget>>
           /\ \A w \in Workers : job[w].at # "remove"
<1>1. UNCHANGED Undisturbed
  BY DEF Exclude, Include, FreeUp, Edit, Restore, Dismiss, Drop
<1>2. \A w \in Workers : job[w].at # "remove"
  BY DEF Exclude, Include, FreeUp, Edit, Restore, Dismiss, MayMove
<1> QED
  BY <1>1, <1>2 DEF Undisturbed, store

LEMMA NextShaped == Typed /\ Shaped /\ [Next]_vars => Shaped'
<1> SUFFICES ASSUME Typed, Shaped, [Next]_vars PROVE Shaped'
  OBVIOUS
<1>1. CASE UNCHANGED vars
  BY <1>1, ShapeFrame DEF vars, runs
<1>2. CASE StartWalk \/ StartBurst
  BY <1>2, BeginShaped, Bounds DEF StartWalk, StartBurst
<1>3. ASSUME NEW r \in Runs, RunStep(r) \/ Cancel(r) PROVE Shaped'
  BY <1>3, RunStepsShaped, EndShaped DEF RunStep
<1>4. ASSUME NEW w \in Workers, Thread(w) PROVE Shaped'
  BY <1>4, ThreadShaped
<1>5. CASE Crash
  BY <1>5, CrashShaped
<1>6. ASSUME NEW x, BackoffElapses(x) PROVE Shaped'
  BY <1>6, ShapeFrame DEF BackoffElapses, runs
<1>7. CASE \/ \E d \in Dirs : Exclude(d) \/ Include(d) \/ FreeUp(d)
           \/ \E side \in Sides : \/ \E g \in Files : Edit(side, g) \/ Restore(side, g)
                                  \/ \E x \in Items : Dismiss(side, x)
  BY <1>7, OutsideKeeps, ShapeFrame DEF runs
<1> QED
  BY <1>1, <1>2, <1>3, <1>4, <1>5, <1>6, <1>7 DEF Next, Engine, Environment

LEMMA AlwaysShaped == Spec => [](Typed /\ Shaped)
<1>1. Typed /\ Shaped /\ [Next]_vars => (Typed /\ Shaped)'
  BY NextTyped, NextShaped
<1> QED
  BY <1>1, InitTyped, InitShaped, PTL DEF Spec

-----------------------------------------------------------------------------
(* What the runs were told to leave out.                                     *)

\* Where a thread puts a file, or makes a folder, nothing around it is left out.
LEMMA NothingExcludedAround ==
    ASSUME NEW x \in Items, NEW ex, ~Excluded(x, ex), NEW y \in {x} \cup Above[x]
    PROVE  ~Excluded(y, ex)
BY ExcludedBelow

LEMMA SameEntry ==
    ASSUME NEW x \in Items, NEW s, NEW t,
           x \in Files => s.f[x] = t.f[x], x \in Dirs => (x \in s.d <=> x \in t.d)
    PROVE  EntryAt(s, x) = EntryAt(t, x)
BY TreeConstants DEF EntryAt

\* A thread's step leaves alone, on both sides, whatever its run was told to leave out.
LEMMA ThreadSparesExcluded ==
    ASSUME Typed, JobsShaped, NEW w \in Workers, Thread(w),
           NEW s \in Sides, NEW x \in Items, Excluded(x, skips[RunOf[w]])
    PROVE  EntryAt(tree'[s], x) = EntryAt(tree[s], x)
<1> DEFINE ex == skips[RunOf[w]]
<1> USE DEF Sides
<1>1. tree["here"] \in Trees /\ tree["there"] \in Trees
  BY SidesTyped
<1>2. CASE UNCHANGED tree
  BY <1>2
<1>3. ASSUME NEW y \in Items, NEW op \in Deletes \cup Makes, Takes(w, y, op)
      PROVE  ~Excluded(y, ex) /\ x # y /\ x \notin Above[y]
  <2>1. ~Excluded(y, ex)
    BY <1>3, TakenIsVisible
  <2> QED
    BY <2>1, NothingExcludedAround
<1>4. ASSUME NEW d \in Dirs, MakeFolder(w, d) PROVE EntryAt(tree'[s], x) = EntryAt(tree[s], x)
  <2>1. PICK op \in Makes : Takes(w, d, op)
    BY <1>4 DEF MakeFolder, Makes
  <2>2. x # d /\ x \notin Above[d]
    BY <1>3, <2>1, TreeConstants
  <2>3. \/ tree'[s] = tree[s]
        \/ tree'[s] = Made(tree[s], d)
    BY <1>4, GrowKeeps DEF MakeFolder
  <2>4. Made(tree[s], d).f = tree[s].f /\ Made(tree[s], d).d = tree[s].d \cup {d} \cup Above[d]
    BY <1>1 DEF Made, Trees
  <2> QED
    BY <2>2, <2>3, <2>4, SameEntry
<1>5. ASSUME NEW g \in Files, Upload(w, g) \/ Download(w, g)
      PROVE  EntryAt(tree'[s], x) = EntryAt(tree[s], x)
  <2>1. PICK op \in Makes : Takes(w, g, op)
    BY <1>5 DEF Upload, Download, Makes
  <2>2. x # g /\ x \notin Above[g]
    BY <1>3, <2>1, TreeConstants
  <2>3. \/ tree'[s] = tree[s]
        \/ \E v : tree'[s] = Put(tree[s], g, v)
    BY <1>5, GrowKeeps DEF Upload, Download
  <2>4. \A v : Put(tree[s], g, v).d = tree[s].d \cup Above[g]
    BY DEF Put
  <2>5. x \in Files => \A v : Put(tree[s], g, v).f[x] = tree[s].f[x]
    BY <1>1, <2>2, TreesKeep
  <2> QED
    BY <2>2, <2>3, <2>4, <2>5, SameEntry
<1>6. ASSUME NEW z \in Sides, NEW y, Remove(w, z, y), x \notin Subtree(y)
      PROVE  EntryAt(tree'[s], x) = EntryAt(tree[s], x)
  <2>1. \/ tree'[s] = tree[s]
        \/ /\ \A h \in Files : tree'[s].f[h] = IF h \in Subtree(y) THEN 0 ELSE tree[s].f[h]
           /\ tree'[s].d = tree[s].d \ Subtree(y)
    BY <1>6, RemoveEffect
  <2> QED
    BY <1>6, <2>1, SameEntry
<1>7. ASSUME NEW g \in Files, DeleteFile(w, g) PROVE EntryAt(tree'[s], x) = EntryAt(tree[s], x)
  <2>1. PICK op \in Deletes : Takes(w, g, op) /\ Remove(w, Side(op), g)
    BY <1>7 DEF DeleteFile
  <2>2. x # g
    BY <1>3, <2>1, TreeConstants
  <2> QED
    BY <1>6, <2>1, <2>2, FileSubtree DEF Side
<1>8. CASE RemoveFolder(w)
  <2> DEFINE d == job[w].doomed
  <2>1. job[w].at = "remove" /\ Remove(w, Side(OpOf(w, d)), d)
    BY <1>8 DEF RemoveFolder, At
  <2>2. d \in Dirs /\ ~Excluded(d, ex) /\ Under(d) \cap ex = {}
    BY <2>1, DoomedIsVisible
  <2>3. x \notin Subtree(d)
    BY <2>2, NothingExcludedInside
  <2> QED
    BY <1>6, <2>1, <2>3 DEF Side
<1>9. CASE \/ TakeFolder(w) \/ ReadLocal(w) \/ ReadLocalBlind(w) \/ ListRemote(w)
           \/ ListRemoteFails(w) \/ InReserve(w) \/ Granted(w) \/ HeldBack(w)
           \/ Commit(w) \/ Purge(w) \/ (\E y \in Items : OpFails(w, y))
           \/ \E d \in Dirs : CheckFolder(w, d) \/ KeepFolder(w, d)
  <2>1. UNCHANGED world
    BY <1>9 DEF TakeFolder, ReadLocal, ReadLocalBlind, ListRemote, ListRemoteFails, PlanFolder,
                InReserve, Granted, HeldBack, Commit, Purge, OpFails, CheckFolder, KeepFolder
  <2> QED
    BY <1>2, <2>1 DEF world
<1> QED
  BY <1>4, <1>5, <1>7, <1>8, <1>9 DEF Thread

\* A step that changes a thread's job is that thread's own, or a crash.
LEMMA WhoseStep ==
    ASSUME Typed, JobsShaped, [Next]_vars, NEW w \in Workers, job'[w] # job[w]
    PROVE  Thread(w) \/ (Crash /\ UNCHANGED world)
<1>1. ASSUME UNCHANGED job PROVE FALSE
  BY <1>1
<1>2. ~UNCHANGED vars
  BY <1>1 DEF vars
<1>3. ~StartWalk /\ ~StartBurst /\ \A r \in Runs : ~RunStep(r) /\ ~Cancel(r)
  BY <1>1 DEF StartWalk, StartBurst, Begin, RunStep, NextLevel, End, Cancel
<1>4. \A x : ~BackoffElapses(x)
  BY <1>1 DEF BackoffElapses
<1>5. ~ \/ \E d \in Dirs : Exclude(d) \/ Include(d) \/ FreeUp(d)
        \/ \E side \in Sides : \/ \E g \in Files : Edit(side, g) \/ Restore(side, g)
                               \/ \E x \in Items : Dismiss(side, x)
  BY <1>1, OutsideKeeps
<1>6. (\E b \in Workers : Thread(b)) \/ Crash
  BY <1>2, <1>3, <1>4, <1>5 DEF Next, Engine, Environment
<1>7. ASSUME NEW b \in Workers, Thread(b) PROVE b = w
  BY <1>7, ThreadsAreLocal DEF ThreadLocal
<1>8. Crash => UNCHANGED world
  BY DEF Crash
<1> QED
  BY <1>6, <1>7, <1>8

\* Whatever the user excludes, whichever folders are to be deleted around it, and however the
\* threads of a walk and of a burst take turns: no step of a thread touches, on either side,
\* what its run was told to leave out.
THEOREM RunsLeaveExcludedAlone == Spec => ExcludedIsLeftAlone
<1> DEFINE Spared == \A w \in Workers, s \in Sides, x \in Items :
               (job'[w] # job[w] /\ Excluded(x, skips[RunOf[w]])) =>
                   EntryAt(tree'[s], x) = EntryAt(tree[s], x)
<1>1. Typed /\ Shaped /\ [Next]_vars => [Spared]_vars
  <2> SUFFICES ASSUME Typed, Shaped, [Next]_vars,
                      NEW w \in Workers, NEW s \in Sides, NEW x \in Items,
                      job'[w] # job[w], Excluded(x, skips[RunOf[w]])
               PROVE  EntryAt(tree'[s], x) = EntryAt(tree[s], x)
    OBVIOUS
  <2>1. CASE Thread(w)
    BY <2>1, ThreadSparesExcluded DEF Shaped
  <2>2. CASE UNCHANGED world
    BY <2>2 DEF world
  <2> QED
    BY <2>1, <2>2, WhoseStep DEF Shaped
<1>2. Spec => [][Spared]_vars
  BY <1>1, AlwaysShaped, PTL DEF Spec
<1> QED
  BY <1>2 DEF ExcludedIsLeftAlone

-----------------------------------------------------------------------------
(* A walk and a burst that do not overlap.                                   *)

OneAtATime == \A r, q \in Runs : on[r] /\ on[q] => r = q

LEMMA BusyIsOn ==
    ASSUME Typed, Shaped, NEW w \in Workers, Busy(w)
    PROVE  RunOf[w] \in Runs /\ on[RunOf[w]]
BY TaskOf DEF Shaped, IdleRuns, IdleRun, AllFree, Crew, Busy

LEMMA BusyShareARun ==
    ASSUME Typed, Shaped, OneAtATime, NEW a \in Workers, NEW b \in Workers, Busy(a), on[RunOf[b]]
    PROVE  RunOf[a] = RunOf[b] /\ on[RunOf[a]]
BY BusyIsOn, Bounds DEF OneAtATime

LEMMA NextOneAtATime ==
    ASSUME ~Overlap, Typed, OneAtATime, [Next]_vars
    PROVE  OneAtATime'
<1>1. CASE UNCHANGED on
  BY <1>1 DEF OneAtATime
<1>2. ASSUME NEW r \in Runs, NEW folders, NEW missing, Begin(r, folders, missing),
             \A q \in Runs : q # r => ~on[q]
      PROVE  OneAtATime'
  BY <1>2 DEF Begin, OneAtATime, Typed, RunsTyped
<1>3. CASE StartWalk
  BY <1>2, <1>3, Bounds DEF StartWalk
<1>4. CASE StartBurst
  BY <1>2, <1>4, Bounds DEF StartBurst
<1>5. ASSUME NEW r \in Runs, End(r) PROVE OneAtATime'
  BY <1>5 DEF End, OneAtATime, Typed, RunsTyped
<1>6. CASE Crash
  BY <1>6 DEF Crash, OneAtATime
<1>7. ASSUME NEW r \in Runs, NextLevel(r) \/ Cancel(r) PROVE UNCHANGED on
  BY <1>7 DEF NextLevel, Cancel
<1>8. ASSUME NEW w \in Workers, Thread(w) PROVE UNCHANGED on
  BY <1>8 DEF Thread, TakeFolder, ReadLocal, ReadLocalBlind, ListRemote, ListRemoteFails,
              PlanFolder, InReserve, Granted, HeldBack, RemoveFolder, Commit, Purge, MakeFolder,
              CheckFolder, KeepFolder, Upload, Download, DeleteFile, OpFails, quiet, runs
<1>9. ASSUME NEW x, BackoffElapses(x) PROVE UNCHANGED on
  BY <1>9 DEF BackoffElapses, runs
<1>10. CASE \/ \E d \in Dirs : Exclude(d) \/ Include(d) \/ FreeUp(d)
            \/ \E side \in Sides : \/ \E g \in Files : Edit(side, g) \/ Restore(side, g)
                                   \/ \E x \in Items : Dismiss(side, x)
  BY <1>1, <1>10, OutsideKeeps DEF runs
<1> QED
  BY <1>1, <1>3, <1>4, <1>5, <1>6, <1>7, <1>8, <1>9, <1>10
  DEF Next, Engine, Environment, RunStep, vars, runs

-----------------------------------------------------------------------------
(* The folders a run is at, and those it has still to do, have nothing in     *)
(* common: every folder is gone through once, by one thread.                  *)

ApartIn(r) ==
    /\ \A p, q \in queue[r] : p # q => Disjoint(p, q)
    /\ \A p, q \in next[r] : p # q => Disjoint(p, q)
    /\ \A p \in queue[r], q \in next[r] : Disjoint(p, q)
    /\ \A w \in Crew(r) : Busy(w) => \A q \in queue[r] \cup next[r] : Disjoint(job[w].folder, q)
    /\ \A a, b \in Crew(r) : Busy(a) /\ Busy(b) /\ a # b => Disjoint(job[a].folder, job[b].folder)
Apart == \A r \in Runs : ApartIn(r)

LEMMA DisjointIsSymmetric == \A p, q : Disjoint(p, q) => Disjoint(q, p)
BY DEF Disjoint

LEMMA ApartFrame ==
    ASSUME Apart, UNCHANGED <<queue, next>>,
           \A b \in Workers : Busy(b)' => Busy(b) /\ job'[b].folder = job[b].folder
    PROVE  Apart'
BY DEF Apart, ApartIn, Crew

LEMMA NothingIsApart ==
    ASSUME NEW r \in Runs, queue'[r] = {}, next'[r] = {}, \A w \in Crew(r) : ~Busy(w)'
    PROVE  ApartIn(r)'
BY DEF ApartIn, Crew

\* Most steps of a thread keep it in its folder.
LEMMA BecomesInFolder ==
    ASSUME Typed, NEW w \in Workers, NEW f1, NEW f2, NEW f3, NEW f4,
           \/ Becomes(w, [job[w] EXCEPT !.at = f1, !.seen = f2, !.whole = f3])
           \/ Becomes(w, [job[w] EXCEPT !.at = f1, !.whole = f2, !.seen = f3])
           \/ Becomes(w, [job[w] EXCEPT !.at = f1, !.kids = f2, !.plan = f3, !.todo = f4])
           \/ Becomes(w, [job[w] EXCEPT !.at = f1])
           \/ Becomes(w, [job[w] EXCEPT !.at = f1, !.plan = f2, !.todo = f3])
           \/ Becomes(w, [job[w] EXCEPT !.at = f1, !.doomed = f2])
           \/ Becomes(w, [job[w] EXCEPT !.todo = f1])
           \/ Becomes(w, [job[w] EXCEPT !.todo = f1, !.failed = f2])
    PROVE  job'[w].folder = job[w].folder
<1>1. job[w] \in Tasks
  BY TaskOf
<1>2. \/ job'[w] = [job[w] EXCEPT !.at = f1, !.seen = f2, !.whole = f3]
      \/ job'[w] = [job[w] EXCEPT !.at = f1, !.whole = f2, !.seen = f3]
      \/ job'[w] = [job[w] EXCEPT !.at = f1, !.kids = f2, !.plan = f3, !.todo = f4]
      \/ job'[w] = [job[w] EXCEPT !.at = f1]
      \/ job'[w] = [job[w] EXCEPT !.at = f1, !.plan = f2, !.todo = f3]
      \/ job'[w] = [job[w] EXCEPT !.at = f1, !.doomed = f2]
      \/ job'[w] = [job[w] EXCEPT !.todo = f1]
      \/ job'[w] = [job[w] EXCEPT !.todo = f1, !.failed = f2]
  BY BecomesKeeps
<1> QED
  BY <1>1, <1>2 DEF Tasks

LEMMA ThreadStaysInFolder ==
    ASSUME Typed, NEW w \in Workers, Thread(w), ~TakeFolder(w), ~Purge(w)
    PROVE  /\ UNCHANGED <<queue, next>> /\ Busy(w) /\ job'[w].folder = job[w].folder
<1> DEFINE Stays == job'[w].folder = job[w].folder
           Keeps == UNCHANGED runs /\ Busy(w)
<1>0. \A place : At(w, place) /\ place # "free" => Busy(w)
  BY DEF At, Busy
<1>1. UNCHANGED runs => UNCHANGED <<queue, next>>
  BY DEF runs
<1>2. CASE ReadLocal(w) \/ ReadLocalBlind(w)
  <2>1. Keeps
    BY <1>0, <1>2 DEF ReadLocal, ReadLocalBlind, quiet
  <2>2. Stays
    BY <1>2, BecomesInFolder, Zenon DEF ReadLocal, ReadLocalBlind
  <2> QED
    BY <1>1, <2>1, <2>2
<1>3. CASE ListRemote(w) \/ ListRemoteFails(w)
  <2>1. PICK there, listed : PlanFolder(w, there, listed)
    BY <1>3 DEF ListRemote, ListRemoteFails
  <2>2. Keeps
    BY <1>0, <2>1 DEF PlanFolder, quiet
  <2>3. Stays
    BY <2>1, BecomesInFolder, ZenonT(60) DEF PlanFolder
  <2> QED
    BY <1>1, <2>2, <2>3
<1>4. CASE InReserve(w)
  BY <1>4 DEF InReserve, At, Busy, quiet, runs
<1>5. CASE Granted(w)
  <2>1. Keeps
    BY <1>0, <1>5 DEF Granted, quiet
  <2>2. Stays
    BY <1>5, BecomesInFolder, Zenon DEF Granted
  <2> QED
    BY <1>1, <2>1, <2>2
<1>6. CASE HeldBack(w)
  <2>1. Keeps
    BY <1>0, <1>6 DEF HeldBack
  <2>2. Stays
    BY <1>6, BecomesInFolder, Zenon DEF HeldBack
  <2> QED
    BY <1>1, <2>1, <2>2
<1>7. CASE RemoveFolder(w)
  BY <1>7, RemoveFolderStep DEF RemoveFolder, Busy, runs
<1>8. CASE Commit(w)
  <2>1. Keeps
    BY <1>0, <1>8 DEF Commit, quiet
  <2>2. Stays
    BY <1>8, BecomesInFolder, Zenon DEF Commit
  <2> QED
    BY <1>1, <2>1, <2>2
<1>9. ASSUME NEW x, Succeeds(w, x), UNCHANGED runs, At(w, "apply")
      PROVE  Keeps /\ Stays
  BY <1>9, SucceedsStep DEF At, Busy
<1>10. CASE \/ \E d \in Dirs : MakeFolder(w, d)
            \/ \E g \in Files : Upload(w, g) \/ Download(w, g) \/ DeleteFile(w, g)
  <2>1. Keeps /\ Stays
    BY <1>9, <1>10 DEF MakeFolder, Upload, Download, DeleteFile, Takes, quiet
  <2> QED
    BY <1>1, <2>1
<1>11. ASSUME NEW d \in Dirs, CheckFolder(w, d) \/ KeepFolder(w, d)
       PROVE  Keeps /\ Stays
  <2>1. Keeps
    BY <1>0, <1>11 DEF CheckFolder, KeepFolder, Takes, quiet
  <2>2. Stays
    BY <1>11, BecomesInFolder, Zenon DEF CheckFolder, KeepFolder
  <2> QED
    BY <2>1, <2>2
<1>12. ASSUME NEW x \in Items, OpFails(w, x)
       PROVE  Keeps /\ Stays
  <2>1. Keeps
    BY <1>0, <1>12 DEF OpFails, Takes, quiet
  <2>2. Stays
    BY <1>12, BecomesInFolder, Zenon DEF OpFails
  <2> QED
    BY <2>1, <2>2
<1> QED
  BY <1>1, <1>2, <1>3, <1>4, <1>5, <1>6, <1>7, <1>8, <1>10, <1>11, <1>12 DEF Thread

\* What taking a folder does.
LEMMA TakeFolderStep ==
    ASSUME Typed, NEW w \in Workers, TakeFolder(w)
    PROVE  /\ on[RunOf[w]] /\ ~Busy(w) /\ next' = next
           /\ UNCHANGED <<world, store, held, removed, budget>>
           /\ \E q \in queue[RunOf[w]] :
                 /\ queue'[RunOf[w]] = queue[RunOf[w]] \ {q}
                 /\ job'[w] = job[w] \/ job'[w] = [job[w] EXCEPT !.at = "local", !.folder = q]
<1> DEFINE r == RunOf[w]
<1>1. r \in Runs
  BY TaskOf
<1>2. PICK q \in queue[r] :
          /\ queue' = [queue EXCEPT ![r] = @ \ {q}]
          /\ UNCHANGED job \/ Becomes(w, [job[w] EXCEPT !.at = "local", !.folder = q])
  BY DEF TakeFolder
<1>3. queue'[r] = queue[r] \ {q}
  BY <1>1, <1>2 DEF Typed, RunsTyped
<1>4. job'[w] = job[w] \/ job'[w] = [job[w] EXCEPT !.at = "local", !.folder = q]
  BY <1>2, BecomesKeeps
<1> QED
  BY <1>3, <1>4 DEF TakeFolder, At, Busy

LEMMA TakeFolderApart ==
    ASSUME Typed, Shaped, Apart, NEW w \in Workers, TakeFolder(w)
    PROVE  Apart'
<1> DEFINE r == RunOf[w]
<1>1. PICK q \in queue[r] :
          /\ queue'[r] = queue[r] \ {q}
          /\ job'[w] = job[w] \/ job'[w] = [job[w] EXCEPT !.at = "local", !.folder = q]
  BY TakeFolderStep
<1>2. ~Busy(w) /\ next' = next /\ r \in Runs
  BY TakeFolderStep, TaskOf
<1>3. ThreadLocal(w)
  BY TakeFolderIsLocal
<1>4. \A b \in Workers : b # w => job'[b] = job[b]
  BY <1>3 DEF ThreadLocal
<1>5. Busy(w)' => job'[w].folder = q
  BY <1>1, <1>2, TaskOf DEF Busy, Tasks
<1>6. ASSUME NEW p \in Runs, p # r PROVE ApartIn(p)'
  <2>1. queue'[p] = queue[p]
    BY <1>3, <1>6 DEF ThreadLocal
  <2>2. \A b \in Crew(p) : job'[b] = job[b]
    BY <1>4, <1>6 DEF Crew
  <2>3. Crew(p)' = Crew(p)
    BY DEF Crew
  <2> QED
    BY <1>2, <2>1, <2>2, <2>3 DEF Apart, ApartIn, Busy
<1>7. ApartIn(r)'
  <2>1. ApartIn(r) /\ Crew(r)' = Crew(r) /\ Crew(r) \subseteq Workers
    BY <1>2 DEF Apart, Crew
  <2>2. \A b \in Crew(r) : b # w => Busy(b)' = Busy(b) /\ job'[b].folder = job[b].folder
    BY <1>4, <2>1 DEF Busy
  <2>3. \A b \in Crew(r) : b # w /\ Busy(b)' => Disjoint(job'[b].folder, q)
    BY <1>1, <2>1, <2>2 DEF ApartIn
  <2>4. \A b \in Crew(r) : Busy(b)' => \A p \in queue'[r] \cup next'[r] : Disjoint(job'[b].folder, p)
    <3>1. \A p \in queue[r] \ {q} : Disjoint(q, p)
      BY <1>1, <2>1 DEF ApartIn
    <3>2. \A p \in next[r] : Disjoint(q, p)
      BY <1>1, <2>1 DEF ApartIn
    <3>3. \A b \in Crew(r) : b # w /\ Busy(b)' =>
              \A p \in queue[r] \cup next[r] : Disjoint(job'[b].folder, p)
      BY <2>1, <2>2 DEF ApartIn
    <3> QED
      BY <1>1, <1>2, <1>5, <3>1, <3>2, <3>3
  <2>5. \A a, b \in Crew(r) : Busy(a)' /\ Busy(b)' /\ a # b =>
            Disjoint(job'[a].folder, job'[b].folder)
    <3>1. \A a, b \in Crew(r) : Busy(a)' /\ Busy(b)' /\ a # b /\ a # w /\ b # w =>
              Disjoint(job'[a].folder, job'[b].folder)
      BY <2>1, <2>2 DEF ApartIn
    <3> QED
      BY <1>5, <2>3, <3>1, DisjointIsSymmetric
  <2>6. /\ \A p, z \in queue'[r] : p # z => Disjoint(p, z)
        /\ \A p, z \in next'[r] : p # z => Disjoint(p, z)
        /\ \A p \in queue'[r], z \in next'[r] : Disjoint(p, z)
    BY <1>1, <1>2, <2>1 DEF ApartIn
  <2> QED
    BY <2>1, <2>4, <2>5, <2>6 DEF ApartIn
<1> QED
  BY <1>6, <1>7 DEF Apart

LEMMA PurgeStep ==
    ASSUME Typed, NEW w \in Workers, Purge(w)
    PROVE  /\ on[RunOf[w]] /\ job[w].at = "purge" /\ Busy(w) /\ ~Busy(w)' /\ job'[w] = Free
           /\ queue' = queue /\ next'[RunOf[w]] \subseteq next[RunOf[w]] \cup Kids(w)
           /\ UNCHANGED <<world, held, removed, budget>>
           /\ \A h \in Files : rows'.f[h] \in {0, rows.f[h]}
<1>1. on[RunOf[w]] /\ job[w].at = "purge"
  BY DEF Purge, At
<1>2. job'[w] = Free
  BY BecomesKeeps DEF Purge
<1>3. next'[RunOf[w]] \subseteq next[RunOf[w]] \cup Kids(w)
  BY TaskOf DEF Purge, Typed, RunsTyped
<1>4. \A h \in Files : rows'.f[h] \in {0, rows.f[h]}
  BY TreesKeep DEF Purge, Typed, StoreTyped
<1> QED
  BY <1>1, <1>2, <1>3, <1>4, FreeIsTask DEF Purge, Busy

\* The folders a thread goes into are apart, and in its own.
LEMMA KidsAreApart ==
    ASSUME Typed, JobsShaped, NEW w \in Workers
    PROVE  /\ \A k \in job[w].kids : /\ k \in Children(job[w].folder) /\ k \in Items
                                     /\ Beneath(k) \subseteq Beneath(job[w].folder)
           /\ \A k, z \in job[w].kids : k # z => Disjoint(k, z)
           /\ \A k \in job[w].kids, x \in Children(job[w].folder) : x \notin Beneath(k)
<1>1. job[w].folder \in Folders /\ \A k \in job[w].kids : k \in Children(job[w].folder)
  BY TaskOf DEF JobsShaped, JobShape, Visible, Tasks
<1> QED
  BY <1>1, ChildIsBeneath, SiblingsAreApart

LEMMA PurgeApart ==
    ASSUME Typed, Shaped, Apart, NEW w \in Workers, Purge(w)
    PROVE  Apart'
<1> DEFINE r == RunOf[w]
<1>1. /\ Busy(w) /\ ~Busy(w)' /\ queue' = queue /\ next'[r] \subseteq next[r] \cup Kids(w)
      /\ r \in Runs
  BY PurgeStep, TaskOf
<1>2. ThreadLocal(w)
  BY RecordingIsLocal DEF Shaped
<1>3. \A b \in Workers : b # w => job'[b] = job[b]
  BY <1>2 DEF ThreadLocal
<1>4. ASSUME NEW p \in Runs, p # r PROVE ApartIn(p)'
  <2>1. next'[p] = next[p]
    BY <1>2, <1>4 DEF ThreadLocal
  <2>2. \A b \in Crew(p) : job'[b] = job[b]
    BY <1>3, <1>4 DEF Crew
  <2>3. Crew(p)' = Crew(p)
    BY DEF Crew
  <2> QED
    BY <1>1, <2>1, <2>2, <2>3 DEF Apart, ApartIn, Busy
<1>5. ApartIn(r)'
  <2>1. ApartIn(r) /\ Crew(r)' = Crew(r) /\ Crew(r) \subseteq Workers /\ w \in Crew(r)
    BY <1>1 DEF Apart, Crew
  <2>2. \A b \in Crew(r) : Busy(b)' => b # w /\ Busy(b) /\ job'[b].folder = job[b].folder
    BY <1>1, <1>3, <2>1 DEF Busy
  <2>3. \A k \in Kids(w) : Beneath(k) \subseteq Beneath(job[w].folder)
    BY KidsAreApart DEF Kids, Shaped
  <2>4. \A k, z \in Kids(w) : k # z => Disjoint(k, z)
    BY KidsAreApart DEF Kids, Shaped
  <2>5. \A q \in queue[r] \cup next[r], k \in Kids(w) : Disjoint(q, k) /\ Disjoint(k, q)
    <3>1. \A q \in queue[r] \cup next[r] : Disjoint(job[w].folder, q)
      BY <1>1, <2>1 DEF ApartIn
    <3> QED
      BY <2>3, <3>1 DEF Disjoint
  <2>6. \A b \in Crew(r), k \in Kids(w) : Busy(b)' => Disjoint(job'[b].folder, k)
    <3>1. \A b \in Crew(r) : Busy(b) /\ b # w => Disjoint(job[b].folder, job[w].folder)
      BY <1>1, <2>1 DEF ApartIn
    <3> QED
      BY <2>2, <2>3, <3>1 DEF Disjoint
  <2>7. /\ \A p, z \in queue'[r] : p # z => Disjoint(p, z)
        /\ \A p, z \in next'[r] : p # z => Disjoint(p, z)
        /\ \A p \in queue'[r], z \in next'[r] : Disjoint(p, z)
    BY <1>1, <2>1, <2>4, <2>5 DEF ApartIn
  <2>8. /\ \A b \in Crew(r) : Busy(b)' =>
               \A q \in queue'[r] \cup next'[r] : Disjoint(job'[b].folder, q)
        /\ \A a, b \in Crew(r) : Busy(a)' /\ Busy(b)' /\ a # b =>
               Disjoint(job'[a].folder, job'[b].folder)
    BY <1>1, <2>1, <2>2, <2>6 DEF ApartIn
  <2> QED
    BY <2>1, <2>7, <2>8 DEF ApartIn
<1> QED
  BY <1>4, <1>5 DEF Apart

LEMMA ThreadApart ==
    ASSUME Typed, Shaped, Apart, NEW w \in Workers, Thread(w)
    PROVE  Apart'
<1>1. CASE ~TakeFolder(w) /\ ~Purge(w)
  <2>1. UNCHANGED <<queue, next>> /\ Busy(w) /\ job'[w].folder = job[w].folder
    BY <1>1, ThreadStaysInFolder
  <2>2. \A b \in Workers : b # w => job'[b] = job[b]
    BY ThreadsAreLocal DEF ThreadLocal, Shaped
  <2>3. \A b \in Workers : Busy(b)' => Busy(b) /\ job'[b].folder = job[b].folder
    BY <2>1, <2>2 DEF Busy
  <2> QED
    BY <2>1, <2>3, ApartFrame
<1> QED
  BY <1>1, TakeFolderApart, PurgeApart

LEMMA NextApart ==
    ASSUME Typed, Shaped, Apart, [Next]_vars
    PROVE  Apart'
<1>1. CASE UNCHANGED <<queue, next, job>>
  BY <1>1, ApartFrame DEF Busy
<1>2. ASSUME NEW r \in Runs, NEW q, NEW missing, Begin(r, {q}, missing) PROVE Apart'
  <2>1. IdleRun(r) /\ next' = next /\ job' = job
    BY <1>2 DEF Begin, Shaped, IdleRuns
  <2>2. queue'[r] = {q} /\ \A p \in Runs : p # r => queue'[p] = queue[p]
    BY <1>2 DEF Begin, Typed, RunsTyped
  <2>3. ASSUME NEW p \in Runs, p # r PROVE ApartIn(p)'
    BY <2>1, <2>2, <2>3 DEF Apart, ApartIn, Crew, Busy
  <2>4. ApartIn(r)'
    BY <2>1, <2>2 DEF ApartIn, IdleRun, AllFree, Crew, Busy
  <2> QED
    BY <2>3, <2>4 DEF Apart
<1>3. CASE StartWalk \/ StartBurst
  BY <1>2, <1>3, Bounds DEF StartWalk, StartBurst
<1>4. ASSUME NEW r \in Runs, NextLevel(r) PROVE Apart'
  <2>1. AllFree(r) /\ job' = job /\ queue'[r] = next[r] /\ next'[r] = {}
        /\ \A p \in Runs : p # r => queue'[p] = queue[p] /\ next'[p] = next[p]
    BY <1>4 DEF NextLevel, Typed, RunsTyped
  <2>2. ASSUME NEW p \in Runs, p # r PROVE ApartIn(p)'
    BY <2>1, <2>2 DEF Apart, ApartIn, Crew, Busy
  <2>3. ApartIn(r)'
    BY <2>1 DEF Apart, ApartIn, AllFree, Crew, Busy
  <2> QED
    BY <2>2, <2>3 DEF Apart
<1>5. ASSUME NEW r \in Runs, End(r) PROVE Apart'
  <2>1. AllFree(r) /\ job' = job /\ queue'[r] = {} /\ next'[r] = {}
        /\ \A p \in Runs : p # r => queue'[p] = queue[p] /\ next'[p] = next[p]
    BY <1>5 DEF End, Typed, RunsTyped
  <2>2. ASSUME NEW p \in Runs, p # r PROVE ApartIn(p)'
    BY <2>1, <2>2 DEF Apart, ApartIn, Crew, Busy
  <2>3. ApartIn(r)'
    BY <2>1 DEF ApartIn, AllFree, Crew, Busy
  <2> QED
    BY <2>2, <2>3 DEF Apart
<1>6. CASE Crash
  BY <1>6, FreeIsTask DEF Crash, Apart, ApartIn, Crew, Busy
<1>7. ASSUME NEW r \in Runs, Cancel(r) PROVE Apart'
  BY <1>1, <1>7 DEF Cancel
<1>8. ASSUME NEW w \in Workers, Thread(w) PROVE Apart'
  BY <1>8, ThreadApart
<1>9. ASSUME NEW x, BackoffElapses(x) PROVE Apart'
  BY <1>1, <1>9 DEF BackoffElapses, runs
<1>10. CASE \/ \E d \in Dirs : Exclude(d) \/ Include(d) \/ FreeUp(d)
            \/ \E side \in Sides : \/ \E g \in Files : Edit(side, g) \/ Restore(side, g)
                                   \/ \E x \in Items : Dismiss(side, x)
  BY <1>1, <1>10, OutsideKeeps DEF runs
<1> QED
  BY <1>1, <1>3, <1>4, <1>5, <1>6, <1>7, <1>8, <1>9, <1>10
  DEF Next, Engine, Environment, RunStep, vars, runs


-----------------------------------------------------------------------------
(* What each step of a thread does to its job.                               *)

\* Nothing of it but where it is, and what is still to do.
SameCourse(w) ==
    /\ job'[w].folder = job[w].folder /\ job'[w].plan = job[w].plan /\ job'[w].kids = job[w].kids
    /\ job'[w].seen = job[w].seen /\ job'[w].whole = job[w].whole
SameDone(w) == job'[w].gone = job[w].gone /\ job'[w].done = job[w].done

LEMMA ReadStep ==
    ASSUME Typed, NEW w \in Workers, ReadLocal(w) \/ ReadLocalBlind(w)
    PROVE  /\ on[RunOf[w]] /\ job[w].at = "local" /\ job'[w].at = "remote"
           /\ job'[w].folder = job[w].folder /\ job'[w].plan = job[w].plan
           /\ job'[w].kids = job[w].kids /\ job'[w].todo = job[w].todo /\ SameDone(w)
           /\ UNCHANGED <<world, store, runs, held, removed, budget>>
<1>1. on[RunOf[w]] /\ job[w].at = "local" /\ UNCHANGED <<world, store, runs, held, removed, budget>>
  BY DEF ReadLocal, ReadLocalBlind, At, quiet
<1>2. job[w] \in Tasks
  BY TaskOf
<1>3. ASSUME NEW t, NEW b,
             \/ Becomes(w, [job[w] EXCEPT !.at = "remote", !.seen = t, !.whole = b])
             \/ Becomes(w, [job[w] EXCEPT !.at = "remote", !.whole = b, !.seen = t])
      PROVE  /\ job'[w].at = "remote"
             /\ job'[w].folder = job[w].folder /\ job'[w].plan = job[w].plan
             /\ job'[w].kids = job[w].kids /\ job'[w].todo = job[w].todo /\ SameDone(w)
  <2>1. \/ job'[w] = [job[w] EXCEPT !.at = "remote", !.seen = t, !.whole = b]
        \/ job'[w] = [job[w] EXCEPT !.at = "remote", !.whole = b, !.seen = t]
    BY <1>3, BecomesKeeps
  <2>2. CASE job'[w] = [job[w] EXCEPT !.at = "remote", !.seen = t, !.whole = b]
    BY <1>2, <2>2 DEF Tasks, SameDone
  <2>3. CASE job'[w] = [job[w] EXCEPT !.at = "remote", !.whole = b, !.seen = t]
    BY <1>2, <2>3 DEF Tasks, SameDone
  <2> QED
    BY <2>1, <2>2, <2>3
<1>4. /\ job'[w].at = "remote"
      /\ job'[w].folder = job[w].folder /\ job'[w].plan = job[w].plan
      /\ job'[w].kids = job[w].kids /\ job'[w].todo = job[w].todo /\ SameDone(w)
  BY <1>3, Zenon DEF ReadLocal, ReadLocalBlind
<1> QED
  BY <1>1, <1>4

LEMMA GrantedStep ==
    ASSUME Typed, NEW w \in Workers, Granted(w)
    PROVE  /\ on[RunOf[w]] /\ job[w].at = "reserve" /\ job'[w].at = "apply"
           /\ pc[w] = "idle" /\ answer[w] = "granted"
           /\ SameCourse(w) /\ SameDone(w) /\ job'[w].todo = job[w].todo
           /\ UNCHANGED <<world, store, runs, held, removed, budget>>
<1>1. job[w] \in Tasks
  BY TaskOf
<1>2. job'[w] = [job[w] EXCEPT !.at = "apply"]
  BY BecomesKeeps DEF Granted
<1>3. job'[w].at = "apply" /\ SameCourse(w) /\ SameDone(w) /\ job'[w].todo = job[w].todo
  BY <1>1, <1>2 DEF Tasks, SameCourse, SameDone
<1> QED
  BY <1>3 DEF Granted, At, quiet

LEMMA HeldBackStep ==
    ASSUME Typed, JobsShaped, NEW w \in Workers, HeldBack(w)
    PROVE  /\ on[RunOf[w]] /\ job[w].at = "reserve" /\ job'[w].at = "apply"
           /\ pc[w] = "idle" /\ answer[w] = "refused"
           /\ job'[w].plan = Without(job[w].plan) /\ job'[w].folder = job[w].folder
           /\ job'[w].kids = job[w].kids /\ job'[w].seen = job[w].seen /\ SameDone(w)
           /\ held'[RunOf[w]] = held[RunOf[w]] \cup PlannedDeletes(job[w].plan, snap[RunOf[w]])
           /\ UNCHANGED <<world, store, runs, removed, budget>>
<1> DEFINE P == Without(job[w].plan)
<1>1. job[w] \in Tasks
  BY TaskOf
<1>2. job'[w] = [job[w] EXCEPT !.at = "apply", !.plan = P, !.todo = Todo(P)]
  BY BecomesKeeps DEF HeldBack
<1> HIDE DEF P
<1>3. /\ job'[w].at = "apply" /\ job'[w].plan = P /\ job'[w].folder = job[w].folder
      /\ job'[w].kids = job[w].kids /\ job'[w].seen = job[w].seen /\ SameDone(w)
  BY <1>1, <1>2 DEF Tasks, SameDone
<1>4. held'[RunOf[w]] = held[RunOf[w]] \cup PlannedDeletes(job[w].plan, snap[RunOf[w]])
  BY HeldBackIsLocal
<1>5. /\ on[RunOf[w]] /\ job[w].at = "reserve" /\ pc[w] = "idle" /\ answer[w] = "refused"
      /\ UNCHANGED <<world, store, runs, removed, budget>>
  BY DEF HeldBack, At
<1> QED
  BY <1>3, <1>4, <1>5 DEF P

\* An operation that deletes nothing is done, or fails; a folder is kept.
LEMMA SettleStep ==
    ASSUME Typed, NEW w \in Workers,
           \/ \E d \in Dirs : MakeFolder(w, d) \/ KeepFolder(w, d)
           \/ \E g \in Files : Upload(w, g) \/ Download(w, g)
           \/ \E x \in Items : OpFails(w, x)
    PROVE  /\ on[RunOf[w]] /\ job[w].at = "apply" /\ job'[w].at = "apply"
           /\ SameCourse(w) /\ job'[w].gone = job[w].gone /\ job'[w].todo \subseteq job[w].todo
           /\ UNCHANGED <<store, runs, held, removed, budget>>
<1>1. job[w] \in Tasks
  BY TaskOf
<1> DEFINE Goal == /\ job'[w].at = "apply" /\ SameCourse(w) /\ job'[w].gone = job[w].gone
                   /\ job'[w].todo \subseteq job[w].todo
<1>2. ASSUME NEW x \in Items, NEW op \in Makes, Takes(w, x, op), Succeeds(w, x) PROVE Goal
  <2>1. job'[w] = [job[w] EXCEPT !.at = "apply", !.todo = @ \ {x}, !.done = @ \cup {x},
                                 !.gone = IF OpOf(w, x) \in Deletes THEN @ \cup {x} ELSE @]
    BY <1>2, BecomesKeeps DEF Succeeds
  <2>2. OpOf(w, x) \notin Deletes
    BY <1>2 DEF Takes, Makes, Deletes
  <2> QED
    BY <1>1, <2>1, <2>2 DEF Tasks, SameCourse
<1>3. ASSUME NEW x, job[w].at = "apply",
             \/ Becomes(w, [job[w] EXCEPT !.todo = @ \ {x}])
             \/ Becomes(w, [job[w] EXCEPT !.todo = @ \ {x}, !.failed = @ \cup {x}])
      PROVE  Goal
  <2>1. \/ job'[w] = [job[w] EXCEPT !.todo = @ \ {x}]
        \/ job'[w] = [job[w] EXCEPT !.todo = @ \ {x}, !.failed = @ \cup {x}]
    BY <1>3, BecomesKeeps
  <2>2. CASE job'[w] = [job[w] EXCEPT !.todo = @ \ {x}]
    BY <1>1, <1>3, <2>2 DEF Tasks, SameCourse
  <2>3. CASE job'[w] = [job[w] EXCEPT !.todo = @ \ {x}, !.failed = @ \cup {x}]
    BY <1>1, <1>3, <2>3 DEF Tasks, SameCourse
  <2> QED
    BY <2>1, <2>2, <2>3
<1>4. ASSUME NEW d \in Dirs, MakeFolder(w, d) PROVE Goal
  BY <1>2, <1>4, TreeConstants DEF MakeFolder, Makes
<1>5. ASSUME NEW g \in Files, Upload(w, g) \/ Download(w, g) PROVE Goal
  BY <1>2, <1>5, TreeConstants DEF Upload, Download, Makes
<1>6. ASSUME NEW x \in Items, OpFails(w, x) PROVE Goal
  BY <1>3, <1>6 DEF OpFails, Takes, At
<1>7. ASSUME NEW d \in Dirs, KeepFolder(w, d) PROVE Goal
  BY <1>3, <1>7 DEF KeepFolder, Takes, At
<1>8. Goal
  BY <1>4, <1>5, <1>6, <1>7
<1>9. /\ on[RunOf[w]] /\ job[w].at = "apply"
      /\ UNCHANGED <<store, runs, held, removed, budget>>
  BY DEF MakeFolder, Upload, Download, KeepFolder, OpFails, Takes, At, quiet
<1> QED
  BY <1>8, <1>9

LEMMA CheckStep ==
    ASSUME Typed, NEW w \in Workers, NEW d \in Dirs, CheckFolder(w, d)
    PROVE  /\ on[RunOf[w]] /\ job[w].at = "apply" /\ job'[w].at = "remove" /\ job'[w].doomed = d
           /\ SameCourse(w) /\ SameDone(w) /\ job'[w].todo = job[w].todo
           /\ UNCHANGED <<world, store, runs, held, removed, budget>>
           /\ job[w].plan[d].op \in Deletes
           /\ KnownInside(Side(job[w].plan[d].op), d, skips[RunOf[w]])
<1>1. job[w] \in Tasks
  BY TaskOf
<1>2. job'[w] = [job[w] EXCEPT !.at = "remove", !.doomed = d]
  BY BecomesKeeps DEF CheckFolder
<1>3. /\ job'[w].at = "remove" /\ job'[w].doomed = d /\ SameCourse(w) /\ SameDone(w)
      /\ job'[w].todo = job[w].todo
  BY <1>1, <1>2 DEF Tasks, SameCourse, SameDone
<1>4. PICK op \in Deletes : Takes(w, d, op) /\ KnownInside(Side(op), d, skips[RunOf[w]])
  BY DEF CheckFolder
<1>5. job[w].plan[d].op = op /\ on[RunOf[w]] /\ job[w].at = "apply"
  BY <1>4 DEF Takes, At, OpOf
<1>6. UNCHANGED <<world, store, runs, held, removed, budget>>
  BY DEF CheckFolder, quiet
<1> QED
  BY <1>3, <1>4, <1>5, <1>6

LEMMA DeleteFileStep ==
    ASSUME Typed, JobsShaped, NEW w \in Workers, NEW g \in Files, DeleteFile(w, g)
    PROVE  LET s == Side(job[w].plan[g].op) IN
           /\ on[RunOf[w]] /\ job[w].at = "apply" /\ job'[w].at = "apply"
           /\ SameCourse(w) /\ job'[w].gone = job[w].gone \cup {g}
           /\ job'[w].todo = job[w].todo \ {g}
           /\ g \in job[w].todo /\ job[w].plan[g].op \in Deletes /\ g \in Children(job[w].folder)
           /\ s \in Sides /\ Remove(w, s, g)
           /\ removed'[RunOf[w]] \subseteq removed[RunOf[w]] \cup {<<s, g>>}
           /\ UNCHANGED <<store, runs, held, budget>>
<1>1. PICK op \in Deletes : Takes(w, g, op) /\ Remove(w, Side(op), g) /\ Succeeds(w, g)
  BY DEF DeleteFile
<1>2. /\ on[RunOf[w]] /\ job[w].at = "apply" /\ g \in job[w].todo /\ job[w].plan[g].op = op
      /\ g \in Children(job[w].folder)
  BY <1>1, TakenIsVisible, TreeConstants
<1>3. Side(op) \in Sides
  BY DEF Side, Sides
<1>4. job'[w] = [job[w] EXCEPT !.at = "apply", !.todo = @ \ {g}, !.done = @ \cup {g},
                               !.gone = @ \cup {g}]
  BY <1>1, <1>2, BecomesKeeps DEF Succeeds, OpOf
<1>5. /\ job'[w].at = "apply" /\ SameCourse(w) /\ job'[w].gone = job[w].gone \cup {g}
      /\ job'[w].todo = job[w].todo \ {g}
  BY <1>4, TaskOf DEF Tasks, SameCourse
<1>6. removed'[RunOf[w]] \subseteq removed[RunOf[w]] \cup {<<Side(op), g>>}
  <2>1. removed'[RunOf[w]] =
            removed[RunOf[w]] \cup {<<Side(op), h>> : h \in Within(tree[Side(op)], g)}
    BY <1>1, <1>3, RemoveEffect
  <2>2. Within(tree[Side(op)], g) \subseteq {g}
    BY FileSubtree
  <2> QED
    BY <2>1, <2>2
<1>7. UNCHANGED <<store, runs, held, budget>>
  BY DEF DeleteFile
<1> QED
  BY <1>1, <1>2, <1>3, <1>5, <1>6, <1>7

LEMMA CommitStep ==
    ASSUME Typed, NEW w \in Workers, Commit(w)
    PROVE  /\ on[RunOf[w]] /\ job[w].at = "apply" /\ job'[w].at = "purge"
           /\ SameCourse(w) /\ SameDone(w)
           /\ UNCHANGED <<world, runs, held, removed, budget>>
<1>1. job'[w] = [job[w] EXCEPT !.at = "purge"]
  BY BecomesKeeps DEF Commit
<1>2. job'[w].at = "purge" /\ SameCourse(w) /\ SameDone(w)
  BY <1>1, TaskOf DEF Tasks, SameCourse, SameDone
<1> QED
  BY <1>2 DEF Commit, At, quiet


-----------------------------------------------------------------------------
(* Where a run has still to go it has deleted nothing, and the baseline has   *)
(* no file that the run's snapshot lacks.                                    *)

Fresh(r, q) ==
    /\ removed[r] \cap (Sides \X Beneath(q)) = {}
    /\ \A h \in Files \cap Beneath(q) : rows.f[h] # 0 => snap[r].f[h] # 0
FreshOf(w) ==
    /\ job[w].at \in Early => Fresh(RunOf[w], job[w].folder)
    /\ \A d \in job[w].kids \ job[w].gone : Fresh(RunOf[w], d)
FreshAhead ==
    /\ \A r \in Runs : \A q \in queue[r] \cup next[r] : Fresh(r, q)
    /\ \A w \in Workers : FreshOf(w)

LEMMA FreshFrame ==
    ASSUME NEW r, NEW q, Fresh(r, q), snap'[r] = snap[r],
           removed'[r] \cap (Sides \X Beneath(q)) \subseteq removed[r],
           \A h \in Files \cap Beneath(q) : rows'.f[h] \in {0, rows.f[h]}
    PROVE  Fresh(r, q)'
BY DEF Fresh

LEMMA FreshWithin ==
    ASSUME NEW r, NEW q, NEW p, Fresh(r, q), Beneath(p) \subseteq Beneath(q)
    PROVE  Fresh(r, p)
BY DEF Fresh

LEMMA FreshElsewhere ==
    ASSUME Typed, NEW w \in Workers, ThreadLocal(w), NEW q, Fresh(RunOf[w], q),
           Reaches(w) \cap Beneath(q) = {}
    PROVE  Fresh(RunOf[w], q)'
<1> DEFINE r == RunOf[w]
<1>1. snap'[r] = snap[r]
  BY DEF ThreadLocal
<1>2. removed'[r] \cap (Sides \X Beneath(q)) \subseteq removed[r]
  BY DEF ThreadLocal
<1>3. \A h \in Files \cap Beneath(q) : rows'.f[h] \in {0, rows.f[h]}
  BY DEF ThreadLocal
<1> QED
  BY <1>1, <1>2, <1>3, FreshFrame

\* A thread that is not at work has no folder ahead of it.
LEMMA IdleIsFresh ==
    ASSUME NEW w, job[w] = Free
    PROVE  FreshOf(w)
BY DEF FreshOf, Free, Early

\* A thread that deletes nothing, and forgets no row, leaves what is ahead of it fresh.
LEMMA OwnFreshFrame ==
    ASSUME NEW w \in Workers, FreshOf(w), UNCHANGED <<rows, removed, snap>>,
           job'[w].at \in Early => job[w].at \in Early /\ job'[w].folder = job[w].folder,
           job'[w].kids = job[w].kids, job[w].gone \subseteq job'[w].gone
    PROVE  FreshOf(w)'
BY DEF FreshOf, Fresh

LEMMA OwnFresh ==
    ASSUME Typed, Shaped, NEW w \in Workers, FreshOf(w), Thread(w), ~TakeFolder(w), ~Purge(w)
    PROVE  FreshOf(w)'
<1> DEFINE r == RunOf[w]
<1>0. r \in Runs /\ job[w] \in Tasks /\ JobsShaped /\ JobShape(job[w], skips[r])
  BY TaskOf DEF Shaped, JobsShaped
<1>1. CASE ReadLocal(w) \/ ReadLocalBlind(w)
  BY <1>1, ReadStep, OwnFreshFrame DEF SameDone, store, runs, Early
<1>2. CASE ListRemote(w) \/ ListRemoteFails(w)
  <2>1. PICK there \in Trees, listed \in BOOLEAN :
            /\ PlanFolder(w, there, listed)
            /\ there.d \cup Filed(there) \subseteq Visible(job[w], skips[r])
    BY <1>2, ListsPlan
  <2>2. /\ job[w].at = "remote" /\ job'[w].folder = job[w].folder
        /\ job'[w].kids = job[w].seen.d \cup there.d
    BY <1>0, <2>1, PlanStep
  <2>3. UNCHANGED <<rows, removed, snap>>
    BY <2>1 DEF PlanFolder, store, quiet, runs
  <2>4. Fresh(r, job[w].folder) /\ job[w].folder \in Folders
    BY <1>0, <2>2 DEF FreshOf, Early, Tasks
  <2>5. job'[w].kids \subseteq Children(job[w].folder)
    BY <1>0, <2>1, <2>2 DEF JobShape, Visible
  <2>6. \A d \in job'[w].kids : Fresh(r, d)
    BY <2>4, <2>5, ChildIsBeneath, FreshWithin
  <2> QED
    BY <2>2, <2>3, <2>4, <2>6 DEF FreshOf, Fresh
<1>3. CASE InReserve(w)
  BY <1>3, OwnFreshFrame DEF InReserve, store, quiet, runs
<1>4. CASE Granted(w)
  BY <1>4, GrantedStep, OwnFreshFrame DEF SameCourse, SameDone, store, runs, Early
<1>5. CASE HeldBack(w)
  BY <1>0, <1>5, HeldBackStep, OwnFreshFrame DEF SameDone, store, runs, Early
<1>6. CASE \/ \E d \in Dirs : MakeFolder(w, d) \/ KeepFolder(w, d)
           \/ \E g \in Files : Upload(w, g) \/ Download(w, g)
           \/ \E x \in Items : OpFails(w, x)
  BY <1>6, SettleStep, OwnFreshFrame DEF SameCourse, store, runs, Early
<1>7. ASSUME NEW d \in Dirs, CheckFolder(w, d) PROVE FreshOf(w)'
  BY <1>7, CheckStep, OwnFreshFrame DEF SameCourse, SameDone, store, runs, Early
<1>8. ASSUME NEW x \in job[w].kids \cup Files, NEW files, NEW s,
             x \in Children(job[w].folder), job[w].folder \in Folders,
             files \subseteq Subtree(x),
             removed'[r] \subseteq removed[r] \cup {<<s, h>> : h \in files},
             UNCHANGED <<rows, snap>>, job'[w].at = "apply", job'[w].kids = job[w].kids,
             job'[w].gone = job[w].gone \cup {x}
      PROVE  FreshOf(w)'
  <2>1. ASSUME NEW d \in job[w].kids, d \notin job[w].gone, d # x PROVE Fresh(r, d)'
    <3>1. Fresh(r, d) /\ d \in Children(job[w].folder) /\ d \in Dirs
      BY <1>0, <2>1 DEF FreshOf, JobShape, Visible, Tasks
    <3>2. Beneath(d) \subseteq Subtree(d)
      BY <3>1, FolderSubtree, TreeConstants DEF Beneath, Under
    <3>3. Subtree(x) \cap Subtree(d) = {}
      BY <1>8, <2>1, <3>1, SiblingsAreApart
    <3>4. removed'[r] \cap (Sides \X Beneath(d)) \subseteq removed[r]
      BY <1>8, <3>2, <3>3
    <3> QED
      BY <1>8, <3>1, <3>4, FreshFrame
  <2> QED
    BY <1>8, <2>1 DEF FreshOf, Early
<1>9. ASSUME NEW g \in Files, DeleteFile(w, g) PROVE FreshOf(w)'
  <2>1. /\ g \in Children(job[w].folder) /\ job[w].folder \in Folders /\ {g} \subseteq Subtree(g)
        /\ removed'[r] \subseteq removed[r] \cup {<<Side(job[w].plan[g].op), h>> : h \in {g}}
    BY <1>0, <1>9, DeleteFileStep, FileSubtree DEF Tasks
  <2>2. /\ UNCHANGED <<rows, snap>> /\ job'[w].at = "apply" /\ job'[w].kids = job[w].kids
        /\ job'[w].gone = job[w].gone \cup {g}
    BY <1>0, <1>9, DeleteFileStep DEF SameCourse, store, runs
  <2> QED
    BY <1>8, <2>1, <2>2
<1>10. CASE RemoveFolder(w)
  <2> DEFINE d == job[w].doomed
             s == Side(OpOf(w, d))
             files == Within(tree[s], d)
  <2>1. /\ d \in job[w].kids /\ d \in Children(job[w].folder) /\ job[w].folder \in Folders
        /\ job'[w].at = "apply" /\ job'[w].kids = job[w].kids
        /\ job'[w].gone = job[w].gone \cup {d}
    BY <1>0, <1>10, RemoveFolderStep, DoomedIsVisible
  <2>2. Remove(w, s, d) /\ s \in Sides /\ UNCHANGED <<rows, snap>>
    BY <1>10 DEF RemoveFolder, store, runs, Side, Sides
  <2>3. removed'[r] = removed[r] \cup {<<s, h>> : h \in files}
    BY <2>2, RemoveEffect
  <2>4. files \subseteq Subtree(d)
    BY DEF Within
  <2> QED
    BY <1>8, <2>1, <2>2, <2>3, <2>4
<1>11. CASE Commit(w)
  <2>1. /\ job'[w].at = "purge" /\ job'[w].kids = job[w].kids /\ job'[w].gone = job[w].gone
        /\ UNCHANGED <<removed, snap>>
    BY <1>11, CommitStep DEF SameCourse, SameDone, runs
  <2>2. ASSUME NEW d \in job[w].kids \ job[w].gone PROVE Fresh(r, d)'
    <3>1. Fresh(r, d) /\ d \in Children(job[w].folder) /\ job[w].folder \in Folders
      BY <1>0 DEF FreshOf, JobShape, Visible, Tasks
    <3>2. ASSUME NEW h \in Files \cap Beneath(d) PROVE rows'.f[h] \in {0, rows.f[h]}
      <4>1. h \notin Children(job[w].folder)
        BY <3>1, SiblingsAreApart
      <4> QED
        BY <1>0, <1>11, <4>1, CommitEffect
    <3> QED
      BY <2>1, <3>1, <3>2, FreshFrame
  <2> QED
    BY <2>1, <2>2 DEF FreshOf, Early
<1> QED
  BY <1>1, <1>2, <1>3, <1>4, <1>5, <1>6, <1>7, <1>9, <1>10, <1>11, Zenon DEF Thread

LEMMA ThreadFresh ==
    ASSUME Typed, Shaped, OneAtATime, Apart, FreshAhead, NEW w \in Workers, Thread(w)
    PROVE  FreshAhead'
<1> DEFINE r == RunOf[w]
<1>1. ThreadLocal(w) /\ r \in Runs /\ on[r] /\ JobsShaped
  BY ThreadsAreLocal, TaskOf DEF Shaped, ThreadLocal
<1>2. ASSUME NEW p \in Runs, p # r PROVE queue'[p] \cup next'[p] = {}
  BY <1>1, <1>2 DEF Shaped, IdleRuns, IdleRun, OneAtATime, ThreadLocal
<1>3. ASSUME NEW b \in Workers, b # w PROVE FreshOf(b)'
  <2>1. job'[b] = job[b]
    BY <1>1, <1>3 DEF ThreadLocal
  <2>2. CASE ~Busy(b)
    BY <1>1, <2>1, <2>2, IdleIsFresh DEF JobsShaped, JobShape, Busy, FreshOf, Free, Early
  <2>3. CASE Busy(b)
    <3>1. RunOf[b] = r
      BY <1>1, <2>3, BusyShareARun
    <3>2. Reaches(w) \cap Beneath(job[b].folder) = {}
      BY <1>1, <1>3, <2>3, <3>1 DEF Apart, ApartIn, Crew, Reaches, Disjoint
    <3>3. \A d \in job[b].kids : Beneath(d) \subseteq Beneath(job[b].folder)
      BY <1>1, KidsAreApart
    <3>4. FreshOf(b)
      BY DEF FreshAhead
    <3>5. ASSUME NEW q, q = job[b].folder, job[b].at \in Early PROVE Fresh(r, q)'
      BY <1>1, <3>1, <3>2, <3>4, <3>5, FreshElsewhere DEF FreshOf
    <3>6. \A d \in job[b].kids \ job[b].gone : Fresh(r, d)'
      <4>1. \A d \in job[b].kids \ job[b].gone : Fresh(r, d) /\ Reaches(w) \cap Beneath(d) = {}
        BY <3>1, <3>2, <3>3, <3>4 DEF FreshOf
      <4> QED
        BY <1>1, <4>1, FreshElsewhere
    <3> QED
      BY <2>1, <3>1, <3>5, <3>6 DEF FreshOf
  <2> QED
    BY <2>2, <2>3
<1>4. CASE TakeFolder(w)
  <2>1. PICK q \in queue[r] :
            /\ queue'[r] = queue[r] \ {q}
            /\ job'[w] = job[w] \/ job'[w] = [job[w] EXCEPT !.at = "local", !.folder = q]
    BY <1>4, TakeFolderStep
  <2>2. UNCHANGED <<rows, removed>> /\ next' = next /\ snap' = snap /\ job[w] = Free
    BY <1>1, <1>4, TakeFolderStep DEF store, ThreadLocal, JobsShaped, JobShape, Busy
  <2>3. \A p : Fresh(r, p) => Fresh(r, p)'
    BY <2>2 DEF Fresh
  <2>4. \A p \in queue'[r] \cup next'[r] : Fresh(r, p)'
    BY <1>1, <2>1, <2>2, <2>3 DEF FreshAhead
  <2>5. FreshOf(w)'
    <3>1. job[w].kids = {} /\ job[w].at = "free"
      BY <2>2 DEF Free
    <3>2. job'[w].kids = job[w].kids /\ (job'[w].at = job[w].at \/ job'[w].folder = q)
      BY <2>1, TaskOf DEF Tasks
    <3>3. job'[w].kids = {} /\ (job'[w].at \in Early => job'[w].folder = q)
      BY <3>1, <3>2 DEF Early
    <3> QED
      BY <1>1, <2>1, <2>3, <3>3 DEF FreshAhead, FreshOf
  <2> QED
    BY <1>2, <1>3, <2>4, <2>5 DEF FreshAhead
<1>5. CASE Purge(w)
  <2>1. /\ queue' = queue /\ next'[r] \subseteq next[r] \cup Kids(w) /\ job'[w] = Free
        /\ removed' = removed /\ \A h \in Files : rows'.f[h] \in {0, rows.f[h]}
    BY <1>5, PurgeStep
  <2>2. \A p : Fresh(r, p) => Fresh(r, p)'
    BY <1>1, <2>1 DEF Fresh, ThreadLocal
  <2>3. \A p \in queue'[r] \cup next'[r] : Fresh(r, p)'
    BY <1>1, <2>1, <2>2 DEF FreshAhead, FreshOf, Kids
  <2>4. FreshOf(w)'
    BY <2>1 DEF FreshOf, Free, Early
  <2> QED
    BY <1>2, <1>3, <2>3, <2>4 DEF FreshAhead
<1>6. CASE ~TakeFolder(w) /\ ~Purge(w)
  <2>1. UNCHANGED <<queue, next>> /\ Busy(w)
    BY <1>6, ThreadStaysInFolder
  <2>2. \A q \in queue[r] \cup next[r] : Reaches(w) \cap Beneath(q) = {} /\ Fresh(r, q)
    BY <1>1, <2>1 DEF Apart, ApartIn, Crew, Reaches, Disjoint, FreshAhead
  <2>3. \A q \in queue'[r] \cup next'[r] : Fresh(r, q)'
    BY <1>1, <2>1, <2>2, FreshElsewhere
  <2>4. FreshOf(w)'
    BY <1>6, OwnFresh DEF FreshAhead
  <2> QED
    BY <1>2, <1>3, <2>3, <2>4 DEF FreshAhead
<1> QED
  BY <1>4, <1>5, <1>6


LEMMA FreshRunFrame ==
    ASSUME FreshAhead, NEW p \in Runs, queue'[p] \cup next'[p] \subseteq queue[p] \cup next[p],
           snap'[p] = snap[p], removed'[p] = removed[p], UNCHANGED <<rows, job>>
    PROVE  /\ \A q \in queue'[p] \cup next'[p] : Fresh(p, q)'
           /\ \A w \in Crew(p) : FreshOf(w)'
<1>1. \A q : Fresh(p, q)' <=> Fresh(p, q)
  BY DEF Fresh
<1>2. \A w \in Crew(p) : FreshOf(w) /\ RunOf[w] = p
  BY DEF FreshAhead, Crew
<1>3. \A w \in Crew(p) : FreshOf(w)'
  BY <1>1, <1>2 DEF FreshOf
<1> QED
  BY <1>1, <1>3 DEF FreshAhead

LEMMA IdleCrewIsFresh ==
    ASSUME Shaped, NEW r, AllFree(r), job' = job
    PROVE  \A w \in Crew(r) : FreshOf(w)'
<1>1. \A w \in Crew(r) : w \in Workers /\ job[w].at = "free"
  BY DEF AllFree, Crew
<1>2. \A w \in Crew(r) : job'[w] = Free
  BY <1>1 DEF Shaped, JobsShaped, JobShape
<1> QED
  BY <1>2 DEF FreshOf, Free, Early

LEMMA NextFresh ==
    ASSUME ~Overlap, Typed, Shaped, OneAtATime, Apart, FreshAhead, [Next]_vars
    PROVE  FreshAhead'
<1>0. ASSUME \A r \in Runs : /\ \A q \in queue'[r] \cup next'[r] : Fresh(r, q)'
                             /\ \A w \in Crew(r) : FreshOf(w)'
      PROVE  FreshAhead'
  BY <1>0, Bounds DEF FreshAhead, Crew
<1>1. CASE UNCHANGED <<queue, next, snap, removed, rows, job>>
  <2>1. \A r \in Runs : /\ \A q \in queue'[r] \cup next'[r] : Fresh(r, q)'
                        /\ \A w \in Crew(r) : FreshOf(w)'
    BY <1>1, FreshRunFrame
  <2> QED
    BY <1>0, <2>1
<1>2. ASSUME NEW r \in Runs, NEW q, NEW missing, Begin(r, {q}, missing) PROVE FreshAhead'
  <2>1. IdleRun(r) /\ next' = next /\ job' = job /\ rows' = rows
    BY <1>2 DEF Begin, Shaped, IdleRuns, store
  <2>2. queue'[r] = {q} /\ snap'[r] = rows /\ removed'[r] = {}
        /\ \A p \in Runs : p # r => /\ queue'[p] = queue[p] /\ snap'[p] = snap[p]
                                    /\ removed'[p] = removed[p]
    BY <1>2 DEF Begin, Typed, RunsTyped, TalliesTyped
  <2>3. ASSUME NEW p \in Runs, p # r
        PROVE  /\ \A z \in queue'[p] \cup next'[p] : Fresh(p, z)'
               /\ \A w \in Crew(p) : FreshOf(w)'
    BY <2>1, <2>2, <2>3, FreshRunFrame
  <2>4. Fresh(r, q)'
    BY <2>1, <2>2 DEF Fresh
  <2>5. \A w \in Crew(r) : FreshOf(w)'
    BY <2>1, IdleCrewIsFresh DEF IdleRun
  <2>6. queue'[r] \cup next'[r] = {q}
    BY <2>1, <2>2 DEF IdleRun
  <2>7. \A z \in queue'[r] \cup next'[r] : Fresh(r, z)'
    BY <2>4, <2>6
  <2> QED
    BY <1>0, <2>3, <2>5, <2>7
<1>3. CASE StartWalk \/ StartBurst
  BY <1>2, <1>3, Bounds DEF StartWalk, StartBurst
<1>4. ASSUME NEW r \in Runs, NextLevel(r) PROVE FreshAhead'
  <2>1. /\ UNCHANGED <<snap, removed, rows, job>> /\ queue'[r] = next[r] /\ next'[r] = {}
        /\ \A p \in Runs : p # r => queue'[p] = queue[p] /\ next'[p] = next[p]
    BY <1>4 DEF NextLevel, Typed, RunsTyped, store
  <2>2. \A p \in Runs : queue'[p] \cup next'[p] \subseteq queue[p] \cup next[p]
    BY <2>1
  <2> QED
    BY <1>0, <2>1, <2>2, FreshRunFrame
<1>5. ASSUME NEW r \in Runs, End(r) PROVE FreshAhead'
  <2>1. AllFree(r) /\ job' = job /\ rows' = rows /\ queue'[r] = {} /\ next'[r] = {}
        /\ \A p \in Runs : p # r => /\ queue'[p] = queue[p] /\ next'[p] = next[p]
                                    /\ snap'[p] = snap[p] /\ removed'[p] = removed[p]
    BY <1>5 DEF End, Typed, RunsTyped, TalliesTyped, store
  <2>2. ASSUME NEW p \in Runs, p # r
        PROVE  /\ \A z \in queue'[p] \cup next'[p] : Fresh(p, z)'
               /\ \A w \in Crew(p) : FreshOf(w)'
    BY <2>1, <2>2, FreshRunFrame
  <2>3. \A w \in Crew(r) : FreshOf(w)'
    BY <2>1, IdleCrewIsFresh
  <2> QED
    BY <1>0, <2>1, <2>2, <2>3
<1>6. CASE Crash
  <2>1. \A r \in Runs : queue'[r] \cup next'[r] = {}
    BY <1>6 DEF Crash
  <2>2. \A w \in Workers : job'[w] = Free
    BY <1>6 DEF Crash
  <2>3. \A w \in Workers : FreshOf(w)'
    BY <2>2 DEF FreshOf, Free, Early
  <2> QED
    BY <2>1, <2>3 DEF FreshAhead
<1>7. ASSUME NEW r \in Runs, Cancel(r) PROVE FreshAhead'
  BY <1>1, <1>7 DEF Cancel, store
<1>8. ASSUME NEW w \in Workers, Thread(w) PROVE FreshAhead'
  BY <1>8, ThreadFresh
<1>9. ASSUME NEW x, BackoffElapses(x) PROVE FreshAhead'
  BY <1>1, <1>9 DEF BackoffElapses, runs
<1>10. CASE \/ \E d \in Dirs : Exclude(d) \/ Include(d) \/ FreeUp(d)
            \/ \E side \in Sides : \/ \E g \in Files : Edit(side, g) \/ Restore(side, g)
                                   \/ \E x \in Items : Dismiss(side, x)
  BY <1>1, <1>10, OutsideKeeps DEF runs
<1>11. CASE UNCHANGED vars
  BY <1>1, <1>11 DEF vars, runs, store
<1> QED
  BY <1>3, <1>4, <1>5, <1>6, <1>7, <1>8, <1>9, <1>10, <1>11, Zenon
  DEF Next, Engine, Environment, RunStep

-----------------------------------------------------------------------------
(* A folder about to be removed holds nothing the baseline does not have.     *)

KnownOf(w) ==
    job[w].at = "remove" =>
        LET t == tree[Side(OpOf(w, job[w].doomed))]
        IN  \A h \in Within(t, job[w].doomed) : rows.f[h] = t.f[h]
RemovalKnown == \A w \in Workers : KnownOf(w)

\* One thread does nothing in the folder another is at.
LEMMA OthersAreLeftAlone ==
    ASSUME Typed, Shaped, OneAtATime, Apart, NEW w \in Workers, Thread(w),
           NEW b \in Workers, b # w, Busy(b)
    PROVE  LET here == Beneath(job[b].folder) IN
           /\ job'[b] = job[b] /\ RunOf[b] = RunOf[w]
           /\ \A h \in Files \cap here : /\ rows'.f[h] = rows.f[h]
                                         /\ \A s \in Sides : tree'[s].f[h] = tree[s].f[h]
           /\ held'[RunOf[w]] \cap (Sides \X here) \subseteq held[RunOf[w]]
           /\ Reaches(w) \cap here = {}
<1>1. ThreadLocal(w) /\ RunOf[w] \in Runs /\ on[RunOf[w]]
  BY ThreadsAreLocal, TaskOf DEF Shaped, ThreadLocal
<1>2. RunOf[b] = RunOf[w]
  BY <1>1, BusyShareARun
<1>3. Reaches(w) \cap Beneath(job[b].folder) = {}
  BY <1>1, <1>2 DEF Apart, ApartIn, Crew, Reaches, Disjoint
<1> QED
  BY <1>1, <1>2, <1>3 DEF ThreadLocal

LEMMA KnownFrame ==
    ASSUME NEW w \in Workers, KnownOf(w), UNCHANGED <<tree, rows>>, job'[w] = job[w]
    PROVE  KnownOf(w)'
BY DEF KnownOf, OpOf

\* The thread's own step leads to a removal only by a look through the folder.
LEMMA OwnRemovalIsChecked ==
    ASSUME Typed, Shaped, NEW w \in Workers, Thread(w), job'[w].at = "remove"
    PROVE  \E d \in Dirs : CheckFolder(w, d)
<1>0. JobsShaped
  BY DEF Shaped
<1>1. ~TakeFolder(w)
  <2>1. ASSUME TakeFolder(w) PROVE FALSE
    <3>1. job[w].at = "free"
      BY <2>1 DEF TakeFolder, At
    <3>2. \E q : job'[w] = job[w] \/ job'[w] = [job[w] EXCEPT !.at = "local", !.folder = q]
      BY <2>1, TakeFolderStep
    <3> QED
      BY <3>1, <3>2, TaskOf DEF Tasks
  <2> QED
    BY <2>1
<1>2. ~(ListRemote(w) \/ ListRemoteFails(w))
  <2>1. ASSUME ListRemote(w) \/ ListRemoteFails(w) PROVE FALSE
    <3>1. PICK there \in Trees, listed \in BOOLEAN : PlanFolder(w, there, listed)
      BY <2>1, ListsPlan
    <3>2. job'[w].at \in {"reserve", "apply"}
      BY <1>0, <3>1, PlanStep
    <3> QED
      BY <3>2
  <2> QED
    BY <2>1
<1>3. ~InReserve(w)
  BY DEF InReserve, At
<1>4. ~(ReadLocal(w) \/ ReadLocalBlind(w)) /\ ~Granted(w) /\ ~HeldBack(w) /\ ~Commit(w)
  BY <1>0, ReadStep, GrantedStep, HeldBackStep, CommitStep
<1>5. ~Purge(w)
  BY PurgeStep, FreeIsTask
<1>6. ~(\/ \E d \in Dirs : MakeFolder(w, d) \/ KeepFolder(w, d)
        \/ \E g \in Files : Upload(w, g) \/ Download(w, g)
        \/ \E x \in Items : OpFails(w, x))
  BY SettleStep
<1>7. ~RemoveFolder(w) /\ ~(\E g \in Files : DeleteFile(w, g))
  BY <1>0, RemoveFolderStep, DeleteFileStep
<1> QED
  BY <1>1, <1>2, <1>3, <1>4, <1>5, <1>6, <1>7, Zenon DEF Thread

LEMMA ThreadKnown ==
    ASSUME Typed, Shaped, OneAtATime, Apart, RemovalKnown, NEW w \in Workers, Thread(w)
    PROVE  RemovalKnown'
<1>0. JobsShaped
  BY DEF Shaped
<1>1. ASSUME NEW b \in Workers, b # w, job'[b].at = "remove" PROVE KnownOf(b)'
  <2>1. job'[b] = job[b]
    BY <1>0, <1>1, ThreadsAreLocal DEF ThreadLocal
  <2>2. Busy(b) /\ job[b].at = "remove" /\ KnownOf(b)
    BY <1>1, <2>1 DEF Busy, RemovalKnown
  <2> DEFINE d == job[b].doomed
             s == Side(OpOf(b, d))
  <2>3. s \in Sides /\ Subtree(d) \subseteq Beneath(job[b].folder)
    BY <1>0, <2>2, DoomedIsVisible DEF Side, Sides
  <2>4. \A h \in Files \cap Subtree(d) : rows'.f[h] = rows.f[h] /\ tree'[s].f[h] = tree[s].f[h]
    BY <1>1, <2>2, <2>3, OthersAreLeftAlone
  <2>5. \A h \in Within(tree[s], d) : rows.f[h] = tree[s].f[h]
    BY <2>2 DEF KnownOf
  <2> HIDE DEF d, s
  <2>6. \A h \in Within(tree'[s], d) : rows'.f[h] = tree'[s].f[h]
    BY <2>4, <2>5 DEF Within
  <2>7. job'[b].doomed = d /\ Side(job'[b].plan[d].op) = s
    BY <2>1 DEF d, s, OpOf
  <2> QED
    BY <2>6, <2>7 DEF KnownOf, OpOf
<1>2. ASSUME job'[w].at = "remove" PROVE KnownOf(w)'
  <2>1. PICK d \in Dirs : CheckFolder(w, d)
    BY <1>2, OwnRemovalIsChecked
  <2>2. /\ job'[w].doomed = d /\ job'[w].plan = job[w].plan /\ UNCHANGED <<tree, rows>>
        /\ KnownInside(Side(job[w].plan[d].op), d, skips[RunOf[w]])
    BY <2>1, CheckStep DEF SameCourse, world, store
  <2> QED
    BY <2>2 DEF KnownOf, KnownInside, OpOf
<1>3. \A b \in Workers : job'[b].at # "remove" => KnownOf(b)'
  BY DEF KnownOf
<1> QED
  BY <1>1, <1>2, <1>3 DEF RemovalKnown

LEMMA NextKnown ==
    ASSUME ~Overlap, Typed, Shaped, OneAtATime, Apart, RemovalKnown, [Next]_vars
    PROVE  RemovalKnown'
<1>1. CASE UNCHANGED <<tree, rows, job>>
  BY <1>1, KnownFrame DEF RemovalKnown
<1>2. CASE \/ StartWalk \/ StartBurst \/ \E r \in Runs : NextLevel(r) \/ End(r) \/ Cancel(r)
           \/ \E x : BackoffElapses(x)
           \/ UNCHANGED vars
  BY <1>1, <1>2 DEF StartWalk, StartBurst, Begin, NextLevel, End, Cancel, BackoffElapses,
                    vars, world, store
<1>3. CASE \E w \in Workers : Thread(w)
  BY <1>3, ThreadKnown
<1>4. CASE Crash
  <2>1. \A w \in Workers : job'[w] = Free
    BY <1>4 DEF Crash
  <2> QED
    BY <2>1, FreeIsTask DEF RemovalKnown, KnownOf
<1>5. CASE \/ \E d \in Dirs : Exclude(d) \/ Include(d) \/ FreeUp(d)
           \/ \E side \in Sides : \/ \E g \in Files : Edit(side, g) \/ Restore(side, g)
                                  \/ \E x \in Items : Dismiss(side, x)
  <2>1. \A w \in Workers : job'[w].at # "remove"
    BY <1>5, OutsideKeeps
  <2> QED
    BY <2>1 DEF RemovalKnown, KnownOf
<1> QED
  BY <1>2, <1>3, <1>4, <1>5, Zenon DEF Next, Engine, Environment, RunStep

\* Between them, what the runs may rely on when no two of them overlap.
Sound == Typed /\ Shaped /\ OneAtATime /\ Apart /\ FreshAhead /\ RemovalKnown

LEMMA AlwaysSound ==
    ASSUME ~Overlap
    PROVE  Spec => []Sound
<1>1. Init => Sound
  <2> SUFFICES ASSUME Init PROVE Sound
    OBVIOUS
  <2>1. \A r \in Runs : ~on[r] /\ queue[r] = {} /\ next[r] = {}
    BY DEF Init
  <2>2. \A w \in Workers : job[w] = Free
    BY DEF Init
  <2>3. OneAtATime
    BY <2>1 DEF OneAtATime
  <2>4. Apart
    BY <2>1, <2>2, FreeIsTask DEF Apart, ApartIn, Crew, Busy
  <2>5. FreshAhead
    BY <2>1, <2>2, IdleIsFresh DEF FreshAhead
  <2>6. RemovalKnown
    BY <2>2, FreeIsTask DEF RemovalKnown, KnownOf
  <2> QED
    BY <2>3, <2>4, <2>5, <2>6, InitTyped, InitShaped DEF Sound
<1>2. Sound /\ [Next]_vars => Sound'
  BY NextTyped, NextShaped, NextOneAtATime, NextApart, NextFresh, NextKnown, Zenon DEF Sound
<1> QED
  BY <1>1, <1>2, PTL DEF Spec


-----------------------------------------------------------------------------
(* The guard against mass deletions.  What a thread may still delete: once   *)
(* its plan was let through, what is left of it; while it asks, all of it.   *)

Toll(rec, x) == IF x \in Files THEN {x} ELSE Within(rec, x)
Condemned(P, items, rec) ==
    {p \in Sides \X Files : \E x \in items : /\ P[x].op \in Deletes /\ p[1] = Side(P[x].op)
                                             /\ p[2] \in Toll(rec, x)}
Asked(w) == PlannedDeletes(job[w].plan, snap[RunOf[w]])
Remaining(w) == Condemned(job[w].plan, job[w].todo, snap[RunOf[w]])
Open(w) ==
    IF job[w].at \in {"apply", "remove"} THEN Remaining(w)
    ELSE IF job[w].at = "reserve" /\ ~late[w] THEN Asked(w) ELSE {}
Pending(w) ==
    IF job[w].at \in {"apply", "remove"} THEN Remaining(w)
    ELSE IF job[w].at = "reserve" /\ pc[w] = "idle" /\ answer[w] = "granted" THEN Asked(w)
    ELSE {}
Charged(r) == removed[r] \cup UNION {Pending(w) : w \in Crew(r)}

GuardOf(r) ==
    /\ held[r] # {} => tripped[r] /\ Guarded(r)
    /\ \A w \in Crew(r) :
          /\ job[w].at = "reserve" => Guarded(r)
          /\ pc[w] # "idle" => job[w].at = "reserve" /\ ask[w] = Cardinality(Asked(w))
          /\ Open(w) \cap held[r] = {}
    /\ removed[r] \cap held[r] = {}
    /\ Guarded(r) => Cardinality(Charged(r)) <= granted[r]

LEMMA PlannedAreCondemned ==
    \A P, rec : PlannedDeletes(P, rec) = Condemned(P, Items, rec)
<1> SUFFICES ASSUME NEW P, NEW rec PROVE PlannedDeletes(P, rec) = Condemned(P, Items, rec)
  OBVIOUS
<1>1. ASSUME NEW op, NEW g
      PROVE  g \in ToDelete(P, op, rec) <=>
                 g \in Files /\ \E x \in Items : P[x].op = op /\ g \in Toll(rec, x)
  <2>1. \A x \in Items : x \in Files \/ x \in Dirs
    BY TreeConstants
  <2>2. \A x : x \in Files => x \in Items /\ x \notin Dirs
    BY TreeConstants
  <2>3. \A x : x \in Dirs => x \in Items /\ x \notin Files
    BY TreeConstants
  <2>4. \A x : Within(rec, x) \subseteq Files
    BY WithinIsFiles
  <2> QED
    BY <2>1, <2>2, <2>3, <2>4 DEF ToDelete, Toll
<1>2. /\ Side("deleteLocal") = "here" /\ Side("deleteRemote") = "there"
      /\ "here" \in Sides /\ "there" \in Sides /\ Deletes = {"deleteLocal", "deleteRemote"}
  BY DEF Side, Sides, Deletes
<1>3. ASSUME NEW p \in PlannedDeletes(P, rec) PROVE p \in Condemned(P, Items, rec)
  <2>1. CASE \E g \in ToDelete(P, "deleteLocal", rec) : p = <<"here", g>>
    BY <1>1, <1>2, <2>1 DEF Condemned
  <2>2. CASE \E g \in ToDelete(P, "deleteRemote", rec) : p = <<"there", g>>
    BY <1>1, <1>2, <2>2 DEF Condemned
  <2> QED
    BY <2>1, <2>2 DEF PlannedDeletes
<1>4. ASSUME NEW p \in Condemned(P, Items, rec) PROVE p \in PlannedDeletes(P, rec)
  <2>1. PICK x \in Items : P[x].op \in Deletes /\ p[1] = Side(P[x].op) /\ p[2] \in Toll(rec, x)
    BY DEF Condemned
  <2>2. p = <<p[1], p[2]>> /\ p[2] \in Files
    BY DEF Condemned
  <2>3. p[2] \in ToDelete(P, P[x].op, rec)
    BY <1>1, <2>1, <2>2
  <2> QED
    BY <1>2, <2>1, <2>2, <2>3 DEF PlannedDeletes
<1> QED
  BY <1>3, <1>4

LEMMA CondemnedIsMonotone ==
    ASSUME NEW P, NEW rec, NEW items, NEW more, items \subseteq more
    PROVE  Condemned(P, items, rec) \subseteq Condemned(P, more, rec)
BY DEF Condemned

LEMMA NoDeletesNoneCondemned ==
    ASSUME NEW P, NEW rec, NEW items, \A x \in items : P[x].op \notin Deletes
    PROVE  Condemned(P, items, rec) = {}
BY DEF Condemned

\* What a thread may delete is in the folder it is at.
LEMMA AskedIsInFolder ==
    ASSUME Typed, JobsShaped, NEW w \in Workers
    PROVE  /\ Asked(w) \subseteq Sides \X Beneath(job[w].folder)
           /\ Remaining(w) \subseteq Asked(w)
           /\ Asked(w) \subseteq Sides \X Files
<1>1. job[w].folder \in Folders /\ job[w].todo \subseteq Items
  BY TaskOf DEF Tasks
<1>2. \A x \in Items : job[w].plan[x].op \in Deletes => x \in Children(job[w].folder)
  BY PlannedIsChild
<1>3. Asked(w) \subseteq Sides \X Beneath(job[w].folder)
  BY <1>1, <1>2, PlannedIsBeneath DEF Asked
<1>4. Remaining(w) \subseteq Asked(w)
  BY <1>1, PlannedAreCondemned, CondemnedIsMonotone DEF Asked, Remaining
<1> QED
  BY <1>3, <1>4, PlannedAreFiles DEF Asked

LEMMA OpenIsInFolder ==
    ASSUME Typed, JobsShaped, NEW w \in Workers
    PROVE  /\ Open(w) \subseteq Sides \X Beneath(job[w].folder) /\ Pending(w) \subseteq Sides \X Files
           /\ ~Busy(w) => Open(w) = {} /\ Pending(w) = {}
BY AskedIsInFolder DEF Open, Pending, Busy

\* A run whose threads are free, and which has deleted and held back nothing.
LEMMA QuietGuard ==
    ASSUME NEW r \in Runs, held[r] = {}, removed[r] = {}, granted[r] \in Nat,
           \A w \in Crew(r) : job[w].at = "free" /\ pc[w] = "idle"
    PROVE  GuardOf(r)
<1>1. \A w \in Crew(r) : Open(w) = {} /\ Pending(w) = {}
  BY DEF Open, Pending
<1>2. Charged(r) = {}
  BY <1>1 DEF Charged
<1>3. Cardinality(Charged(r)) = 0
  BY <1>2, FS_EmptySet
<1> QED
  BY <1>1, <1>3 DEF GuardOf

LEMMA SameOpen ==
    ASSUME NEW w, snap'[RunOf[w]] = snap[RunOf[w]], job'[w] = job[w],
           pc'[w] = pc[w], answer'[w] = answer[w], late'[w] = late[w]
    PROVE  Open(w)' = Open(w) /\ Pending(w)' = Pending(w) /\ Asked(w)' = Asked(w)
<1>1. Asked(w)' = Asked(w) /\ Remaining(w)' = Remaining(w)
  BY DEF Asked, Remaining
<1> QED
  BY <1>1 DEF Open, Pending

LEMMA GuardFrame ==
    ASSUME NEW r \in Runs, GuardOf(r),
           held'[r] = held[r], removed'[r] = removed[r], snap'[r] = snap[r], skips'[r] = skips[r],
           tripped'[r] = tripped[r], granted'[r] = granted[r],
           \A w \in Crew(r) : /\ job'[w] = job[w] /\ pc'[w] = pc[w] /\ ask'[w] = ask[w]
                              /\ answer'[w] = answer[w] /\ late'[w] = late[w]
    PROVE  GuardOf(r)'
<1>1. Guarded(r)' = Guarded(r)
  BY DEF Guarded
<1>2. \A w \in Crew(r) : Open(w)' = Open(w) /\ Pending(w)' = Pending(w) /\ Asked(w)' = Asked(w)
  BY SameOpen DEF Crew
<1>3. Crew(r)' = Crew(r)
  BY DEF Crew
<1>4. {Pending(w) : w \in Crew(r)}' = {Pending(w) : w \in Crew(r)}
  BY <1>2, <1>3
<1>5. Charged(r)' = Charged(r)
  BY <1>4 DEF Charged
<1>6. \A w \in Crew(r) : /\ (job'[w].at = "reserve" => Guarded(r))
                         /\ (pc'[w] # "idle" => job'[w].at = "reserve"
                                                /\ ask'[w] = Cardinality(Asked(w)'))
                         /\ Open(w)' \cap held'[r] = {}
  BY <1>2 DEF GuardOf
<1> QED
  BY <1>1, <1>3, <1>5, <1>6 DEF GuardOf


\* Most steps of a thread ask nothing of the budget, and spend what they were let do.
Spends(w) ==
    LET r == RunOf[w] IN
    /\ UNCHANGED budget /\ held'[r] = held[r]
    /\ job[w].at # "reserve" \/ pc[w] = "idle"
    /\ job'[w].at # "reserve"
    /\ Open(w)' \subseteq Open(w) /\ removed'[r] \subseteq removed[r] \cup Open(w)
    /\ removed'[r] \cup Pending(w)' \subseteq removed[r] \cup Pending(w)

LEMMA LessRemains ==
    ASSUME NEW w, job'[w].plan = job[w].plan, job'[w].todo \subseteq job[w].todo, UNCHANGED runs
    PROVE  Remaining(w)' \subseteq Remaining(w)
BY CondemnedIsMonotone DEF Remaining, runs

LEMMA NothingOpen ==
    ASSUME NEW w, job'[w].at \notin {"reserve", "apply", "remove"}
    PROVE  Open(w)' = {} /\ Pending(w)' = {}
BY DEF Open, Pending

\* A folder takes along no more than was asked for.
LEMMA DeletesWhatRemains ==
    ASSUME Typed, Shaped, NEW w \in Workers, FreshOf(w), KnownOf(w),
           (\E g \in Files : DeleteFile(w, g)) \/ RemoveFolder(w)
    PROVE  /\ removed'[RunOf[w]] \subseteq removed[RunOf[w]] \cup Remaining(w)
           /\ job[w].at \in {"apply", "remove"} /\ job'[w].at = "apply"
           /\ job'[w].plan = job[w].plan /\ job'[w].todo \subseteq job[w].todo
           /\ UNCHANGED <<runs, held, budget>>
<1> DEFINE r == RunOf[w]
<1>0. JobsShaped /\ r \in Runs
  BY TaskOf DEF Shaped
<1>1. ASSUME NEW g \in Files, DeleteFile(w, g)
      PROVE  /\ removed'[r] \subseteq removed[r] \cup Remaining(w)
             /\ job[w].at = "apply" /\ job'[w].at = "apply"
             /\ job'[w].plan = job[w].plan /\ job'[w].todo \subseteq job[w].todo
             /\ UNCHANGED <<runs, held, budget>>
  <2> DEFINE s == Side(job[w].plan[g].op)
  <2>1. /\ g \in job[w].todo /\ job[w].plan[g].op \in Deletes /\ s \in Sides
        /\ removed'[r] \subseteq removed[r] \cup {<<s, g>>}
    BY <1>0, <1>1, DeleteFileStep
  <2>2. <<s, g>> \in Remaining(w)
    BY <2>1 DEF Remaining, Condemned, Toll
  <2> QED
    BY <1>0, <1>1, <2>1, <2>2, DeleteFileStep DEF SameCourse
<1>2. CASE RemoveFolder(w)
  <2> DEFINE d == job[w].doomed
             s == Side(OpOf(w, d))
             files == Within(tree[s], d)
  <2>1. /\ job[w].at = "remove" /\ job'[w].at = "apply"
        /\ job'[w].plan = job[w].plan /\ job'[w].todo \subseteq job[w].todo
    BY <1>2, RemoveFolderStep
  <2>2. /\ d \in Dirs /\ d \in job[w].todo /\ job[w].plan[d].op \in Deletes
        /\ d \in job[w].kids \ job[w].gone
    BY <1>0, <2>1, DoomedIsVisible
  <2>3. Remove(w, s, d) /\ s \in Sides /\ UNCHANGED <<runs, held, budget>>
    BY <1>2 DEF RemoveFolder, Side, Sides
  <2>4. removed'[r] = removed[r] \cup {<<s, h>> : h \in files}
    BY <2>3, RemoveEffect
  <2>5. ASSUME NEW h \in files PROVE <<s, h>> \in Remaining(w)
    <3>1. rows.f[h] = tree[s].f[h]
      BY <2>1 DEF KnownOf
    <3>2. h \in Files /\ h \in Under(d) /\ tree[s].f[h] # 0
      BY <2>2, FolderSubtree
    <3>3. h \in Beneath(d)
      BY <3>2 DEF Beneath, Under
    <3>4. snap[r].f[h] # 0
      BY <2>2, <3>1, <3>2, <3>3 DEF FreshOf, Fresh
    <3>5. h \in Within(snap[r], d) /\ d \notin Files
      BY <2>2, <3>2, <3>4, FolderSubtree
    <3>6. h \in Toll(snap[r], d)
      BY <3>5 DEF Toll
    <3> QED
      BY <2>2, <2>3, <3>2, <3>6 DEF Remaining, Condemned, OpOf
  <2> QED
    BY <2>1, <2>3, <2>4, <2>5
<1> QED
  BY <1>1, <1>2

LEMMA SpendsStep ==
    ASSUME Typed, Shaped, NEW w \in Workers, FreshOf(w), KnownOf(w), IInv, Thread(w),
           ~(ListRemote(w) \/ ListRemoteFails(w)), ~InReserve(w), ~HeldBack(w)
    PROVE  Spends(w)
<1> DEFINE r == RunOf[w]
<1>0. JobsShaped /\ r \in Runs
  BY TaskOf DEF Shaped
<1>1. CASE TakeFolder(w)
  <2>1. \E q : job'[w] = job[w] \/ job'[w] = [job[w] EXCEPT !.at = "local", !.folder = q]
    BY <1>1, TakeFolderStep
  <2>2. job[w].at = "free"
    BY <1>1 DEF TakeFolder, At
  <2>3. job'[w].at \in {"free", "local"}
    BY <2>1, <2>2, TaskOf DEF Tasks
  <2> QED
    BY <1>1, <2>2, <2>3, NothingOpen, TakeFolderStep DEF Spends
<1>2. CASE ReadLocal(w) \/ ReadLocalBlind(w)
  BY <1>2, ReadStep, NothingOpen DEF Spends
<1>3. CASE Granted(w)
  <2>1. /\ job[w].at = "reserve" /\ job'[w].at = "apply" /\ pc[w] = "idle"
        /\ answer[w] = "granted" /\ job'[w].plan = job[w].plan /\ job'[w].todo = job[w].todo
        /\ UNCHANGED <<runs, held, removed, budget>>
    BY <1>3, GrantedStep DEF SameCourse
  <2>2. ~late[w]
    BY <2>1 DEF IInv, LateIsRefused
  <2>3. Remaining(w)' \subseteq Asked(w)
    BY <1>0, <2>1, LessRemains, AskedIsInFolder
  <2>4. Open(w) = Asked(w) /\ Pending(w) = Asked(w)
    BY <2>1, <2>2 DEF Open, Pending
  <2>5. Open(w)' = Remaining(w)' /\ Pending(w)' = Remaining(w)'
    BY <2>1 DEF Open, Pending
  <2> QED
    BY <2>1, <2>3, <2>4, <2>5 DEF Spends
<1>4. ASSUME job[w].at \in {"apply", "remove"}, job'[w].at \in {"apply", "remove"},
             job'[w].plan = job[w].plan, job'[w].todo \subseteq job[w].todo,
             UNCHANGED <<runs, held, budget>>,
             removed'[r] \subseteq removed[r] \cup Remaining(w)
      PROVE  Spends(w)
  <2>1. Remaining(w)' \subseteq Remaining(w)
    BY <1>4, LessRemains
  <2>2. Open(w) = Remaining(w) /\ Pending(w) = Remaining(w)
    BY <1>4 DEF Open, Pending
  <2>3. Open(w)' = Remaining(w)' /\ Pending(w)' = Remaining(w)'
    BY <1>4 DEF Open, Pending
  <2> QED
    BY <1>4, <2>1, <2>2, <2>3 DEF Spends
<1>5. CASE \/ \E d \in Dirs : MakeFolder(w, d) \/ KeepFolder(w, d)
           \/ \E g \in Files : Upload(w, g) \/ Download(w, g)
           \/ \E x \in Items : OpFails(w, x)
  BY <1>4, <1>5, SettleStep DEF SameCourse
<1>6. ASSUME NEW d \in Dirs, CheckFolder(w, d) PROVE Spends(w)
  BY <1>4, <1>6, CheckStep DEF SameCourse
<1>7. CASE (\E g \in Files : DeleteFile(w, g)) \/ RemoveFolder(w)
  BY <1>4, <1>7, DeletesWhatRemains
<1>8. CASE Commit(w)
  BY <1>8, CommitStep, NothingOpen DEF Spends
<1>9. CASE Purge(w)
  BY <1>9, PurgeStep, FreeIsTask, NothingOpen DEF Spends
<1> QED
  BY <1>1, <1>2, <1>3, <1>5, <1>6, <1>7, <1>8, <1>9, Zenon DEF Thread


LEMMA PairsAreFinite == IsFiniteSet(Sides \X Files)
<1>1. IsFiniteSet({} \cup {"here"} \cup {"there"})
  BY FS_AddElement, FS_EmptySet
<1>2. Sides = {} \cup {"here"} \cup {"there"}
  BY DEF Sides
<1> QED
  BY <1>1, <1>2, TreeConstants, FS_Product

LEMMA UnionIsNoLarger ==
    ASSUME NEW S, NEW T, IsFiniteSet(S), IsFiniteSet(T)
    PROVE  IsFiniteSet(S \cup T) /\ Cardinality(S \cup T) <= Cardinality(S) + Cardinality(T)
<1>1. Cardinality(S) \in Nat /\ Cardinality(T) \in Nat /\ Cardinality(S \cap T) \in Nat
  BY FS_Intersection, FS_CardinalityType
<1>2. /\ IsFiniteSet(S \cup T)
      /\ Cardinality(S \cup T) = Cardinality(S) + Cardinality(T) - Cardinality(S \cap T)
  BY FS_Union
<1> QED
  BY <1>1, <1>2

LEMMA ChargedIsFinite ==
    ASSUME Typed, JobsShaped, NEW r \in Runs
    PROVE  IsFiniteSet(Charged(r)) /\ Cardinality(Charged(r)) \in Nat
<1>1. IsFiniteSet(Sides \X Files)
  BY PairsAreFinite
<1>2. removed[r] \subseteq Sides \X Files
  BY DEF Typed, TalliesTyped
<1>3. \A w \in Crew(r) : Pending(w) \subseteq Sides \X Files
  BY OpenIsInFolder DEF Crew
<1>4. Charged(r) \subseteq Sides \X Files
  BY <1>2, <1>3 DEF Charged
<1> QED
  BY <1>1, <1>4, FS_Subset, FS_CardinalityType

\* A step that charges the run nothing new.
LEMMA ChargedStep ==
    ASSUME NEW r, NEW w \in Crew(r), NEW X,
           \A b \in Crew(r) : b # w => Pending(b)' = Pending(b),
           removed'[r] \cup Pending(w)' \subseteq removed[r] \cup Pending(w) \cup X
    PROVE  Charged(r)' \subseteq Charged(r) \cup X
<1>1. Crew(r)' = Crew(r)
  BY DEF Crew
<1>2. ASSUME NEW b \in Crew(r), NEW p \in Pending(b)' PROVE p \in Charged(r) \cup X
  BY <1>2 DEF Charged
<1>3. \A p \in removed'[r] : p \in Charged(r) \cup X
  BY DEF Charged
<1>4. Charged(r)' = removed'[r] \cup UNION {Pending(b)' : b \in Crew(r)}
  BY <1>1 DEF Charged
<1> QED
  BY <1>2, <1>3, <1>4

LEMMA ChargeStaysWithin ==
    ASSUME Typed, JobsShaped, NEW r \in Runs, Charged(r)' \subseteq Charged(r), granted'[r] = granted[r],
           granted[r] \in Nat, Cardinality(Charged(r)) <= granted[r]
    PROVE  Cardinality(Charged(r)') <= granted'[r]
<1>1. IsFiniteSet(Charged(r)) /\ Cardinality(Charged(r)) \in Nat
  BY ChargedIsFinite
<1>2. IsFiniteSet(Charged(r)') /\ Cardinality(Charged(r)') <= Cardinality(Charged(r))
  BY <1>1, FS_Subset
<1>3. Cardinality(Charged(r)') \in Nat
  BY <1>2, FS_CardinalityType
<1> QED
  BY <1>1, <1>2, <1>3

\* The other threads of the run, while one of them takes a step.
LEMMA CrewKept ==
    ASSUME Typed, JobsShaped, NEW w \in Workers, Thread(w), NEW b \in Workers, b # w,
           pc'[b] = pc[b], answer'[b] = answer[b], late'[b] = late[b]
    PROVE  /\ job'[b] = job[b] /\ Open(b)' = Open(b) /\ Pending(b)' = Pending(b)
           /\ Asked(b)' = Asked(b)
<1>1. job'[b] = job[b] /\ snap' = snap
  BY ThreadsAreLocal DEF ThreadLocal
<1> QED
  BY <1>1, SameOpen

LEMMA GuardedStays ==
    ASSUME Typed, JobsShaped, NEW w \in Workers, Thread(w)
    PROVE  \A r : Guarded(r)' = Guarded(r) /\ Crew(r)' = Crew(r)
BY ThreadsAreLocal DEF ThreadLocal, Guarded, Crew

LEMMA SpendsGuard ==
    ASSUME Typed, Shaped, IInv, NEW w \in Workers, Thread(w), Spends(w), GuardOf(RunOf[w])
    PROVE  GuardOf(RunOf[w])'
<1> DEFINE r == RunOf[w]
<1>0. JobsShaped /\ r \in Runs /\ w \in Crew(r) /\ granted[r] \in Nat
  BY TaskOf DEF Shaped, Crew, IInv, BudgetTypeOK
<1>1. /\ UNCHANGED <<tripped, pc, ask, answer, granted, late>> /\ held'[r] = held[r]
      /\ job'[w].at # "reserve"
      /\ Open(w)' \subseteq Open(w) /\ removed'[r] \subseteq removed[r] \cup Open(w)
      /\ removed'[r] \cup Pending(w)' \subseteq removed[r] \cup Pending(w)
      /\ job[w].at # "reserve" \/ pc[w] = "idle"
  BY DEF Spends, budget
<1>2. \A b \in Crew(r) : b # w => /\ job'[b] = job[b] /\ Open(b)' = Open(b)
                                  /\ Pending(b)' = Pending(b) /\ Asked(b)' = Asked(b)
  BY <1>0, <1>1, CrewKept DEF Crew
<1>3. Guarded(r)' = Guarded(r) /\ Crew(r)' = Crew(r)
  BY <1>0, GuardedStays
<1>4. held'[r] # {} => tripped'[r] /\ Guarded(r)'
  BY <1>1, <1>3 DEF GuardOf
<1>5. pc[w] = "idle"
  BY <1>0, <1>1 DEF GuardOf
<1>6. \A b \in Crew(r) : /\ job'[b].at = "reserve" => Guarded(r)
                         /\ pc'[b] # "idle" => /\ job'[b].at = "reserve"
                                               /\ ask'[b] = Cardinality(Asked(b)')
                         /\ Open(b)' \cap held'[r] = {}
  BY <1>0, <1>1, <1>2, <1>5 DEF GuardOf
<1>7. removed'[r] \cap held'[r] = {}
  BY <1>0, <1>1 DEF GuardOf
<1>8. Charged(r)' \subseteq Charged(r)
  <2>1. removed'[r] \cup Pending(w)' \subseteq removed[r] \cup Pending(w) \cup {}
    BY <1>1
  <2>2. Charged(r)' \subseteq Charged(r) \cup {}
    BY <1>0, <1>2, <2>1, ChargedStep
  <2> QED
    BY <2>2
<1>9. Guarded(r) => Cardinality(Charged(r)') <= granted'[r]
  BY <1>0, <1>1, <1>8, ChargeStaysWithin DEF GuardOf
<1> QED
  BY <1>3, <1>4, <1>6, <1>7, <1>9 DEF GuardOf

LEMMA HeldBackGuard ==
    ASSUME Typed, Shaped, OneAtATime, Apart, FreshAhead, IInv, RefusalsTrip,
           NEW w \in Workers, HeldBack(w), Thread(w), GuardOf(RunOf[w])
    PROVE  GuardOf(RunOf[w])'
<1> DEFINE r == RunOf[w]
<1>0. JobsShaped /\ r \in Runs /\ w \in Crew(r) /\ granted[r] \in Nat /\ Busy(w)
  BY TaskOf, HeldBackStep DEF Shaped, Crew, IInv, BudgetTypeOK, Busy
<1>1. /\ job[w].at = "reserve" /\ job'[w].at = "apply" /\ pc[w] = "idle"
      /\ answer[w] = "refused" /\ job'[w].plan = Without(job[w].plan)
      /\ held'[r] = held[r] \cup Asked(w)
      /\ UNCHANGED <<runs, removed, budget>>
  BY <1>0, HeldBackStep DEF Asked
<1>2. UNCHANGED <<tripped, pc, ask, answer, granted, late>>
  BY <1>1 DEF budget
<1>3. \A b \in Crew(r) : b # w => /\ job'[b] = job[b] /\ Open(b)' = Open(b)
                                  /\ Pending(b)' = Pending(b) /\ Asked(b)' = Asked(b)
  BY <1>0, <1>2, CrewKept DEF Crew
<1>4. Guarded(r)' = Guarded(r) /\ Crew(r)' = Crew(r)
  BY <1>0, GuardedStays
<1>5. tripped'[r] /\ Guarded(r)'
  BY <1>0, <1>1, <1>2, <1>4 DEF RefusalsTrip, GuardOf
<1>6. Open(w)' = {} /\ Pending(w)' = {}
  <2>1. job'[w].todo \subseteq Items
    BY TaskOf DEF HeldBack, Todo, Becomes, Typed, JobsTyped, Tasks
  <2>2. \A x \in job'[w].todo : job'[w].plan[x].op \notin Deletes
    BY <1>1, <2>1 DEF Without, Verdict, Deletes
  <2>3. Remaining(w)' = {}
    BY <2>2, NoDeletesNoneCondemned DEF Remaining
  <2> QED
    BY <1>1, <2>3 DEF Open, Pending
<1>7. \A b \in Crew(r) : b # w => Open(b) \cap Asked(w) = {}
  <2>1. Asked(w) \subseteq Sides \X Beneath(job[w].folder)
    BY <1>0, AskedIsInFolder
  <2>2. ASSUME NEW b \in Crew(r), b # w, Busy(b) PROVE Open(b) \cap Asked(w) = {}
    <3>1. Disjoint(job[b].folder, job[w].folder)
      BY <1>0, <2>2 DEF Apart, ApartIn
    <3>2. Open(b) \subseteq Sides \X Beneath(job[b].folder)
      BY <1>0, OpenIsInFolder DEF Crew
    <3> QED
      BY <2>1, <3>1, <3>2 DEF Disjoint
  <2>3. \A b \in Crew(r) : ~Busy(b) => Open(b) = {}
    BY <1>0, OpenIsInFolder DEF Crew
  <2> QED
    BY <2>2, <2>3
<1>8. \A b \in Crew(r) : /\ job'[b].at = "reserve" => Guarded(r)
                         /\ pc'[b] # "idle" => /\ job'[b].at = "reserve"
                                               /\ ask'[b] = Cardinality(Asked(b)')
                         /\ Open(b)' \cap held'[r] = {}
  BY <1>0, <1>1, <1>2, <1>3, <1>6, <1>7 DEF GuardOf
<1>9. removed'[r] \cap held'[r] = {}
  <2>1. removed[r] \cap Asked(w) = {}
    <3>1. Fresh(r, job[w].folder)
      BY <1>1 DEF FreshAhead, FreshOf, Early
    <3>2. Asked(w) \subseteq Sides \X Beneath(job[w].folder)
      BY <1>0, AskedIsInFolder
    <3> QED
      BY <3>1, <3>2 DEF Fresh
  <2> QED
    BY <1>1, <2>1 DEF GuardOf
<1>10. Guarded(r) => Cardinality(Charged(r)') <= granted'[r]
  <2>1. removed'[r] \cup Pending(w)' \subseteq removed[r] \cup Pending(w) \cup {}
    BY <1>1, <1>6
  <2>2. Charged(r)' \subseteq Charged(r) \cup {}
    BY <1>0, <1>3, <2>1, ChargedStep
  <2> QED
    BY <1>0, <1>2, <2>2, ChargeStaysWithin DEF GuardOf
<1> QED
  BY <1>4, <1>5, <1>8, <1>9, <1>10 DEF GuardOf


\* What a thread's plan must come to, for the guard to hold as before.
LEMMA PlanKeepsGuard ==
    ASSUME Typed, JobsShaped, NEW w \in Workers, Thread(w), GuardOf(RunOf[w]),
           granted[RunOf[w]] \in Nat, RunOf[w] \in Runs,
           UNCHANGED <<held, removed, tripped, granted>>,
           \A b \in Workers : b # w => /\ pc'[b] = pc[b] /\ ask'[b] = ask[b]
                                       /\ answer'[b] = answer[b] /\ late'[b] = late[b],
           job'[w].at = "reserve" => Guarded(RunOf[w]),
           pc'[w] # "idle" => job'[w].at = "reserve" /\ ask'[w] = Cardinality(Asked(w)'),
           Open(w)' \cap held[RunOf[w]] = {},
           Guarded(RunOf[w]) => Pending(w)' = {}
    PROVE  GuardOf(RunOf[w])'
<1> DEFINE r == RunOf[w]
<1>1. w \in Crew(r)
  BY DEF Crew
<1>2. \A b \in Crew(r) : b # w => /\ job'[b] = job[b] /\ Open(b)' = Open(b)
                                  /\ Pending(b)' = Pending(b) /\ Asked(b)' = Asked(b)
  BY CrewKept DEF Crew
<1>3. Guarded(r)' = Guarded(r) /\ Crew(r)' = Crew(r)
  BY GuardedStays
<1>4. \A b \in Crew(r) : /\ job'[b].at = "reserve" => Guarded(r)
                         /\ pc'[b] # "idle" => /\ job'[b].at = "reserve"
                                               /\ ask'[b] = Cardinality(Asked(b)')
                         /\ Open(b)' \cap held'[r] = {}
  BY <1>2 DEF GuardOf, Crew
<1>5. Guarded(r) => Cardinality(Charged(r)') <= granted'[r]
  <2>1. ASSUME Guarded(r) PROVE Charged(r)' \subseteq Charged(r) \cup {}
    <3>1. removed'[r] \cup Pending(w)' \subseteq removed[r] \cup Pending(w) \cup {}
      BY <2>1
    <3> QED
      BY <1>1, <1>2, <3>1, ChargedStep
  <2> QED
    BY <2>1, ChargeStaysWithin DEF GuardOf
<1> QED
  BY <1>3, <1>4, <1>5 DEF GuardOf

LEMMA PlanGuard ==
    ASSUME Typed, Shaped, IInv, NEW w \in Workers, Thread(w),
           ListRemote(w) \/ ListRemoteFails(w), GuardOf(RunOf[w])
    PROVE  GuardOf(RunOf[w])'
<1> DEFINE r == RunOf[w]
<1>0. JobsShaped /\ r \in Runs /\ w \in Crew(r) /\ granted[r] \in Nat
  BY TaskOf DEF Shaped, Crew, IInv, BudgetTypeOK
<1>1. PICK there \in Trees, listed \in BOOLEAN : PlanFolder(w, there, listed)
  BY ListsPlan
<1> DEFINE P == IF SeenWhole(w, listed) THEN Decided(w, there) ELSE Without(Decided(w, there))
           planned == PlannedDeletes(P, snap[r])
           asked == Cardinality(planned)
           asks  == asked > 0 /\ Guarded(r)
<1>2. /\ job[w].at = "remote" /\ job'[w].at = (IF asks THEN "reserve" ELSE "apply")
      /\ job'[w].plan = P /\ job'[w].todo = Todo(P)
  BY <1>0, <1>1, PlanStep
<1>3. /\ IF asks THEN Reserve(w, asked) ELSE UNCHANGED budget
      /\ UNCHANGED <<runs, held, removed>>
  BY <1>1 DEF PlanFolder, quiet
<1>4. asked \in 0..MaxAsk /\ Todo(P) \subseteq Items
  BY AskIsBounded DEF Todo
<1>5. Asked(w)' = planned /\ Remaining(w)' \subseteq planned
  <2>1. snap' = snap
    BY <1>3 DEF runs
  <2>2. Asked(w)' = planned
    BY <1>2, <2>1 DEF Asked
  <2>3. Remaining(w)' = Condemned(P, Todo(P), snap[r])
    BY <1>2, <2>1 DEF Remaining
  <2> QED
    BY <1>4, <2>2, <2>3, PlannedAreCondemned, CondemnedIsMonotone
<1> HIDE DEF P
<1>6. asked = 0 => planned = {}
  <2>1. planned \subseteq Sides \X Files
    BY PlannedAreFiles
  <2>2. IsFiniteSet(planned)
    BY <2>1, PairsAreFinite, FS_Subset
  <2> QED
    BY <2>2, FS_EmptySet
<1> HIDE DEF planned
<1>7. /\ \A b \in Workers : b # w => /\ pc'[b] = pc[b] /\ ask'[b] = ask[b]
                                     /\ answer'[b] = answer[b] /\ late'[b] = late[b]
      /\ UNCHANGED <<tripped, granted>>
  BY <1>3 DEF Reserve, Goto, IInv, BudgetTypeOK, budget
<1>8. CASE asks
  <2>1. ask'[w] = asked /\ answer'[w] = "none" /\ late'[w] = tripped[r]
    BY <1>3, <1>8 DEF Reserve, Goto, IInv, BudgetTypeOK
  <2>2. job'[w].at = "reserve" /\ Pending(w)' = {}
    BY <1>2, <1>8, <2>1 DEF Pending
  <2>3. Open(w)' \cap held[r] = {}
    <3>1. CASE tripped[r]
      BY <2>1, <2>2, <3>1 DEF Open
    <3>2. CASE ~tripped[r]
      BY <1>0, <3>2 DEF GuardOf
    <3> QED
      BY <3>1, <3>2
  <2> QED
    BY <1>0, <1>3, <1>5, <1>7, <1>8, <2>1, <2>2, <2>3, PlanKeepsGuard
<1>9. CASE ~asks
  <2>1. job'[w].at = "apply" /\ UNCHANGED <<pc, ask, answer, late>>
    BY <1>2, <1>3, <1>9 DEF budget
  <2>2. Open(w)' = Remaining(w)' /\ Pending(w)' = Remaining(w)'
    BY <2>1 DEF Open, Pending
  <2>3. Guarded(r) => Remaining(w)' = {}
    BY <1>4, <1>5, <1>6, <1>9
  <2>4. Open(w)' \cap held[r] = {}
    BY <1>0, <2>2, <2>3 DEF GuardOf
  <2>5. pc'[w] = "idle"
    BY <1>0, <1>2, <2>1 DEF GuardOf
  <2> QED
    BY <1>0, <1>3, <1>7, <2>1, <2>2, <2>3, <2>4, <2>5, PlanKeepsGuard
<1> QED
  BY <1>8, <1>9

\* Every step inside reserve: the flag stays up once it is up, and a grant is counted.
LEMMA AnswerStep ==
    ASSUME IInv, NEW w \in Workers, Answer(w)
    PROVE  /\ pc[w] # "idle" /\ late' = late
           /\ \A b \in Workers : b # w => /\ pc'[b] = pc[b] /\ ask'[b] = ask[b]
                                          /\ answer'[b] = answer[b]
           /\ \A q \in Runs : /\ tripped[q] => tripped'[q]
                              /\ q # RunOf[w] => tripped'[q] = tripped[q] /\ granted'[q] = granted[q]
           /\ pc'[w] # "idle" => ask'[w] = ask[w]
           /\ \/ /\ granted'[RunOf[w]] = granted[RunOf[w]]
                 /\ pc'[w] # "idle" \/ answer'[w] # "granted"
              \/ granted'[RunOf[w]] = granted[RunOf[w]] + ask[w] /\ pc'[w] = "idle"
<1> USE BudgetAssumption DEF IInv, BudgetTypeOK
<1>1. CASE GoOn(w)
  BY <1>1 DEF GoOn, Goto
<1>2. CASE RefuseTripped(w)
  BY <1>2 DEF RefuseTripped, Goto, Reply
<1>3. CASE LoadUsed(w)
  BY <1>3 DEF LoadUsed, Goto
<1>4. CASE Trip(w)
  BY <1>4 DEF Trip, Goto, Reply
<1>5. CASE Take(w)
  BY <1>5 DEF Take, Grant, Goto, Reply
<1>6. CASE Retry(w)
  BY <1>6 DEF Retry
<1> QED
  BY <1>1, <1>2, <1>3, <1>4, <1>5, <1>6 DEF Answer

LEMMA ReserveGuard ==
    ASSUME Typed, Shaped, IInv, NEW w \in Workers, Thread(w), InReserve(w), GuardOf(RunOf[w])
    PROVE  GuardOf(RunOf[w])'
<1> DEFINE r == RunOf[w]
<1>0. JobsShaped /\ r \in Runs /\ w \in Crew(r) /\ granted[r] \in Nat
  BY TaskOf DEF Shaped, Crew, IInv, BudgetTypeOK
<1>1. /\ job[w].at = "reserve" /\ pc[w] # "idle" /\ Answer(w)
      /\ UNCHANGED <<runs, held, removed, job>>
  BY DEF InReserve, At, quiet
<1>2. /\ late' = late
      /\ \A b \in Workers : b # w => /\ pc'[b] = pc[b] /\ ask'[b] = ask[b]
                                     /\ answer'[b] = answer[b]
      /\ tripped[r] => tripped'[r]
      /\ pc'[w] # "idle" => ask'[w] = ask[w]
  BY <1>0, <1>1, AnswerStep
<1>3. \A b \in Crew(r) : b # w => Open(b)' = Open(b) /\ Pending(b)' = Pending(b)
                                  /\ Asked(b)' = Asked(b)
  BY <1>0, <1>2, CrewKept DEF Crew
<1>4. Guarded(r)' = Guarded(r) /\ Crew(r)' = Crew(r)
  BY <1>0, GuardedStays
<1>5. Asked(w)' = Asked(w) /\ Open(w)' = Open(w) /\ Pending(w) = {}
  <2>1. Asked(w)' = Asked(w)
    BY <1>1 DEF Asked, runs
  <2> QED
    BY <1>1, <1>2, <2>1 DEF Open, Pending
<1>6. \A b \in Crew(r) : /\ job'[b].at = "reserve" => Guarded(r)
                         /\ pc'[b] # "idle" => /\ job'[b].at = "reserve"
                                               /\ ask'[b] = Cardinality(Asked(b)')
                         /\ Open(b)' \cap held'[r] = {}
  <2>1. ASSUME NEW b \in Crew(r), b # w
        PROVE  /\ job'[b].at = "reserve" => Guarded(r)
               /\ pc'[b] # "idle" => job'[b].at = "reserve" /\ ask'[b] = Cardinality(Asked(b)')
               /\ Open(b)' \cap held'[r] = {}
    BY <1>1, <1>2, <1>3, <2>1 DEF GuardOf, Crew
  <2>2. /\ job'[w].at = "reserve" => Guarded(r)
        /\ pc'[w] # "idle" => job'[w].at = "reserve" /\ ask'[w] = Cardinality(Asked(w)')
        /\ Open(w)' \cap held'[r] = {}
    BY <1>0, <1>1, <1>2, <1>5 DEF GuardOf
  <2> QED
    BY <2>1, <2>2
<1>7. ASSUME Guarded(r) PROVE Cardinality(Charged(r)') <= granted'[r]
  <2>1. CASE granted'[r] = granted[r] /\ (pc'[w] # "idle" \/ answer'[w] # "granted")
    <3>1. Pending(w)' = {}
      BY <1>1, <2>1 DEF Pending
    <3>2. removed'[r] \cup Pending(w)' \subseteq removed[r] \cup Pending(w) \cup {}
      BY <1>1, <3>1
    <3>3. Charged(r)' \subseteq Charged(r) \cup {}
      BY <1>0, <1>3, <3>2, ChargedStep
    <3> QED
      BY <1>0, <1>7, <2>1, <3>3, ChargeStaysWithin DEF GuardOf
  <2>2. CASE granted'[r] = granted[r] + ask[w]
    <3>1. Pending(w)' \subseteq Asked(w)
      BY <1>1, <1>5 DEF Pending
    <3>2. removed'[r] \cup Pending(w)' \subseteq removed[r] \cup Pending(w) \cup Asked(w)
      BY <1>1, <3>1
    <3>3. Charged(r)' \subseteq Charged(r) \cup Asked(w)
      BY <1>0, <1>3, <3>2, ChargedStep
    <3>4. /\ ask[w] = Cardinality(Asked(w)) /\ Cardinality(Charged(r)) <= granted[r]
      BY <1>0, <1>1, <1>7 DEF GuardOf
    <3>5. IsFiniteSet(Charged(r)) /\ Cardinality(Charged(r)) \in Nat
      BY <1>0, ChargedIsFinite
    <3>6. IsFiniteSet(Asked(w)) /\ Cardinality(Asked(w)) \in Nat
      BY <1>0, AskedIsInFolder, PairsAreFinite, FS_Subset, FS_CardinalityType
    <3>7. /\ IsFiniteSet(Charged(r) \cup Asked(w))
          /\ Cardinality(Charged(r) \cup Asked(w)) <=
                 Cardinality(Charged(r)) + Cardinality(Asked(w))
      BY <3>5, <3>6, UnionIsNoLarger
    <3>8. /\ Cardinality(Charged(r)') <= Cardinality(Charged(r) \cup Asked(w))
          /\ Cardinality(Charged(r)') \in Nat /\ Cardinality(Charged(r) \cup Asked(w)) \in Nat
      BY <3>3, <3>7, FS_Subset, FS_CardinalityType
    <3> QED
      BY <1>0, <2>2, <3>4, <3>5, <3>6, <3>7, <3>8
  <2> QED
    BY <1>0, <1>1, <2>1, <2>2, AnswerStep
<1> QED
  BY <1>1, <1>2, <1>4, <1>6, <1>7 DEF GuardOf


LEMMA QuietGuardNext ==
    ASSUME NEW r \in Runs, held'[r] = {}, removed'[r] = {}, granted'[r] \in Nat,
           \A w \in Crew(r) : job'[w].at = "free" /\ pc'[w] = "idle"
    PROVE  GuardOf(r)'
<1>1. Crew(r)' = Crew(r)
  BY DEF Crew
<1>2. \A w \in Crew(r) : Open(w)' = {} /\ Pending(w)' = {}
  BY DEF Open, Pending
<1>3. Charged(r)' = {}
  BY <1>1, <1>2 DEF Charged
<1>4. Cardinality(Charged(r)') = 0
  BY <1>3, FS_EmptySet
<1> QED
  BY <1>1, <1>2, <1>4 DEF GuardOf

LEMMA ThreadGuards ==
    ASSUME Sound, IInv, RefusalsTrip, \A r \in Runs : GuardOf(r), NEW w \in Workers, Thread(w),
           NEW r \in Runs
    PROVE  GuardOf(r)'
<1>0. /\ Typed /\ Shaped /\ OneAtATime /\ Apart /\ FreshAhead /\ FreshOf(w) /\ KnownOf(w)
      /\ RunOf[w] \in Runs /\ GuardOf(RunOf[w]) /\ JobsShaped
  BY TaskOf DEF Sound, Shaped, FreshAhead, RemovalKnown
<1>1. CASE r = RunOf[w]
  <2>1. CASE ListRemote(w) \/ ListRemoteFails(w)
    BY <1>0, <1>1, <2>1, PlanGuard
  <2>2. CASE InReserve(w)
    BY <1>0, <1>1, <2>2, ReserveGuard
  <2>3. CASE HeldBack(w)
    BY <1>0, <1>1, <2>3, HeldBackGuard
  <2>4. CASE ~(ListRemote(w) \/ ListRemoteFails(w)) /\ ~InReserve(w) /\ ~HeldBack(w)
    BY <1>0, <1>1, <2>4, SpendsStep, SpendsGuard
  <2> QED
    BY <2>1, <2>2, <2>3, <2>4
<1>2. CASE r # RunOf[w]
  <2>1. /\ held'[r] = held[r] /\ removed'[r] = removed[r] /\ snap' = snap /\ skips' = skips
        /\ \A b \in Workers : b # w => job'[b] = job[b]
    BY <1>0, <1>2, ThreadsAreLocal DEF ThreadLocal
  <2>2. /\ tripped'[r] = tripped[r] /\ granted'[r] = granted[r]
        /\ \A b \in Workers : b # w => /\ pc'[b] = pc[b] /\ ask'[b] = ask[b]
                                       /\ answer'[b] = answer[b] /\ late'[b] = late[b]
    <3>1. CASE UNCHANGED budget
      BY <3>1 DEF budget
    <3>2. CASE \E n : Reserve(w, n)
      BY <3>2 DEF Reserve, Goto, IInv, BudgetTypeOK
    <3>3. CASE Answer(w)
      BY <1>2, <3>3, AnswerStep
    <3>4. UNCHANGED budget \/ (\E n : Reserve(w, n)) \/ Answer(w)
      <4>1. CASE ListRemote(w) \/ ListRemoteFails(w)
        <5>1. \E there, listed : PlanFolder(w, there, listed)
          BY <4>1 DEF ListRemote, ListRemoteFails
        <5> QED
          BY <5>1, Zenon DEF PlanFolder
      <4>2. CASE InReserve(w)
        BY <4>2 DEF InReserve
      <4>3. CASE HeldBack(w)
        BY <4>3 DEF HeldBack
      <4>4. CASE ~(ListRemote(w) \/ ListRemoteFails(w)) /\ ~InReserve(w) /\ ~HeldBack(w)
        BY <1>0, <4>4, SpendsStep DEF Spends
      <4> QED
        BY <4>1, <4>2, <4>3, <4>4
    <3> QED
      BY <3>1, <3>2, <3>3, <3>4
  <2> QED
    BY <1>2, <2>1, <2>2, GuardFrame DEF Crew
<1> QED
  BY <1>1, <1>2

LEMMA NextGuards ==
    ASSUME Sound, IInv, RefusalsTrip, \A r \in Runs : GuardOf(r), [Next]_vars, IInv', Typed',
           NEW r \in Runs
    PROVE  GuardOf(r)'
<1>0. /\ Typed /\ Shaped /\ GuardOf(r) /\ granted'[r] \in Nat /\ RunOf \in [Workers -> Runs]
  BY Bounds DEF Sound, IInv, BudgetTypeOK
<1>1. CASE UNCHANGED <<held, removed, snap, skips, job, budget>>
  BY <1>0, <1>1, GuardFrame DEF budget
<1>2. ASSUME NEW q \in Runs, NEW folders, NEW missing, Begin(q, folders, missing)
      PROVE  GuardOf(r)'
  <2>1. PICK n : New(q, n)
    BY <1>2 DEF Begin
  <2>2. job' = job /\ IdleRun(q)
    BY <1>0, <1>2 DEF Begin, Shaped, IdleRuns
  <2>3. CASE r = q
    <3>1. held'[r] = {} /\ removed'[r] = {}
      BY <1>0, <1>2, <2>3 DEF Begin, Typed, TalliesTyped
    <3>2. \A w \in Crew(r) : job'[w].at = "free" /\ pc'[w] = "idle"
      BY <2>1, <2>2, <2>3 DEF New, IdleRun, AllFree, Crew
    <3>3. Crew(r)' = Crew(r)
      BY DEF Crew
    <3> QED
      BY <1>0, <3>1, <3>2, <3>3, QuietGuardNext
  <2>4. CASE r # q
    <3>1. held'[r] = held[r] /\ removed'[r] = removed[r] /\ snap'[r] = snap[r]
          /\ skips'[r] = skips[r]
      BY <1>0, <1>2, <2>4 DEF Begin, Typed, TalliesTyped, RunsTyped
    <3>2. tripped'[r] = tripped[r] /\ granted'[r] = granted[r] /\ UNCHANGED <<pc, ask>>
      BY <2>1, <2>4 DEF New, IInv, BudgetTypeOK
    <3>3. \A w \in Crew(r) : answer'[w] = answer[w] /\ late'[w] = late[w]
      <4>1. \A w \in Workers : answer'[w] = IF RunOf[w] = q THEN "none" ELSE answer[w]
        BY <2>1 DEF New
      <4>2. \A w \in Workers : late'[w] = (RunOf[w] # q /\ late[w])
        BY <2>1 DEF New
      <4>3. \A w \in Workers : late[w] \in BOOLEAN
        BY DEF IInv, BudgetTypeOK
      <4> QED
        BY <2>4, <4>1, <4>2, <4>3 DEF Crew
    <3> QED
      BY <1>0, <2>2, <3>1, <3>2, <3>3, GuardFrame
  <2> QED
    BY <2>3, <2>4
<1>3. CASE StartWalk \/ StartBurst
  BY <1>2, <1>3, Bounds DEF StartWalk, StartBurst
<1>4. ASSUME NEW q \in Runs, End(q) PROVE GuardOf(r)'
  <2>1. AllFree(q) /\ job' = job /\ UNCHANGED <<tripped, pc, ask, answer, granted, late>>
    BY <1>4 DEF End, budget
  <2>2. CASE r = q
    <3>1. held'[r] = {} /\ removed'[r] = {}
      BY <1>0, <1>4, <2>2 DEF End, Typed, TalliesTyped
    <3>2. \A w \in Crew(r) : job'[w].at = "free" /\ pc'[w] = "idle"
      BY <1>0, <2>1, <2>2 DEF GuardOf, AllFree
    <3>3. Crew(r)' = Crew(r)
      BY DEF Crew
    <3> QED
      BY <1>0, <3>1, <3>2, <3>3, QuietGuardNext
  <2>3. CASE r # q
    <3>1. held'[r] = held[r] /\ removed'[r] = removed[r] /\ snap'[r] = snap[r]
          /\ skips'[r] = skips[r]
      BY <1>0, <1>4, <2>3 DEF End, Typed, TalliesTyped, RunsTyped
    <3> QED
      BY <1>0, <2>1, <3>1, GuardFrame
  <2> QED
    BY <2>2, <2>3
<1>5. CASE Crash
  <2>1. held'[r] = {} /\ removed'[r] = {} /\ Crew(r)' = Crew(r)
    BY <1>5 DEF Crash, Crew
  <2>2. \A w \in Crew(r) : job'[w].at = "free" /\ pc'[w] = "idle"
    <3>1. \A w \in Workers : job'[w] = Free /\ pc'[w] = "idle"
      BY <1>5 DEF Crash, Lost
    <3> QED
      BY <3>1, FreeIsTask DEF Crew
  <2> QED
    BY <1>0, <2>1, <2>2, QuietGuardNext
<1>6. ASSUME NEW q \in Runs, NextLevel(q) \/ Cancel(q) PROVE GuardOf(r)'
  BY <1>1, <1>6 DEF NextLevel, Cancel
<1>7. ASSUME NEW w \in Workers, Thread(w) PROVE GuardOf(r)'
  BY <1>7, ThreadGuards
<1>8. ASSUME NEW x, BackoffElapses(x) PROVE GuardOf(r)'
  BY <1>1, <1>8 DEF BackoffElapses, runs
<1>9. CASE \/ \E d \in Dirs : Exclude(d) \/ Include(d) \/ FreeUp(d)
           \/ \E side \in Sides : \/ \E g \in Files : Edit(side, g) \/ Restore(side, g)
                                  \/ \E x \in Items : Dismiss(side, x)
  BY <1>1, <1>9, OutsideKeeps DEF runs
<1>10. CASE UNCHANGED vars
  BY <1>1, <1>10 DEF vars, runs
<1> QED
  BY <1>3, <1>4, <1>5, <1>6, <1>7, <1>8, <1>9, <1>10, Zenon
  DEF Next, Engine, Environment, RunStep

Watched == Sound /\ IInv /\ RefusalsTrip /\ \A r \in Runs : GuardOf(r)

LEMMA AlwaysWatched ==
    ASSUME ~Overlap
    PROVE  Spec => []Watched
<1>1. Init => Typed /\ IInv /\ RefusalsTrip /\ \A r \in Runs : GuardOf(r)
  <2> SUFFICES ASSUME Init PROVE IInv /\ RefusalsTrip /\ \A r \in Runs : GuardOf(r)
    BY InitTyped
  <2>1. IInv /\ RefusalsTrip
    BY InitEstablishes DEF Init, BudgetInit, RefusalsTrip
  <2>2. ASSUME NEW r \in Runs PROVE GuardOf(r)
    <3>1. held[r] = {} /\ removed[r] = {} /\ granted[r] \in Nat
      BY DEF Init, BudgetInit
    <3>2. \A w \in Crew(r) : job[w].at = "free" /\ pc[w] = "idle"
      <4>1. \A w \in Workers : job[w] = Free /\ pc[w] = "idle"
        BY DEF Init, BudgetInit
      <4> QED
        BY <4>1, FreeIsTask DEF Crew
    <3> QED
      BY <3>1, <3>2, QuietGuard
  <2> QED
    BY <2>1, <2>2
<1> DEFINE Inv == IInv /\ RefusalsTrip /\ \A r \in Runs : GuardOf(r)
<1>2. ASSUME Sound, Sound', Inv, [Next]_vars PROVE Inv'
  <2>1. [BudgetNext]_budget
    BY <1>2, EveryStepIsABudgetStep
  <2>2. IInv' /\ RefusalsTrip'
    BY <1>2, <2>1, StepPreserves, RefusalsTripStep
  <2>3. \A r \in Runs : GuardOf(r)'
    BY <1>2, <2>2, NextGuards DEF Sound
  <2> QED
    BY <2>2, <2>3
<1>3. Init => Inv
  BY <1>1
<1>4. Sound /\ Inv => Watched
  BY DEF Watched
<1> HIDE DEF Inv
<1> QED
  BY <1>2, <1>3, <1>4, AlwaysSound, PTL DEF Spec

\* When no two runs overlap, the guard against mass deletions holds over a whole run, for any
\* tree, threads and allowance: what it lets through is within the allowance, and nothing it
\* held back is then deleted piecemeal.
THEOREM TheGuardHolds ==
    ASSUME ~Overlap
    PROVE  Spec => []GuardHolds
<1>1. ASSUME Watched PROVE GuardHolds
  <2>1. HeldStays
    BY <1>1 DEF Watched, GuardOf, HeldStays
  <2>2. ASSUME NEW r \in Runs, Guarded(r) PROVE Cardinality(removed[r]) <= Allowed
    <3>1. Cardinality(Charged(r)) <= granted[r] /\ granted[r] = used[r] /\ used[r] \in 0..Allowed
      BY <1>1, <2>2 DEF Watched, GuardOf, IInv, GrantsAreCounted, BudgetTypeOK
    <3>2. IsFiniteSet(Charged(r)) /\ Cardinality(Charged(r)) \in Nat
      BY <1>1, ChargedIsFinite DEF Watched, Sound, Shaped
    <3>3. removed[r] \subseteq Charged(r)
      BY DEF Charged
    <3>4. Cardinality(removed[r]) \in Nat /\ Cardinality(removed[r]) <= Cardinality(Charged(r))
      BY <3>2, <3>3, FS_Subset, FS_CardinalityType
    <3> QED
      BY <3>1, <3>2, <3>4, BudgetAssumption
  <2> QED
    BY <2>1, <2>2 DEF GuardHolds, WithinAllowance
<1>2. Watched => GuardHolds
  BY <1>1
<1> QED
  BY <1>2, AlwaysWatched, PTL

-----------------------------------------------------------------------------
(* What the folders that are removed hold.  A version is given up once       *)
(* somebody has replaced or deleted it; the baseline holds only versions     *)
(* that are given up or that both sides still have.                          *)

\* What is in a tree has its folders there.
WellFormed(t) == /\ \A h \in Filed(t) : Above[h] \subseteq t.d
                 /\ \A d \in t.d : Above[d] \subseteq t.d
TreesWF == \A s \in Sides : WellFormed(tree[s])

\* There is nothing in a folder that is not there.
LEMMA NothingInside ==
    ASSUME NEW t, WellFormed(t), NEW d \in Dirs, d \notin t.d, NEW h \in Files \cap Subtree(d)
    PROVE  t.f[h] = 0
<1>1. d \in Above[h]
  BY FolderSubtree DEF Under
<1> QED
  BY <1>1 DEF WellFormed, Filed

\* A file that is put comes with its folders, a folder that is made too.
LEMMA PutsAreWF ==
    ASSUME NEW t \in Trees, WellFormed(t)
    PROVE  /\ \A g \in Files : \A v : WellFormed(Put(t, g, v))
           /\ \A d \in Dirs : WellFormed(Made(t, d))
<1>1. ASSUME NEW g \in Files, NEW v PROVE WellFormed(Put(t, g, v))
  <2> DEFINE q == Put(t, g, v)
  <2>1. q.d = t.d \cup Above[g]
    BY DEF Put
  <2>2. \A h \in Files : h # g => q.f[h] = t.f[h]
    BY TreesKeep
  <2> HIDE DEF q
  <2>3. \A h \in Filed(q) : h = g \/ h \in Filed(t)
    BY <2>2 DEF Filed
  <2>4. \A h \in Filed(q) : Above[h] \subseteq q.d
    BY <2>1, <2>3 DEF WellFormed
  <2>5. \A d \in Above[g] : Above[d] \subseteq Above[g]
    BY AboveIsTransitive, TreeConstants
  <2>6. \A d \in q.d : Above[d] \subseteq q.d
    BY <2>1, <2>5 DEF WellFormed
  <2>7. WellFormed(q)
    BY <2>4, <2>6 DEF WellFormed
  <2> QED
    BY <2>7 DEF q
<1>2. ASSUME NEW d \in Dirs PROVE WellFormed(Made(t, d))
  <2> DEFINE q == Made(t, d)
  <2>1. q.d = t.d \cup {d} \cup Above[d] /\ q.f = t.f
    BY DEF Made, Trees
  <2> HIDE DEF q
  <2>2. Filed(q) = Filed(t)
    BY <2>1 DEF Filed
  <2>3. \A p \in Above[d] : Above[p] \subseteq Above[d]
    BY AboveIsTransitive, TreeConstants
  <2>4. WellFormed(q)
    BY <2>1, <2>2, <2>3 DEF WellFormed
  <2> QED
    BY <2>4 DEF q
<1> QED
  BY <1>1, <1>2

\* What is removed goes with all that is in it.
LEMMA CutsAreWF ==
    ASSUME NEW t \in Trees, WellFormed(t), NEW x \in Items
    PROVE  WellFormed(Cut(t, Subtree(x)))
<1> DEFINE q == Cut(t, Subtree(x))
<1>1. q.d = t.d \ Subtree(x) /\ \A h \in Files : q.f[h] = IF h \in Subtree(x) THEN 0 ELSE t.f[h]
  BY DEF Cut
<1> HIDE DEF q
<1>2. ASSUME NEW y \in Items, y \notin Subtree(x), NEW d \in Above[y] PROVE d \notin Subtree(x)
  <2>1. d \in Dirs /\ d \in Items /\ Above[d] \subseteq Above[y]
    BY AboveIsTransitive
  <2>2. CASE x \in Dirs
    <3>1. x \notin Above[y]
      BY <1>2, <2>2, FolderSubtree DEF Under
    <3> QED
      BY <2>1, <2>2, <3>1, FolderSubtree DEF Under
  <2>3. CASE x \in Files
    BY <2>1, <2>3, FileSubtree, TreeConstants
  <2> QED
    BY <2>2, <2>3, TreeConstants
<1>3. \A h \in Filed(q) : h \in Filed(t) /\ h \notin Subtree(x) /\ h \in Items
  BY <1>1, TreeConstants DEF Filed
<1>4. \A d \in q.d : d \in t.d /\ d \notin Subtree(x) /\ d \in Items
  BY <1>1, TreeConstants DEF Trees
<1>5. WellFormed(q)
  BY <1>1, <1>2, <1>3, <1>4 DEF WellFormed
<1> QED
  BY <1>5 DEF q

\* Only the trees a step grows or cuts can lose their shape.
LEMMA TreesWFGrow ==
    ASSUME Typed, TreesWF, NEW s \in Sides, NEW t, Grow(s, t), WellFormed(t)
    PROVE  TreesWF'
BY GrowKeeps DEF TreesWF

LEMMA ThreadTreesWF ==
    ASSUME Typed, JobsShaped, TreesWF, NEW w \in Workers, Thread(w)
    PROVE  TreesWF'
<1>1. \A s \in Sides : tree[s] \in Trees /\ WellFormed(tree[s])
  BY SidesTyped DEF TreesWF
<1>2. "here" \in Sides /\ "there" \in Sides /\ Files \subseteq Items
  BY TreeConstants DEF Sides
<1>3. CASE UNCHANGED tree
  BY <1>3 DEF TreesWF
<1>4. ASSUME NEW d \in Dirs, MakeFolder(w, d) PROVE TreesWF'
  BY <1>1, <1>2, <1>4, PutsAreWF, TreesWFGrow DEF MakeFolder
<1>5. ASSUME NEW g \in Files, Upload(w, g) PROVE TreesWF'
  BY <1>1, <1>2, <1>5, PutsAreWF, TreesWFGrow DEF Upload
<1>6. ASSUME NEW g \in Files, Download(w, g) PROVE TreesWF'
  BY <1>1, <1>2, <1>6, PutsAreWF, TreesWFGrow DEF Download
<1>7. ASSUME NEW s \in Sides, NEW x \in Items, Remove(w, s, x) PROVE TreesWF'
  BY <1>1, <1>7, CutsAreWF, TreesWFGrow DEF Remove
<1>8. ASSUME NEW g \in Files, DeleteFile(w, g) PROVE TreesWF'
  <2>1. \E s \in Sides : Remove(w, s, g)
    BY <1>8, DeleteFileStep
  <2> QED
    BY <1>2, <1>7, <2>1
<1>9. CASE RemoveFolder(w)
  <2>1. job[w].at = "remove" /\ job[w].doomed \in Items
    BY <1>9, RemoveFolderStep, DoomedIsVisible
  <2>2. \E s \in Sides : Remove(w, s, job[w].doomed)
    BY <1>9 DEF RemoveFolder, Side, Sides
  <2> QED
    BY <1>7, <2>1, <2>2
<1>10. CASE \/ TakeFolder(w) \/ ReadLocal(w) \/ ReadLocalBlind(w) \/ ListRemote(w)
            \/ ListRemoteFails(w) \/ InReserve(w) \/ Granted(w) \/ HeldBack(w)
            \/ Commit(w) \/ Purge(w)
            \/ \E d \in Dirs : CheckFolder(w, d) \/ KeepFolder(w, d)
            \/ \E x \in Items : OpFails(w, x)
  <2>1. UNCHANGED tree
    BY <1>10 DEF TakeFolder, ReadLocal, ReadLocalBlind, ListRemote, ListRemoteFails, PlanFolder,
                 InReserve, Granted, HeldBack, Commit, Purge, CheckFolder, KeepFolder, OpFails,
                 world
  <2> QED
    BY <1>3, <2>1
<1> QED
  BY <1>4, <1>5, <1>6, <1>8, <1>9, <1>10 DEF Thread

\* The versions nobody has any more a claim to: nothing, and what was replaced or deleted.
GivenUp == {0} \cup discarded \cup dismissed
Settled(v, h) == v \in GivenUp \/ \A s \in Sides : tree[s].f[h] = v
\* What the baseline and the run's snapshot know of an item has been given up.
Lapsed(r, x) == \A h \in Files \cap Subtree(x) : {rows.f[h], snap[r].f[h]} \subseteq GivenUp
RowsAgree ==
    \A h \in Files : /\ Settled(rows.f[h], h)
                     /\ \A r \in Runs : on[r] => Settled(snap[r].f[h], h)
\* What a thread has seen here is there still or has been given up, and what it has not seen
\* the baseline does not know to be alive.
SeenIsTrue(w) ==
    LET j == job[w]
        r == RunOf[w]
    IN  j.at = "remote" =>
            /\ \A h \in Files : j.seen.f[h] \in GivenUp \cup {tree["here"].f[h]}
            /\ j.whole => \A x \in Visible(j, skips[r]) :
                  \/ Lapsed(r, x) \/ x \in j.seen.d
                  \/ x \in Files /\ {rows.f[x], snap[r].f[x]} \subseteq GivenUp \cup {j.seen.f[x]}
\* What a thread is to delete is not known to be alive; the row it will write for a file both
\* sides hold, or it has been given up.
PlanIsTrue(w) ==
    LET j == job[w] IN
    j.at \in {"reserve", "apply", "remove"} => \A x \in Items :
        /\ j.plan[x].op \in Deletes => Lapsed(RunOf[w], x)
        /\ x \in Files /\ j.plan[x].row # Nil =>
              LET v == j.plan[x].row.v IN
              /\ j.plan[x].op = "upload" => v \in GivenUp \cup {tree["here"].f[x]}
              /\ j.plan[x].op \in {"none", "noop"} \/ x \in j.done => Settled(v, x)
Truthful == RowsAgree /\ \A w \in Workers : SeenIsTrue(w) /\ PlanIsTrue(w)

\* A file keeps its version on this side, or the version has been given up.
KeptOrGivenUp(h) == \A s \in Sides : tree'[s].f[h] = tree[s].f[h] \/ tree[s].f[h] \in GivenUp'
SettledNext(v, h) == v \in GivenUp' \/ \A s \in Sides : tree'[s].f[h] = v

LEMMA StaysSettled ==
    ASSUME NEW h, NEW v, Settled(v, h), GivenUp \subseteq GivenUp', KeptOrGivenUp(h)
    PROVE  SettledNext(v, h)
BY DEF Settled, SettledNext, KeptOrGivenUp

\* The steps outside the engine give up what they take away.
LEMMA OutsideGivesUp ==
    ASSUME Typed,
           \/ \E d \in Dirs : Exclude(d) \/ Include(d) \/ FreeUp(d)
           \/ \E side \in Sides : \/ \E g \in Files : Edit(side, g) \/ Restore(side, g)
                                  \/ \E x \in Items : Dismiss(side, x)
    PROVE  /\ GivenUp \subseteq GivenUp' /\ \A h \in Files : KeptOrGivenUp(h)
           /\ TreesWF => TreesWF'
<1> DEFINE Kept == \A h \in Files : KeptOrGivenUp(h)
<1>1. ASSUME UNCHANGED tree PROVE Kept /\ (TreesWF => TreesWF')
  BY <1>1 DEF KeptOrGivenUp, TreesWF
<1>2. ASSUME NEW d \in Dirs, Exclude(d) \/ Include(d)
      PROVE  GivenUp \subseteq GivenUp' /\ Kept /\ (TreesWF => TreesWF')
  BY <1>1, <1>2 DEF Exclude, Include, past, GivenUp
<1>3. ASSUME NEW s \in Sides, NEW x \in Items, Drop(s, x)
      PROVE  GivenUp \subseteq GivenUp' /\ Kept /\ (TreesWF => TreesWF')
  <2>1. Grow(s, Cut(tree[s], Subtree(x))) /\ tree[s] \in Trees
    BY <1>3, SidesTyped DEF Drop
  <2>2. GivenUp' = GivenUp \cup {tree[s].f[g] : g \in Within(tree[s], x)}
    BY <1>3 DEF Drop, GivenUp
  <2>3. ASSUME NEW h \in Files PROVE KeptOrGivenUp(h)
    <3>1. tree'[s].f[h] = IF h \in Subtree(x) THEN 0 ELSE tree[s].f[h]
      BY <2>1, GrowKeeps, TreesKeep
    <3>2. tree[s].f[h] = 0 \/ h \notin Subtree(x) \/ h \in Within(tree[s], x)
      BY DEF Within
    <3>3. tree'[s].f[h] = tree[s].f[h] \/ tree[s].f[h] \in GivenUp'
      BY <2>2, <3>1, <3>2
    <3>4. \A z \in Sides : z # s => tree'[z].f[h] = tree[z].f[h]
      BY <2>1, GrowKeeps
    <3> QED
      BY <3>3, <3>4 DEF KeptOrGivenUp
  <2>4. TreesWF => TreesWF'
    BY <2>1, CutsAreWF, TreesWFGrow DEF TreesWF
  <2> QED
    BY <2>2, <2>3, <2>4
<1>4. ASSUME NEW s \in Sides, NEW g \in Files, NEW v, Grow(s, Put(tree[s], g, v)),
             tree[s].f[g] \in GivenUp'
      PROVE  Kept /\ (TreesWF => TreesWF')
  <2>1. tree[s] \in Trees /\ tree'[s] = Put(tree[s], g, v)
    BY <1>4, SidesTyped, GrowKeeps
  <2>2. ASSUME NEW h \in Files PROVE KeptOrGivenUp(h)
    <3>1. tree'[s].f[h] = IF h = g THEN v ELSE tree[s].f[h]
      BY <2>1, TreesKeep
    <3>2. \A z \in Sides : z # s => tree'[z].f[h] = tree[z].f[h]
      BY <1>4, GrowKeeps
    <3> QED
      BY <1>4, <3>1, <3>2 DEF KeptOrGivenUp
  <2>3. TreesWF => TreesWF'
    BY <1>4, <2>1, PutsAreWF, TreesWFGrow DEF TreesWF
  <2> QED
    BY <2>2, <2>3
<1>5. ASSUME NEW s \in Sides, NEW g \in Files, Edit(s, g) \/ Restore(s, g)
      PROVE  GivenUp \subseteq GivenUp' /\ Kept /\ (TreesWF => TreesWF')
  <2>1. GivenUp \subseteq GivenUp' /\ tree[s].f[g] \in GivenUp'
    BY <1>5 DEF Edit, Restore, GivenUp
  <2>2. \E v : Grow(s, Put(tree[s], g, v))
    BY <1>5 DEF Edit, Restore
  <2> QED
    BY <1>4, <2>1, <2>2
<1>6. ASSUME NEW d \in Dirs, FreeUp(d)
      PROVE  GivenUp \subseteq GivenUp' /\ Kept /\ (TreesWF => TreesWF')
  BY <1>3, <1>6, TreeConstants DEF FreeUp, Sides
<1>7. ASSUME NEW s \in Sides, NEW x \in Items, Dismiss(s, x)
      PROVE  GivenUp \subseteq GivenUp' /\ Kept /\ (TreesWF => TreesWF')
  BY <1>3, <1>7 DEF Dismiss
<1> HIDE DEF Kept
<1>8. GivenUp \subseteq GivenUp' /\ Kept /\ (TreesWF => TreesWF')
  BY <1>2, <1>5, <1>6, <1>7
<1> QED
  BY <1>8 DEF Kept

\* A thread at rest, or between two folders, has nothing to be true to.
LEMMA NothingToBeTrueTo ==
    ASSUME NEW w, job'[w].at \notin {"remote", "reserve", "apply", "remove"}
    PROVE  SeenIsTrue(w)' /\ PlanIsTrue(w)'
BY DEF SeenIsTrue, PlanIsTrue

\* A thread that does nothing stays truthful as long as, in its folder, the rows stay and the
\* files that go were given up.
LEMMA TruthFrame ==
    ASSUME Typed, JobsShaped, NEW w \in Workers, SeenIsTrue(w), PlanIsTrue(w),
           job'[w] = job[w], snap'[RunOf[w]] = snap[RunOf[w]], skips'[RunOf[w]] = skips[RunOf[w]],
           GivenUp \subseteq GivenUp',
           \A h \in Files \cap Beneath(job[w].folder) :
               KeptOrGivenUp(h) /\ rows'.f[h] \in GivenUp' \cup {rows.f[h]}
    PROVE  SeenIsTrue(w)' /\ PlanIsTrue(w)'
<1> DEFINE j == job[w]
           r == RunOf[w]
           F == Files \cap Beneath(j.folder)
<1>1. j.folder \in Folders /\ JobShape(j, skips[r]) /\ r \in Runs /\ "here" \in Sides
  BY TaskOf DEF Tasks, JobsShaped, Sides
<1>2. ASSUME NEW x \in Children(j.folder)
      PROVE  /\ x \in Items /\ Files \cap Subtree(x) \subseteq F
             /\ x \in Files => x \in F
  BY <1>1, ChildIsBeneath, TreeConstants
<1>3. ASSUME NEW x \in Children(j.folder), Lapsed(r, x)
      PROVE  Lapsed(r, x)'
  <2>1. \A h \in Files \cap Subtree(x) : {rows'.f[h], snap'[r].f[h]} \subseteq GivenUp'
    BY <1>2, <1>3 DEF Lapsed
  <2> QED
    BY <2>1 DEF Lapsed
<1>4. ASSUME NEW h \in F PROVE tree["here"].f[h] \in GivenUp' \cup {tree'["here"].f[h]}
  BY <1>1 DEF KeptOrGivenUp
<1>5. ASSUME NEW h \in Files, h \notin F PROVE j.seen.f[h] \in GivenUp'
  <2>1. h \notin Children(j.folder)
    BY <1>2, <1>5
  <2>2. h \notin Filed(j.seen)
    BY <1>1, <2>1 DEF JobShape, Visible
  <2> QED
    BY <1>5, <2>2 DEF Filed, GivenUp
<1>6. ASSUME NEW x \in Items, j.plan[x].op \in Deletes \/ j.plan[x].row # Nil
      PROVE  x \in Children(j.folder)
  <2>1. j.plan[x] # Nothing
    BY <1>6, OpIsSomething, NothingPlanned
  <2> QED
    BY <1>1, <2>1 DEF JobShape, PlanShape, Visible
<1>7. SeenIsTrue(w)'
  <2> SUFFICES ASSUME j.at = "remote"
               PROVE  /\ \A h \in Files : j.seen.f[h] \in GivenUp' \cup {tree'["here"].f[h]}
                      /\ j.whole => \A x \in Visible(j, skips[r]) :
                            \/ Lapsed(r, x)' \/ x \in j.seen.d
                            \/ x \in Files /\ {rows'.f[x], snap'[r].f[x]}
                                                  \subseteq GivenUp' \cup {j.seen.f[x]}
    BY DEF SeenIsTrue
  <2>1. /\ \A h \in Files : j.seen.f[h] \in GivenUp \cup {tree["here"].f[h]}
        /\ j.whole => \A x \in Visible(j, skips[r]) :
              \/ Lapsed(r, x) \/ x \in j.seen.d
              \/ x \in Files /\ {rows.f[x], snap[r].f[x]} \subseteq GivenUp \cup {j.seen.f[x]}
    BY DEF SeenIsTrue
  <2>2. \A h \in Files : j.seen.f[h] \in GivenUp' \cup {tree'["here"].f[h]}
    BY <1>4, <1>5, <2>1
  <2>3. ASSUME j.whole, NEW x \in Visible(j, skips[r])
        PROVE  \/ Lapsed(r, x)' \/ x \in j.seen.d
               \/ x \in Files /\ {rows'.f[x], snap'[r].f[x]} \subseteq GivenUp' \cup {j.seen.f[x]}
    <3>1. x \in Children(j.folder)
      BY DEF Visible
    <3>2. x \in Files => rows'.f[x] \in GivenUp' \cup {rows.f[x]}
      BY <1>2, <3>1
    <3> QED
      BY <1>3, <2>1, <2>3, <3>1, <3>2
  <2> QED
    BY <2>2, <2>3
<1>8. PlanIsTrue(w)'
  <2> SUFFICES ASSUME j.at \in {"reserve", "apply", "remove"}, NEW x \in Items
               PROVE  /\ j.plan[x].op \in Deletes => Lapsed(r, x)'
                      /\ x \in Files /\ j.plan[x].row # Nil =>
                            /\ j.plan[x].op = "upload" =>
                                  j.plan[x].row.v \in GivenUp' \cup {tree'["here"].f[x]}
                            /\ j.plan[x].op \in {"none", "noop"} \/ x \in j.done =>
                                  SettledNext(j.plan[x].row.v, x)
    BY DEF PlanIsTrue, Settled, SettledNext
  <2> DEFINE v == j.plan[x].row.v
  <2>1. /\ j.plan[x].op \in Deletes => Lapsed(r, x)
        /\ x \in Files /\ j.plan[x].row # Nil =>
              /\ j.plan[x].op = "upload" => v \in GivenUp \cup {tree["here"].f[x]}
              /\ j.plan[x].op \in {"none", "noop"} \/ x \in j.done => Settled(v, x)
    BY DEF PlanIsTrue
  <2>2. j.plan[x].op \in Deletes => Lapsed(r, x)'
    BY <1>3, <1>6, <2>1
  <2>3. x \in Files /\ j.plan[x].row # Nil => x \in F /\ KeptOrGivenUp(x)
    BY <1>2, <1>6
  <2> HIDE DEF v, F, j
  <2>4. x \in Files /\ j.plan[x].row # Nil =>
            /\ j.plan[x].op = "upload" => v \in GivenUp' \cup {tree'["here"].f[x]}
            /\ j.plan[x].op \in {"none", "noop"} \/ x \in j.done => SettledNext(v, x)
    BY <1>4, <2>1, <2>3, StaysSettled
  <2> QED
    BY <2>2, <2>4 DEF v
<1> QED
  BY <1>7, <1>8

\* Reading the folder here: what is not seen is not there.
LEMMA ReadEffect ==
    ASSUME Typed, NEW w \in Workers, ReadLocal(w) \/ ReadLocalBlind(w)
    PROVE  /\ \A h \in Files : job'[w].seen.f[h] \in {0, tree["here"].f[h]}
           /\ job'[w].whole =>
                 job'[w].seen = Listing(tree["here"], job[w].folder, skips[RunOf[w]])
<1> DEFINE found == Listing(tree["here"], job[w].folder, skips[RunOf[w]])
<1>1. tree["here"] \in Trees /\ job[w] \in Tasks
  BY SidesTyped, TaskOf DEF Sides
<1>2. \A h \in Files : found.f[h] \in {0, tree["here"].f[h]}
  BY <1>1, ListingIsVisible
<1>3. found \in Trees
  BY <1>1, TreesMade
<1> HIDE DEF found
<1>4. CASE ReadLocal(w)
  <2>1. \E b : Becomes(w, [job[w] EXCEPT !.at = "remote", !.seen = found, !.whole = b])
    BY <1>4 DEF ReadLocal, found
  <2>2. PICK b : job'[w] = [job[w] EXCEPT !.at = "remote", !.seen = found, !.whole = b]
    BY <2>1, BecomesKeeps
  <2>3. job'[w].seen = found
    BY <1>1, <2>2 DEF Tasks
  <2> QED
    BY <1>2, <2>3 DEF found
<1>5. CASE ReadLocalBlind(w)
  <2>1. \E t : /\ Becomes(w, [job[w] EXCEPT !.at = "remote", !.whole = FALSE, !.seen = t])
               /\ t = Bare \/ \E missed : t = Cut(found, missed)
    BY <1>5 DEF ReadLocalBlind, found
  <2>2. PICK t : /\ job'[w] = [job[w] EXCEPT !.at = "remote", !.whole = FALSE, !.seen = t]
                 /\ t = Bare \/ \E missed : t = Cut(found, missed)
    BY <2>1, BecomesKeeps
  <2>3. job'[w].seen = t /\ ~job'[w].whole
    BY <1>1, <2>2 DEF Tasks
  <2>4. \A h \in Files : t.f[h] \in {0, tree["here"].f[h]}
    BY <1>2, <1>3, <2>2, TreesKeep DEF Bare
  <2> QED
    BY <2>3, <2>4
<1> QED
  BY <1>4, <1>5

\* What is not there on one side the baseline does not know to be alive.
LEMMA AbsentIsLapsed ==
    ASSUME RowsAgree, NEW r \in Runs, on[r], NEW s \in Sides, WellFormed(tree[s]),
           NEW x \in Items,
           x \in Files => tree[s].f[x] = 0, x \in Dirs => x \notin tree[s].d
    PROVE  Lapsed(r, x)
<1>1. ASSUME NEW h \in Files \cap Subtree(x) PROVE tree[s].f[h] = 0
  <2>1. CASE x \in Files
    BY <2>1, FileSubtree
  <2>2. CASE x \in Dirs
    BY <2>2, NothingInside
  <2> QED
    BY <2>1, <2>2, TreeConstants
<1>2. ASSUME NEW h \in Files, NEW v, tree[s].f[h] = 0, Settled(v, h) PROVE v \in GivenUp
  BY <1>2 DEF Settled, GivenUp
<1> QED
  BY <1>1, <1>2 DEF Lapsed, RowsAgree

LEMMA ReadIsTrue ==
    ASSUME Typed, JobsShaped, TreesWF, RowsAgree, NEW w \in Workers,
           ReadLocal(w) \/ ReadLocalBlind(w)
    PROVE  SeenIsTrue(w)' /\ PlanIsTrue(w)'
<1> DEFINE r == RunOf[w]
           t == tree["here"]
           k == job'[w]
<1>1. /\ on[r] /\ k.at = "remote" /\ k.folder = job[w].folder /\ r \in Runs
      /\ UNCHANGED <<tree, rows, snap, skips, discarded, dismissed>> /\ "here" \in Sides
  BY ReadStep, TaskOf DEF world, outer, past, store, runs, Sides
<1>2. t \in Trees /\ WellFormed(t)
  BY SidesTyped DEF TreesWF, Sides
<1>3. GivenUp' = GivenUp
  BY <1>1 DEF GivenUp
<1>4. \A h \in Files : k.seen.f[h] \in GivenUp \cup {t.f[h]}
  BY ReadEffect DEF GivenUp
<1>5. ASSUME k.whole, NEW x \in Visible(job[w], skips[r])
      PROVE  \/ Lapsed(r, x) \/ x \in k.seen.d
             \/ x \in Files /\ {rows.f[x], snap[r].f[x]} \subseteq GivenUp \cup {k.seen.f[x]}
  <2>1. k.seen = Listing(t, job[w].folder, skips[r])
    BY <1>5, ReadEffect
  <2>2. /\ x \in Items /\ x \in {y \in Children(job[w].folder) : ~Excluded(y, skips[r])}
    BY DEF Visible, Children
  <2>3. /\ x \in Files => k.seen.f[x] = t.f[x]
        /\ x \in Dirs => (x \in k.seen.d <=> x \in t.d)
    BY <1>2, <2>1, <2>2, ListingIsVisible
  <2>4. CASE x \in Files
    <3>1. Settled(rows.f[x], x) /\ Settled(snap[r].f[x], x)
      BY <1>1, <2>4 DEF RowsAgree
    <3>2. {rows.f[x], snap[r].f[x]} \subseteq GivenUp \cup {k.seen.f[x]}
      BY <1>1, <2>3, <2>4, <3>1 DEF Settled
    <3> QED
      BY <2>4, <3>2
  <2>5. CASE x \in Dirs
    BY <1>1, <1>2, <2>2, <2>3, <2>5, AbsentIsLapsed, TreeConstants
  <2> QED
    BY <2>2, <2>4, <2>5, TreeConstants
<1>6. Visible(k, skips[r]) = Visible(job[w], skips[r])
  BY <1>1 DEF Visible
<1>7. \A x : Lapsed(r, x)' <=> Lapsed(r, x)
  BY <1>1, <1>3 DEF Lapsed
<1>8. SeenIsTrue(w)'
  <2> HIDE DEF k, t, r
  <2>1. /\ \A h \in Files : k.seen.f[h] \in GivenUp' \cup {t.f[h]}
        /\ k.whole => \A x \in Visible(k, skips[r]) :
              \/ Lapsed(r, x)' \/ x \in k.seen.d
              \/ x \in Files /\ {rows.f[x], snap[r].f[x]} \subseteq GivenUp' \cup {k.seen.f[x]}
    BY <1>3, <1>4, <1>5, <1>6, <1>7
  <2> QED
    BY <1>1, <2>1 DEF SeenIsTrue, k, t, r
<1>9. PlanIsTrue(w)'
  BY <1>1 DEF PlanIsTrue
<1> QED
  BY <1>8, <1>9

\* The plan is made of what was seen, what is listed, and the snapshot: it is true to the rows.
LEMMA ListsAreTrue ==
    ASSUME Typed, JobsShaped, TreesWF, RowsAgree, NEW w \in Workers, SeenIsTrue(w),
           ListRemote(w) \/ ListRemoteFails(w)
    PROVE  SeenIsTrue(w)' /\ PlanIsTrue(w)'
<1> DEFINE r == RunOf[w]
           j == job[w]
           k == job'[w]
           t == tree["there"]
           visible == Visible(j, skips[r])
<1>1. PICK there \in Trees, listed \in BOOLEAN :
          /\ PlanFolder(w, there, listed)
          /\ there.d \cup Filed(there) \subseteq visible
          /\ listed \/ there = Bare
          /\ listed => there = Listing(t, j.folder, skips[r])
  BY ListsPlan
<1> DEFINE found == Decided(w, there)
           rec == Listing(snap[r], j.folder, skips[r])
<1>2. /\ j.at = "remote" /\ on[r] /\ k.at \in {"reserve", "apply"} /\ k.done = {}
      /\ k.plan = IF SeenWhole(w, listed) THEN found ELSE Without(found)
  BY <1>1, PlanStep
<1>3. /\ UNCHANGED <<tree, rows, snap, discarded, dismissed>> /\ GivenUp' = GivenUp
  BY <1>1 DEF PlanFolder, world, outer, past, store, quiet, runs, GivenUp
<1>4. /\ t \in Trees /\ WellFormed(t) /\ "there" \in Sides /\ r \in Runs /\ j.seen \in Trees
      /\ rec \in Trees /\ snap[r] \in Trees
  BY SidesTyped, TaskOf, TreesMade DEF TreesWF, Sides, Tasks
<1>5. PlanShape(found, j.seen.d \cup there.d, visible)
  BY <1>1, DecidedShape DEF JobsShaped, JobShape
<1>6. \A x \in Items : found[x] # Nothing => x \in Children(j.folder) /\ x \in visible
  BY <1>5 DEF PlanShape, Visible
<1>7. ASSUME NEW x \in Files, found[x] # Nothing
      PROVE  /\ FilePlanned(found[x], j.seen.f[x], there.f[x], rec.f[x])
             /\ there.f[x] # 0 \/ listed => there.f[x] = t.f[x]
             /\ rec.f[x] \in {0, snap[r].f[x]} /\ j.seen.f[x] \in GivenUp \cup {tree["here"].f[x]}
  <2>1. x \in Items /\ x \in Children(j.folder) /\ x \in visible
    BY <1>6, <1>7, TreeConstants
  <2>2. found[x] = Judge(EntryAt(j.seen, x), EntryAt(there, x), EntryAt(rec, x), C)
    BY <2>1 DEF Decided
  <2>3. there.f[x] # 0 => listed
    BY <1>1 DEF Bare
  <2>4. listed => there.f[x] = t.f[x]
    BY <1>1, <1>4, <2>1, ListingIsVisible DEF Visible
  <2>5. rec.f[x] \in {0, snap[r].f[x]}
    BY <1>4, ListingIsVisible
  <2>6. j.seen.f[x] \in GivenUp \cup {tree["here"].f[x]}
    BY <1>2 DEF SeenIsTrue
  <2> HIDE DEF found, rec
  <2>7. FilePlanned(found[x], j.seen.f[x], there.f[x], rec.f[x])
    BY <1>1, <1>4, <2>2, PlanOfFile
  <2> QED
    BY <2>3, <2>4, <2>5, <2>6, <2>7
<1>8. ASSUME NEW x \in Dirs, found[x] # Nothing
      PROVE  /\ FolderPlanned(found[x], x \in j.seen.d, x \in there.d)
             /\ listed => (x \in there.d <=> x \in t.d)
  <2>1. x \in Items /\ x \in Children(j.folder) /\ x \in visible
    BY <1>6, <1>8, TreeConstants
  <2>2. found[x] = Judge(EntryAt(j.seen, x), EntryAt(there, x), EntryAt(rec, x), C)
    BY <2>1 DEF Decided
  <2>3. listed => (x \in there.d <=> x \in t.d)
    BY <1>1, <1>4, <2>1, ListingIsVisible DEF Visible
  <2> HIDE DEF found, rec
  <2>4. FolderPlanned(found[x], x \in j.seen.d, x \in there.d)
    BY <1>1, <1>4, <2>2, PlanOfFolder
  <2> QED
    BY <2>3, <2>4
<1> HIDE DEF found, rec
<1>9. ASSUME NEW x \in Items, k.plan[x].op \in Deletes PROVE Lapsed(r, x)
  <2>1. SeenWhole(w, listed)
    BY <1>2, <1>9, WithoutShape, <1>5
  <2>2. j.whole /\ listed /\ k.plan[x] = found[x] /\ found[x] # Nothing
    BY <1>2, <1>9, <2>1, OpIsSomething DEF SeenWhole
  <2>3. x \in visible
    BY <1>6, <2>2
  <2>4. \/ Lapsed(r, x) \/ x \in j.seen.d
        \/ x \in Files /\ {rows.f[x], snap[r].f[x]} \subseteq GivenUp \cup {j.seen.f[x]}
    BY <1>2, <2>2, <2>3 DEF SeenIsTrue
  <2>5. CASE x \in Files
    <3>1. FilePlanned(found[x], j.seen.f[x], there.f[x], rec.f[x]) /\ there.f[x] = t.f[x]
      BY <1>7, <2>2, <2>5
    <3>2. CASE found[x].op = "deleteLocal"
      <4>1. t.f[x] = 0
        BY <3>1, <3>2 DEF FilePlanned
      <4> QED
        BY <1>2, <1>4, <2>5, <4>1, AbsentIsLapsed, TreeConstants
    <3>3. CASE found[x].op = "deleteRemote"
      <4>1. j.seen.f[x] = 0 /\ 0 \in GivenUp
        BY <3>1, <3>3 DEF FilePlanned, GivenUp
      <4>2. x \notin j.seen.d
        BY <1>4, <2>5, TreeConstants DEF Trees
      <4>3. Lapsed(r, x) \/ {rows.f[x], snap[r].f[x]} \subseteq GivenUp
        BY <2>4, <4>1, <4>2
      <4> QED
        BY <2>5, <4>3, FileSubtree DEF Lapsed
    <3> QED
      BY <1>9, <2>2, <3>2, <3>3 DEF Deletes
  <2>6. CASE x \in Dirs
    <3>1. FolderPlanned(found[x], x \in j.seen.d, x \in there.d) /\ (x \in there.d <=> x \in t.d)
      BY <1>8, <2>2, <2>6
    <3>2. CASE found[x].op = "deleteLocal"
      <4>1. x \notin t.d
        BY <3>1, <3>2 DEF FolderPlanned
      <4> QED
        BY <1>2, <1>4, <2>6, <4>1, AbsentIsLapsed, TreeConstants
    <3>3. CASE found[x].op = "deleteRemote"
      <4>1. x \notin j.seen.d
        BY <3>1, <3>3 DEF FolderPlanned
      <4> QED
        BY <2>4, <2>6, <4>1, TreeConstants
    <3> QED
      BY <1>9, <2>2, <3>2, <3>3 DEF Deletes
  <2> QED
    BY <2>5, <2>6, TreeConstants
<1>10. ASSUME NEW x \in Files, k.plan[x].row # Nil
       PROVE  /\ k.plan[x].op = "upload" => k.plan[x].row.v \in GivenUp \cup {tree["here"].f[x]}
              /\ k.plan[x].op \in {"none", "noop"} => Settled(k.plan[x].row.v, x)
  <2>1. x \in Items
    BY TreeConstants
  <2>2. found[x].op \in Deletes => found[x].row = Nil
    BY <1>5, <2>1 DEF PlanShape
  <2>3. k.plan[x] = found[x]
    <3>1. k.plan[x] \in {found[x], Without(found)[x]}
      BY <1>2
    <3>2. Without(found)[x] = IF found[x].op \in Deletes THEN Nothing ELSE found[x]
      BY <1>5, <2>1, WithoutShape
    <3> QED
      BY <1>10, <2>2, <3>1, <3>2, NothingPlanned
  <2> DEFINE V == found[x]
  <2>4. V # Nothing
    BY <1>10, <2>3, NothingPlanned
  <2>5. /\ FilePlanned(V, j.seen.f[x], there.f[x], rec.f[x])
        /\ there.f[x] # 0 => there.f[x] = t.f[x]
        /\ rec.f[x] \in {0, snap[r].f[x]} /\ j.seen.f[x] \in GivenUp \cup {tree["here"].f[x]}
    BY <1>7, <2>4
  <2>6. V.row # Nil /\ k.plan[x] = V
    BY <1>10, <2>3
  <2> HIDE DEF V, j, k, t, r
  <2>7. CASE V.op = "upload"
    BY <2>5, <2>6, <2>7 DEF FilePlanned
  <2>8. CASE V.op = "none"
    <3>1. V.row.v = j.seen.f[x] /\ V.row.v = there.f[x] /\ V.row.v # 0
      BY <2>5, <2>6, <2>8 DEF FilePlanned
    <3>2. V.row.v = t.f[x] /\ V.row.v \in GivenUp \cup {tree["here"].f[x]}
      BY <2>5, <3>1
    <3>3. Settled(V.row.v, x)
      BY <3>2 DEF Settled, Sides, t
    <3> QED
      BY <2>6, <2>8, <3>3
  <2>9. CASE V.op = "noop"
    <3>1. V.row.v = rec.f[x] /\ V.row.v # 0
      BY <2>5, <2>6, <2>9 DEF FilePlanned
    <3>2. V.row.v = snap[r].f[x]
      BY <2>5, <3>1
    <3>3. Settled(V.row.v, x)
      BY <1>2, <1>4, <3>2 DEF RowsAgree
    <3> QED
      BY <2>6, <2>9, <3>3
  <2> QED
    BY <2>6, <2>7, <2>8, <2>9
<1>11. \A x : Lapsed(r, x)' <=> Lapsed(r, x)
  BY <1>3 DEF Lapsed
<1>12. \A v, h : SettledNext(v, h) <=> Settled(v, h)
  BY <1>3 DEF Settled, SettledNext
<1>13. PlanIsTrue(w)'
  <2> HIDE DEF j, t, r, visible
  <2> SUFFICES ASSUME NEW x \in Items
               PROVE  /\ k.plan[x].op \in Deletes => Lapsed(r, x)'
                      /\ x \in Files /\ k.plan[x].row # Nil =>
                            /\ k.plan[x].op = "upload" =>
                                  k.plan[x].row.v \in GivenUp' \cup {tree'["here"].f[x]}
                            /\ k.plan[x].op \in {"none", "noop"} \/ x \in k.done =>
                                  SettledNext(k.plan[x].row.v, x)
    BY DEF PlanIsTrue, Settled, SettledNext, r
  <2> HIDE DEF k
  <2> QED
    BY <1>2, <1>3, <1>9, <1>10, <1>11, <1>12
<1>14. SeenIsTrue(w)'
  BY <1>2 DEF SeenIsTrue
<1> QED
  BY <1>13, <1>14

\* The rows agree as long as the files that change were settled elsewhere, or unknown.
StaysTrue(h) == \A v : Settled(v, h) => SettledNext(v, h)
LEMMA RowsFrame ==
    ASSUME RowsAgree, rows' = rows,
           \A r \in Runs : on'[r] => on[r] /\ snap'[r] = snap[r],
           \A h \in Files : \/ StaysTrue(h)
                            \/ /\ rows.f[h] \in GivenUp'
                               /\ \A r \in Runs : on[r] => snap[r].f[h] \in GivenUp'
    PROVE  RowsAgree'
<1>1. ASSUME NEW h \in Files, StaysTrue(h)
      PROVE  SettledNext(rows.f[h], h) /\ \A r \in Runs : on[r] => SettledNext(snap[r].f[h], h)
  BY <1>1 DEF StaysTrue, RowsAgree
<1>2. \A h \in Files : /\ SettledNext(rows.f[h], h)
                       /\ \A r \in Runs : on[r] => SettledNext(snap[r].f[h], h)
  BY <1>1 DEF SettledNext
<1> QED
  BY <1>2 DEF RowsAgree, Settled, SettledNext

LEMMA SameTreesStayTrue ==
    ASSUME UNCHANGED <<tree, discarded, dismissed>>
    PROVE  \A h : StaysTrue(h)
BY DEF StaysTrue, Settled, SettledNext, GivenUp

\* A thread that carries out its plan stays true to it, if what it has now done is settled.
LEMMA OwnPlanFrame ==
    ASSUME NEW w \in Workers, PlanIsTrue(w), job[w].at \in {"reserve", "apply", "remove"},
           job'[w].plan = job[w].plan, UNCHANGED <<rows, discarded, dismissed>>,
           snap'[RunOf[w]] = snap[RunOf[w]],
           \A x \in Files : job[w].plan[x].row # Nil => StaysTrue(x),
           \A x \in Files : job[w].plan[x].op = "upload" => tree'["here"].f[x] = tree["here"].f[x],
           \A x \in Files : x \in job'[w].done /\ x \notin job[w].done /\ job[w].plan[x].row # Nil
                               => SettledNext(job[w].plan[x].row.v, x)
    PROVE  PlanIsTrue(w)'
<1> DEFINE j == job[w]
           k == job'[w]
           r == RunOf[w]
<1>1. GivenUp' = GivenUp
  BY DEF GivenUp
<1>2. \A x : Lapsed(r, x)' <=> Lapsed(r, x)
  BY <1>1 DEF Lapsed
<1> SUFFICES ASSUME NEW x \in Items
             PROVE  /\ k.plan[x].op \in Deletes => Lapsed(r, x)'
                    /\ x \in Files /\ k.plan[x].row # Nil =>
                          /\ k.plan[x].op = "upload" =>
                                k.plan[x].row.v \in GivenUp' \cup {tree'["here"].f[x]}
                          /\ k.plan[x].op \in {"none", "noop"} \/ x \in k.done =>
                                SettledNext(k.plan[x].row.v, x)
  BY DEF PlanIsTrue, Settled, SettledNext
<1> DEFINE V == j.plan[x]
<1>3. k.plan[x] = V
  OBVIOUS
<1>4. /\ V.op \in Deletes => Lapsed(r, x)
      /\ x \in Files /\ V.row # Nil =>
            /\ V.op = "upload" => V.row.v \in GivenUp \cup {tree["here"].f[x]}
            /\ V.op \in {"none", "noop"} \/ x \in j.done => Settled(V.row.v, x)
  BY DEF PlanIsTrue
<1>5. x \in Files /\ V.row # Nil =>
         /\ V.op = "upload" => tree'["here"].f[x] = tree["here"].f[x]
         /\ Settled(V.row.v, x) => SettledNext(V.row.v, x)
         /\ x \in k.done => x \in j.done \/ SettledNext(V.row.v, x)
  BY DEF StaysTrue
<1> HIDE DEF j, k, r, V
<1> QED
  BY <1>1, <1>2, <1>3, <1>4, <1>5

\* A transfer leaves both sides with what one had.
LEMMA TransferSettles ==
    ASSUME Typed, NEW w \in Workers, NEW g \in Files, Upload(w, g) \/ Download(w, g),
           PlanIsTrue(w)
    PROVE  /\ \A h \in Files : StaysTrue(h)
           /\ \A x \in Files : job[w].plan[x].op = "upload" =>
                  tree'["here"].f[x] = tree["here"].f[x]
           /\ job[w].plan[g].row # Nil => SettledNext(job[w].plan[g].row.v, g)
<1>1. GivenUp' = GivenUp
  BY DEF Upload, Download, outer, past, GivenUp
<1>2. \E s \in Sides : \A z \in Sides, h \in Files :
         tree'[z].f[h] = IF h = g THEN tree[s].f[g] ELSE tree[z].f[h]
  BY TransferEffect DEF Sides
<1>3. \A h \in Files : StaysTrue(h)
  BY <1>1, <1>2 DEF StaysTrue, Settled, SettledNext
<1>4. CASE Upload(w, g)
  <2>1. /\ job[w].at = "apply" /\ job[w].plan[g].op = "upload" /\ g \in Items
    BY <1>4, TreeConstants DEF Upload, Takes, At, OpOf
  <2>2. tree'["here"] = tree["here"] /\ tree'["there"].f[g] = tree["here"].f[g]
    BY <1>4, TransferEffect
  <2>3. job[w].plan[g].row # Nil => job[w].plan[g].row.v \in GivenUp \cup {tree["here"].f[g]}
    BY <2>1 DEF PlanIsTrue
  <2>4. job[w].plan[g].row # Nil => SettledNext(job[w].plan[g].row.v, g)
    BY <1>1, <2>2, <2>3 DEF SettledNext, Sides
  <2> QED
    BY <1>3, <2>2, <2>4
<1>5. CASE Download(w, g)
  <2>1. /\ job[w].plan[g].op = "download" /\ tree["there"].f[g] = job[w].plan[g].row.v
    BY <1>5 DEF Download, Takes, OpOf
  <2>2. /\ tree'["there"] = tree["there"]
        /\ \A h \in Files : tree'["here"].f[h] =
               IF h = g THEN tree["there"].f[g] ELSE tree["here"].f[h]
    BY <1>5, TransferEffect
  <2>3. SettledNext(job[w].plan[g].row.v, g)
    BY <2>1, <2>2 DEF SettledNext, Sides
  <2>4. \A x \in Files : job[w].plan[x].op = "upload" => tree'["here"].f[x] = tree["here"].f[x]
    BY <2>1, <2>2
  <2> QED
    BY <1>3, <2>3, <2>4
<1> QED
  BY <1>4, <1>5

\* The steps that carry out the plan, folders made, files sent and fetched, or given up on.
LEMMA SettlesTruly ==
    ASSUME Typed, JobsShaped, RowsAgree, NEW w \in Workers, PlanIsTrue(w),
           \/ \E d \in Dirs : MakeFolder(w, d) \/ KeepFolder(w, d)
           \/ \E g \in Files : Upload(w, g) \/ Download(w, g)
           \/ \E x \in Items : OpFails(w, x)
    PROVE  RowsAgree' /\ PlanIsTrue(w)'
<1>1. /\ job[w].at = "apply" /\ job'[w].plan = job[w].plan
      /\ UNCHANGED <<rows, on, snap, discarded, dismissed>>
  <2>1. UNCHANGED <<discarded, dismissed>>
    BY DEF MakeFolder, KeepFolder, Upload, Download, OpFails, world, outer, past
  <2> QED
    BY <2>1, SettleStep DEF SameCourse, store, runs
<1>2. ASSUME NEW d \in Dirs, MakeFolder(w, d)
      PROVE  /\ \A h \in Files : StaysTrue(h)
             /\ \A x \in Files : tree'["here"].f[x] = tree["here"].f[x]
             /\ \A x \in Files : x \in job'[w].done => x \in job[w].done
  <2>1. \A s \in Sides : tree'[s].f = tree[s].f
    BY <1>2, TransferEffect
  <2>2. job'[w].done = job[w].done \cup {d}
    BY <1>2, SucceedsStep DEF MakeFolder
  <2>3. GivenUp' = GivenUp
    BY <1>1 DEF GivenUp
  <2> QED
    BY <2>1, <2>2, <2>3, TreeConstants DEF StaysTrue, Settled, SettledNext, Sides
<1>3. ASSUME (\E d \in Dirs : KeepFolder(w, d)) \/ (\E x \in Items : OpFails(w, x))
      PROVE  /\ \A h \in Files : StaysTrue(h)
             /\ \A x \in Files : tree'["here"].f[x] = tree["here"].f[x]
             /\ job'[w].done = job[w].done
  <2>1. UNCHANGED tree
    BY <1>3 DEF KeepFolder, OpFails, world
  <2>2. ASSUME NEW d \in Dirs, KeepFolder(w, d) PROVE job'[w].done = job[w].done
    <3>1. PICK a : Becomes(w, [job[w] EXCEPT !.todo = a])
      BY <2>2 DEF KeepFolder
    <3>2. job'[w] = [job[w] EXCEPT !.todo = a]
      BY <3>1, BecomesKeeps
    <3> QED
      BY <3>2, TaskOf DEF Tasks
  <2>3. ASSUME NEW x \in Items, OpFails(w, x) PROVE job'[w].done = job[w].done
    <3>1. PICK a, b : Becomes(w, [job[w] EXCEPT !.todo = a, !.failed = b])
      BY <2>3 DEF OpFails
    <3>2. job'[w] = [job[w] EXCEPT !.todo = a, !.failed = b]
      BY <3>1, BecomesKeeps
    <3> QED
      BY <3>2, TaskOf DEF Tasks
  <2>4. job'[w].done = job[w].done
    BY <1>3, <2>2, <2>3
  <2> QED
    BY <1>1, <2>1, <2>4, SameTreesStayTrue
<1>4. ASSUME NEW g \in Files, Upload(w, g) \/ Download(w, g)
      PROVE  /\ \A h \in Files : StaysTrue(h)
             /\ \A x \in Files : job[w].plan[x].op = "upload" =>
                    tree'["here"].f[x] = tree["here"].f[x]
             /\ \A x \in Files : x \in job'[w].done /\ x \notin job[w].done
                                    /\ job[w].plan[x].row # Nil
                                    => SettledNext(job[w].plan[x].row.v, x)
  <2>1. job'[w].done = job[w].done \cup {g}
    BY <1>4, SucceedsStep DEF Upload, Download
  <2> QED
    BY <1>4, <2>1, TransferSettles
<1>5. /\ \A h \in Files : StaysTrue(h)
      /\ \A x \in Files : job[w].plan[x].op = "upload" =>
             tree'["here"].f[x] = tree["here"].f[x]
      /\ \A x \in Files : x \in job'[w].done /\ x \notin job[w].done /\ job[w].plan[x].row # Nil
                             => SettledNext(job[w].plan[x].row.v, x)
  BY <1>2, <1>3, <1>4
<1>6. PlanIsTrue(w)'
  BY <1>1, <1>5, OwnPlanFrame
<1>7. RowsAgree'
  BY <1>1, <1>5, RowsFrame
<1> QED
  BY <1>6, <1>7

\* What a thread removes the rows know nothing alive of.
LEMMA RemovalSettles ==
    ASSUME Typed, JobsShaped, OneAtATime, RowsAgree, NEW w \in Workers, PlanIsTrue(w),
           NEW s \in Sides, NEW x \in Items, Remove(w, s, x), UNCHANGED <<store, runs>>,
           job[w].at \in {"apply", "remove"}, on[RunOf[w]], job[w].plan[x].op \in Deletes,
           job'[w].plan = job[w].plan, job'[w].done = job[w].done \cup {x}
    PROVE  RowsAgree' /\ PlanIsTrue(w)'
<1> DEFINE r == RunOf[w]
           P == job[w].plan
<1>1. /\ UNCHANGED <<rows, on, snap, discarded, dismissed>> /\ r \in Runs
      /\ \A q \in Runs : on[q] => q = r
  BY RemoveEffect, TaskOf DEF store, runs, OneAtATime
<1>2. GivenUp' = GivenUp
  BY <1>1 DEF GivenUp
<1>3. ASSUME NEW h \in Files, h \notin Subtree(x)
      PROVE  StaysTrue(h) /\ \A z \in Sides : tree'[z].f[h] = tree[z].f[h]
  <2>1. \A z \in Sides : tree'[z].f[h] = tree[z].f[h]
    BY <1>3, RemoveEffect
  <2> QED
    BY <1>2, <2>1 DEF StaysTrue, Settled, SettledNext
<1>4. Lapsed(r, x)
  BY DEF PlanIsTrue
<1>5. RowsAgree'
  <2>1. \A h \in Files : \/ StaysTrue(h)
                         \/ /\ rows.f[h] \in GivenUp'
                            /\ \A q \in Runs : on[q] => snap[q].f[h] \in GivenUp'
    BY <1>1, <1>2, <1>3, <1>4 DEF Lapsed
  <2> QED
    BY <1>1, <2>1, RowsFrame
<1>6. P[x].row = Nil /\ job[w].folder \in Folders /\ x \in Children(job[w].folder)
  <2>1. job[w].folder \in Folders /\ x \in Children(job[w].folder)
    BY PlannedIsChild
  <2>2. PlanShape(P, job[w].kids, Visible(job[w], skips[RunOf[w]]))
    BY DEF JobsShaped, JobShape
  <2>3. P[x].row = Nil
    BY <2>2 DEF PlanShape
  <2> QED
    BY <2>1, <2>3
<1>7. ASSUME NEW y \in Files, P[y].row # Nil \/ P[y].op = "upload", y # x
      PROVE  y \notin Subtree(x)
  <2>1. y \in Items /\ P[y] # Nothing
    BY <1>7, NothingPlanned, OpIsSomething, TreeConstants DEF Makes
  <2>2. y \in Children(job[w].folder)
    BY <2>1 DEF JobsShaped, JobShape, PlanShape, Visible
  <2> QED
    BY <1>6, <1>7, <2>2, SiblingsAreApart
<1>8. P[x].op # "upload"
  BY DEF Deletes
<1>9. PlanIsTrue(w)'
  <2>1. \A y \in Files : P[y].row # Nil => StaysTrue(y)
    BY <1>3, <1>6, <1>7
  <2>2. \A y \in Files : P[y].op = "upload" => tree'["here"].f[y] = tree["here"].f[y]
    BY <1>3, <1>7, <1>8 DEF Sides
  <2>3. \A y \in Files : y \in job'[w].done /\ y \notin job[w].done /\ P[y].row # Nil
                            => SettledNext(P[y].row.v, y)
    BY <1>6
  <2> QED
    BY <1>1, <2>1, <2>2, <2>3, OwnPlanFrame
<1> QED
  BY <1>5, <1>9

LEMMA DeletesTruly ==
    ASSUME Typed, JobsShaped, OneAtATime, RowsAgree, NEW w \in Workers, PlanIsTrue(w),
           (\E g \in Files : DeleteFile(w, g)) \/ RemoveFolder(w)
    PROVE  RowsAgree' /\ PlanIsTrue(w)'
<1>1. ASSUME NEW g \in Files, DeleteFile(w, g) PROVE RowsAgree' /\ PlanIsTrue(w)'
  <2> DEFINE s == Side(job[w].plan[g].op)
  <2>1. /\ on[RunOf[w]] /\ job[w].at = "apply" /\ job'[w].plan = job[w].plan
        /\ job[w].plan[g].op \in Deletes /\ s \in Sides /\ Remove(w, s, g)
        /\ UNCHANGED <<store, runs>> /\ g \in Items
    BY <1>1, DeleteFileStep, TreeConstants DEF SameCourse
  <2>2. job'[w].done = job[w].done \cup {g}
    BY <1>1, SucceedsStep DEF DeleteFile
  <2> HIDE DEF s
  <2> QED
    BY <2>1, <2>2, RemovalSettles
<1>2. CASE RemoveFolder(w)
  <2> DEFINE d == job[w].doomed
             s == Side(OpOf(w, d))
  <2>1. /\ job[w].at = "remove" /\ on[RunOf[w]] /\ job'[w].plan = job[w].plan
        /\ job'[w].done = job[w].done \cup {d}
    BY <1>2, RemoveFolderStep
  <2>2. d \in Items /\ job[w].plan[d].op \in Deletes
    BY <2>1, DoomedIsVisible
  <2>3. s \in Sides /\ Remove(w, s, d) /\ UNCHANGED <<store, runs>>
    BY <1>2 DEF RemoveFolder, Side, Sides
  <2> HIDE DEF s, d
  <2> QED
    BY <2>1, <2>2, <2>3, RemovalSettles
<1> QED
  BY <1>1, <1>2

\* A plan whose deletions are taken out is as true as it was.
LEMMA HeldBackIsTrue ==
    ASSUME Typed, JobsShaped, RowsAgree, NEW w \in Workers, PlanIsTrue(w), HeldBack(w)
    PROVE  RowsAgree' /\ PlanIsTrue(w)'
<1> DEFINE r == RunOf[w]
           P == job[w].plan
           k == job'[w]
<1>1. /\ job[w].at = "reserve" /\ k.plan = Without(P) /\ k.done = job[w].done
      /\ UNCHANGED <<tree, rows, on, snap, discarded, dismissed>>
  BY HeldBackStep DEF SameDone, world, outer, past, store, runs
<1>2. GivenUp' = GivenUp
  BY <1>1 DEF GivenUp
<1>3. PlanShape(P, job[w].kids, Visible(job[w], skips[r]))
  BY DEF JobsShaped, JobShape
<1>4. \A h : StaysTrue(h)
  BY <1>1, SameTreesStayTrue
<1>5. RowsAgree'
  BY <1>1, <1>4, RowsFrame
<1>6. ASSUME NEW x \in Items
      PROVE  /\ k.plan[x].op \notin Deletes
             /\ k.plan[x] = P[x] \/ k.plan[x].row = Nil
  BY <1>1, <1>3, <1>6, WithoutShape, NothingPlanned
<1>7. PlanIsTrue(w)'
  <2> HIDE DEF P
  <2> SUFFICES ASSUME NEW x \in Files, k.plan[x].row # Nil
               PROVE  /\ k.plan[x].op = "upload" =>
                            k.plan[x].row.v \in GivenUp' \cup {tree'["here"].f[x]}
                      /\ k.plan[x].op \in {"none", "noop"} \/ x \in k.done =>
                            SettledNext(k.plan[x].row.v, x)
    BY <1>6 DEF PlanIsTrue, Settled, SettledNext
  <2>1. k.plan[x] = P[x] /\ P[x].row # Nil
    BY <1>6, TreeConstants
  <2>2. /\ P[x].op = "upload" => P[x].row.v \in GivenUp \cup {tree["here"].f[x]}
        /\ P[x].op \in {"none", "noop"} \/ x \in job[w].done => Settled(P[x].row.v, x)
    BY <1>1, <2>1, TreeConstants DEF PlanIsTrue, P
  <2> HIDE DEF k
  <2> QED
    BY <1>1, <1>2, <1>4, <2>1, <2>2 DEF StaysTrue, k
<1> QED
  BY <1>5, <1>7

\* The rows a thread commits are of what both sides hold.
LEMMA RecordsTruly ==
    ASSUME Typed, JobsShaped, RowsAgree, NEW w \in Workers, PlanIsTrue(w), Commit(w) \/ Purge(w)
    PROVE  RowsAgree' /\ PlanIsTrue(w)' /\ SeenIsTrue(w)'
<1>1. UNCHANGED <<tree, on, snap, discarded, dismissed>>
  BY DEF Commit, Purge, world, outer, past, quiet, runs
<1>2. \A h : StaysTrue(h)
  BY <1>1, SameTreesStayTrue
<1>3. job'[w].at \notin {"remote", "reserve", "apply", "remove"}
  BY CommitStep, PurgeStep, FreeIsTask
<1>4. ASSUME NEW h \in Files PROVE SettledNext(rows'.f[h], h)
  <2>1. SettledNext(0, h) /\ SettledNext(rows.f[h], h)
    BY <1>2 DEF SettledNext, GivenUp, StaysTrue, RowsAgree
  <2>2. CASE Commit(w)
    <3>1. CASE rows'.f[h] = 0 \/ rows'.f[h] = rows.f[h]
      BY <2>1, <3>1
    <3>2. CASE Confirmed(w, h) /\ rows'.f[h] = job[w].plan[h].row.v
      <4> DEFINE V == job[w].plan[h]
      <4>1. /\ job[w].at = "apply" /\ V.row # Nil /\ h \in Items
            /\ V.op \in Makes => h \in job[w].done
        BY <2>2, <3>2, CommitStep, TreeConstants DEF Confirmed, OpOf
      <4>2. V.op \notin Deletes \cup {"skip"} /\ V.op \in Ops
        BY <4>1, TaskOf DEF JobsShaped, JobShape, PlanShape, Tasks, Plans
      <4>3. V.op \in {"none", "noop"} \/ h \in job[w].done
        BY <4>1, <4>2 DEF Ops
      <4>4. Settled(V.row.v, h)
        BY <4>1, <4>3 DEF PlanIsTrue
      <4> QED
        BY <1>2, <3>2, <4>4 DEF StaysTrue
    <3> QED
      BY <2>2, <3>1, <3>2, CommitEffect
  <2>3. CASE Purge(w)
    BY <2>1, <2>3, PurgeStep
  <2> QED
    BY <2>2, <2>3
<1>5. \A h \in Files, r \in Runs : on[r] => SettledNext(snap[r].f[h], h)
  BY <1>2 DEF StaysTrue, RowsAgree
<1>6. RowsAgree'
  BY <1>1, <1>4, <1>5 DEF RowsAgree, Settled, SettledNext
<1> QED
  BY <1>3, <1>6, NothingToBeTrueTo

\* The steps between, that leave the plan, the trees and the rows alone.
LEMMA WaitsTruly ==
    ASSUME Typed, JobsShaped, RowsAgree, NEW w \in Workers, PlanIsTrue(w),
           InReserve(w) \/ Granted(w) \/ \E d \in Dirs : CheckFolder(w, d)
    PROVE  RowsAgree' /\ PlanIsTrue(w)'
<1>1. /\ job[w].at \in {"reserve", "apply"} /\ job'[w].plan = job[w].plan
      /\ job'[w].done = job[w].done /\ UNCHANGED <<tree, rows, on, snap, discarded, dismissed>>
  <2>1. CASE InReserve(w)
    BY <2>1 DEF InReserve, At, world, outer, past, store, quiet, runs
  <2>2. CASE Granted(w) \/ \E d \in Dirs : CheckFolder(w, d)
    BY <2>2, GrantedStep, CheckStep DEF SameCourse, SameDone, world, outer, past, store, runs
  <2> QED
    BY <2>1, <2>2
<1>2. \A h : StaysTrue(h)
  BY <1>1, SameTreesStayTrue
<1>3. RowsAgree'
  BY <1>1, <1>2, RowsFrame
<1>4. PlanIsTrue(w)'
  BY <1>1, <1>2, OwnPlanFrame
<1> QED
  BY <1>3, <1>4

LEMMA OwnTruth ==
    ASSUME Typed, Shaped, OneAtATime, TreesWF, Truthful, NEW w \in Workers, Thread(w)
    PROVE  RowsAgree' /\ SeenIsTrue(w)' /\ PlanIsTrue(w)'
<1>0. JobsShaped /\ RowsAgree /\ SeenIsTrue(w) /\ PlanIsTrue(w)
  BY DEF Shaped, Truthful
<1>1. UNCHANGED <<on, snap>>
  BY <1>0, ThreadsAreLocal DEF ThreadLocal
<1>2. ASSUME UNCHANGED <<tree, rows, discarded, dismissed>> PROVE RowsAgree'
  BY <1>0, <1>1, <1>2, SameTreesStayTrue, RowsFrame
<1>3. ASSUME job'[w].at # "remote" PROVE SeenIsTrue(w)'
  BY <1>3 DEF SeenIsTrue
<1>4. CASE TakeFolder(w)
  <2>1. UNCHANGED <<world, store>>
    BY <1>4, TakeFolderStep
  <2>2. job'[w].at \notin {"remote", "reserve", "apply", "remove"}
    <3>1. job[w].at = "free"
      BY <1>4 DEF TakeFolder, At
    <3>2. \E q : job'[w] = job[w] \/ job'[w] = [job[w] EXCEPT !.at = "local", !.folder = q]
      BY <1>4, TakeFolderStep
    <3> QED
      BY <3>1, <3>2, TaskOf DEF Tasks
  <2> QED
    BY <1>2, <2>1, <2>2, NothingToBeTrueTo DEF world, outer, past, store
<1>5. CASE ReadLocal(w) \/ ReadLocalBlind(w)
  <2>1. UNCHANGED <<world, store>>
    BY <1>5, ReadStep
  <2> QED
    BY <1>0, <1>2, <1>5, <2>1, ReadIsTrue DEF world, outer, past, store
<1>6. CASE ListRemote(w) \/ ListRemoteFails(w)
  <2>1. UNCHANGED <<world, store>>
    BY <1>6 DEF ListRemote, ListRemoteFails, PlanFolder
  <2> QED
    BY <1>0, <1>2, <1>6, <2>1, ListsAreTrue DEF world, outer, past, store
<1>7. CASE InReserve(w) \/ Granted(w) \/ \E d \in Dirs : CheckFolder(w, d)
  <2>1. job'[w].at # "remote"
    BY <1>7, GrantedStep, CheckStep DEF InReserve, At
  <2> QED
    BY <1>0, <1>3, <1>7, <2>1, WaitsTruly
<1>8. CASE HeldBack(w)
  BY <1>0, <1>3, <1>8, HeldBackStep, HeldBackIsTrue
<1>9. CASE (\E g \in Files : DeleteFile(w, g)) \/ RemoveFolder(w)
  BY <1>0, <1>3, <1>9, DeleteFileStep, RemoveFolderStep, DeletesTruly
<1>10. CASE Commit(w) \/ Purge(w)
  BY <1>0, <1>10, RecordsTruly
<1>11. CASE \/ \E d \in Dirs : MakeFolder(w, d) \/ KeepFolder(w, d)
            \/ \E g \in Files : Upload(w, g) \/ Download(w, g)
            \/ \E x \in Items : OpFails(w, x)
  BY <1>0, <1>3, <1>11, SettleStep, SettlesTruly
<1> QED
  BY <1>4, <1>5, <1>6, <1>7, <1>8, <1>9, <1>10, <1>11, Zenon DEF Thread

LEMMA ThreadTruthful ==
    ASSUME Typed, Shaped, OneAtATime, Apart, TreesWF, Truthful, NEW w \in Workers, Thread(w)
    PROVE  Truthful'
<1>1. ASSUME NEW b \in Workers, b # w PROVE SeenIsTrue(b)' /\ PlanIsTrue(b)'
  <2>1. CASE ~Busy(b)
    <3>1. job'[b] = job[b]
      BY <1>1, ThreadsAreLocal DEF ThreadLocal, Shaped
    <3> QED
      BY <2>1, <3>1, NothingToBeTrueTo DEF Busy
  <2>2. CASE Busy(b)
    <3>1. /\ job'[b] = job[b] /\ RunOf[b] = RunOf[w]
          /\ \A h \in Files \cap Beneath(job[b].folder) :
                 /\ rows'.f[h] = rows.f[h]
                 /\ \A s \in Sides : tree'[s].f[h] = tree[s].f[h]
      BY <1>1, <2>2, OthersAreLeftAlone
    <3>2. UNCHANGED <<snap, skips, discarded, dismissed>>
      BY ThreadsAreLocal DEF ThreadLocal, Shaped
    <3>3. GivenUp' = GivenUp
      BY <3>2 DEF GivenUp
    <3>4. \A h \in Files \cap Beneath(job[b].folder) :
              KeptOrGivenUp(h) /\ rows'.f[h] \in GivenUp' \cup {rows.f[h]}
      BY <3>1 DEF KeptOrGivenUp
    <3>5. JobsShaped /\ SeenIsTrue(b) /\ PlanIsTrue(b)
      BY DEF Shaped, Truthful
    <3> QED
      BY <3>1, <3>2, <3>3, <3>4, <3>5, TruthFrame
  <2> QED
    BY <2>1, <2>2
<1> QED
  BY <1>1, OwnTruth DEF Truthful

\* No thread moves: the rows stay, and what changes was given up.
LEMMA QuietTruth ==
    ASSUME Typed, Shaped, Truthful, UNCHANGED <<rows, job>>, GivenUp \subseteq GivenUp',
           \A h \in Files : KeptOrGivenUp(h),
           \A r \in Runs : on'[r] => (on[r] /\ snap'[r] = snap[r]) \/ snap'[r] = rows,
           \A w \in Workers : \/ job[w].at = "free"
                              \/ /\ snap'[RunOf[w]] = snap[RunOf[w]]
                                 /\ skips'[RunOf[w]] = skips[RunOf[w]]
    PROVE  Truthful'
<1>1. \A h \in Files : SettledNext(rows.f[h], h)
  BY StaysSettled DEF Truthful, RowsAgree
<1>2. \A h \in Files, r \in Runs : on[r] => SettledNext(snap[r].f[h], h)
  BY StaysSettled DEF Truthful, RowsAgree
<1>3. ASSUME NEW h \in Files, NEW r \in Runs, on'[r] PROVE SettledNext(snap'[r].f[h], h)
  BY <1>1, <1>2, <1>3
<1>4. RowsAgree'
  BY <1>1, <1>3 DEF RowsAgree, Settled, SettledNext
<1>5. ASSUME NEW w \in Workers PROVE SeenIsTrue(w)' /\ PlanIsTrue(w)'
  <2>1. CASE job[w].at = "free"
    BY <2>1, NothingToBeTrueTo
  <2>2. CASE snap'[RunOf[w]] = snap[RunOf[w]] /\ skips'[RunOf[w]] = skips[RunOf[w]]
    BY <2>2, TruthFrame DEF Shaped, Truthful
  <2> QED
    BY <2>1, <2>2
<1> QED
  BY <1>4, <1>5 DEF Truthful

LEMMA SameWorldKeeps ==
    ASSUME UNCHANGED <<tree, discarded, dismissed>>
    PROVE  GivenUp \subseteq GivenUp' /\ \A h : KeptOrGivenUp(h)
BY DEF GivenUp, KeptOrGivenUp

LEMMA NextTruthful ==
    ASSUME ~Overlap, Sound, TreesWF, Truthful, [Next]_vars
    PROVE  TreesWF' /\ Truthful'
<1>0. Typed /\ Shaped /\ OneAtATime /\ Apart /\ JobsShaped
  BY DEF Sound, Shaped
<1>1. CASE UNCHANGED <<tree, discarded, dismissed, rows, on, snap, skips, job>>
  BY <1>0, <1>1, SameWorldKeeps, QuietTruth DEF TreesWF
<1>2. CASE \/ \E r \in Runs : NextLevel(r) \/ Cancel(r)
           \/ \E x : BackoffElapses(x)
           \/ UNCHANGED vars
  BY <1>1, <1>2 DEF NextLevel, Cancel, BackoffElapses, vars, world, outer, past, store, runs
<1>3. ASSUME NEW r \in Runs, NEW folders, NEW missing, Begin(r, folders, missing)
      PROVE  TreesWF' /\ Truthful'
  <2>1. /\ UNCHANGED <<tree, discarded, dismissed, rows, job>>
        /\ snap' = [snap EXCEPT ![r] = rows] /\ skips' = [skips EXCEPT ![r] = excludes]
        /\ on' = [on EXCEPT ![r] = TRUE] /\ ~on[r]
    BY <1>3 DEF Begin, world, outer, past, store
  <2>2. \A q \in Runs : on'[q] => (on[q] /\ snap'[q] = snap[q]) \/ snap'[q] = rows
    BY <1>0, <2>1 DEF Typed, RunsTyped
  <2>3. \A w \in Workers : \/ job[w].at = "free"
                           \/ /\ snap'[RunOf[w]] = snap[RunOf[w]]
                              /\ skips'[RunOf[w]] = skips[RunOf[w]]
    <3>1. \A w \in Workers : RunOf[w] = r => job[w].at = "free"
      BY <1>0, <2>1 DEF Shaped, IdleRuns, IdleRun, AllFree, Crew
    <3>2. \A q \in Runs : q # r => snap'[q] = snap[q] /\ skips'[q] = skips[q]
      BY <1>0, <2>1 DEF Typed, RunsTyped
    <3> QED
      BY <1>0, <3>1, <3>2, TaskOf
  <2> QED
    BY <1>0, <2>1, <2>2, <2>3, SameWorldKeeps, QuietTruth DEF TreesWF
<1>4. ASSUME NEW r \in Runs, End(r) PROVE TreesWF' /\ Truthful'
  <2>1. /\ UNCHANGED <<tree, discarded, dismissed, rows, job>> /\ AllFree(r)
        /\ snap' = [snap EXCEPT ![r] = Bare] /\ skips' = [skips EXCEPT ![r] = {}]
        /\ on' = [on EXCEPT ![r] = FALSE]
    BY <1>4 DEF End, store
  <2>2. \A q \in Runs : q # r => snap'[q] = snap[q] /\ skips'[q] = skips[q] /\ on'[q] = on[q]
    BY <1>0, <2>1 DEF Typed, RunsTyped
  <2>3. ~on'[r]
    BY <1>0, <2>1 DEF Typed, RunsTyped
  <2>4. \A q \in Runs : on'[q] => (on[q] /\ snap'[q] = snap[q]) \/ snap'[q] = rows
    BY <2>2, <2>3
  <2>5. \A w \in Workers : RunOf[w] = r => job[w].at = "free"
    BY <2>1 DEF AllFree, Crew
  <2>6. \A w \in Workers : \/ job[w].at = "free"
                           \/ /\ snap'[RunOf[w]] = snap[RunOf[w]]
                              /\ skips'[RunOf[w]] = skips[RunOf[w]]
    BY <1>0, <2>2, <2>5, TaskOf
  <2> QED
    BY <1>0, <2>1, <2>4, <2>6, SameWorldKeeps, QuietTruth DEF TreesWF
<1>5. CASE \E w \in Workers : Thread(w)
  BY <1>0, <1>5, ThreadTreesWF, ThreadTruthful
<1>6. CASE Crash
  <2>1. /\ UNCHANGED <<tree, rows, discarded, dismissed>> /\ \A r \in Runs : ~on'[r]
        /\ \A w \in Workers : job'[w] = Free
    BY <1>6 DEF Crash, world, outer, past, store
  <2>2. \A h \in Files : SettledNext(rows.f[h], h)
    BY <2>1, SameTreesStayTrue DEF Truthful, RowsAgree, StaysTrue
  <2>3. RowsAgree'
    BY <2>1, <2>2 DEF RowsAgree, Settled, SettledNext
  <2>4. \A w \in Workers : SeenIsTrue(w)' /\ PlanIsTrue(w)'
    BY <2>1, FreeIsTask, NothingToBeTrueTo
  <2> QED
    BY <2>1, <2>3, <2>4 DEF Truthful, TreesWF
<1>7. CASE \/ \E d \in Dirs : Exclude(d) \/ Include(d) \/ FreeUp(d)
           \/ \E side \in Sides : \/ \E g \in Files : Edit(side, g) \/ Restore(side, g)
                                  \/ \E x \in Items : Dismiss(side, x)
  <2>1. UNCHANGED <<rows, on, snap, skips, job>>
    BY <1>7, OutsideKeeps DEF runs
  <2>2. /\ GivenUp \subseteq GivenUp' /\ \A h \in Files : KeptOrGivenUp(h)
        /\ TreesWF => TreesWF'
    BY <1>0, <1>7, OutsideGivesUp
  <2> QED
    BY <1>0, <2>1, <2>2, QuietTruth
<1>8. CASE StartWalk \/ StartBurst
  BY <1>3, <1>8, Bounds DEF StartWalk, StartBurst
<1> QED
  BY <1>2, <1>4, <1>5, <1>6, <1>7, <1>8, Zenon DEF Next, Engine, Environment, RunStep

\* When no two runs overlap, and whatever users and other devices do while they are in flight:
\* no folder takes along a version that nobody had ever deleted or replaced, for any tree.
THEOREM FoldersTakeNothingUnseen ==
    ASSUME ~Overlap
    PROVE  Spec => FoldersTakeOnlyDismissed
<1> DEFINE Inv == Sound /\ TreesWF /\ Truthful
           Spared == (\E w \in Workers : job[w].at = "remove" /\ job'[w] # job[w])
                        => Retired \subseteq discarded' \cup dismissed'
<1>1. ASSUME Inv, [Next]_vars PROVE Spared
  <2> SUFFICES ASSUME NEW w \in Workers, job[w].at = "remove", job'[w] # job[w]
               PROVE  Retired \subseteq discarded' \cup dismissed'
    OBVIOUS
  <2>0. Typed /\ JobsShaped
    BY <1>1 DEF Sound, Shaped
  <2>1. Thread(w) \/ (Crash /\ UNCHANGED world)
    BY <1>1, <2>0, WhoseStep
  <2>2. CASE Crash /\ UNCHANGED world
    BY <2>2 DEF Retired, Alive, Live, world
  <2>3. CASE Thread(w)
    <3> DEFINE d == job[w].doomed
               s == Side(OpOf(w, d))
    <3>1. RemoveFolder(w)
      BY <2>3 DEF Thread, TakeFolder, ReadLocal, ReadLocalBlind, ListRemote, ListRemoteFails,
                  PlanFolder, InReserve, Granted, HeldBack, Commit, Purge, MakeFolder,
                  CheckFolder, KeepFolder, Upload, Download, DeleteFile, OpFails, Takes, At
    <3>2. Remove(w, s, d) /\ s \in Sides
      BY <3>1 DEF RemoveFolder, Side, Sides
    <3>3. d \in Dirs /\ job[w].plan[d].op \in Deletes /\ d \in Items
      BY <2>0, DoomedIsVisible
    <3>4. Lapsed(RunOf[w], d)
      BY <1>1, <3>3 DEF Truthful, PlanIsTrue
    <3>5. \A h \in Within(tree[s], d) : rows.f[h] = tree[s].f[h]
      BY <1>1 DEF Sound, RemovalKnown, KnownOf
    <3> HIDE DEF s, d
    <3>6. /\ \A h \in Files : tree'[s].f[h] = IF h \in Subtree(d) THEN 0 ELSE tree[s].f[h]
          /\ \A z \in Sides : z # s => tree'[z] = tree[z]
          /\ UNCHANGED <<discarded, dismissed>>
      BY <2>0, <3>2, RemoveEffect
    <3>7. ASSUME NEW z \in Sides, NEW h \in Files, tree[z].f[h] # 0, tree[z].f[h] \notin Alive'
          PROVE  tree[z].f[h] \in discarded \cup dismissed
      <4>1. tree'[z].f[h] # tree[z].f[h]
        BY <3>7 DEF Alive, Live
      <4>2. z = s /\ h \in Files \cap Subtree(d)
        BY <3>6, <4>1
      <4>3. rows.f[h] = tree[s].f[h]
        BY <3>5, <3>7, <4>2 DEF Within
      <4>4. rows.f[h] \in GivenUp
        BY <3>4, <4>2 DEF Lapsed
      <4> QED
        BY <3>7, <4>2, <4>3, <4>4 DEF GivenUp
    <3>8. \A v \in Alive : v # 0 /\ \E z \in Sides, h \in Files : v = tree[z].f[h]
      BY DEF Alive, Live
    <3> QED
      BY <3>6, <3>7, <3>8 DEF Retired
  <2> QED
    BY <2>1, <2>2, <2>3
<1>2. Init => TreesWF /\ Truthful
  <2> SUFFICES ASSUME Init PROVE TreesWF /\ Truthful
    OBVIOUS
  <2>1. \A s \in Sides : tree[s] = StartTree
    BY DEF Init
  <2>2. rows = StartTree /\ \A r \in Runs : ~on[r]
    BY DEF Init
  <2>3. \A w \in Workers : job[w] = Free
    BY DEF Init
  <2>4. WellFormed(StartTree)
    BY AboveIsLeast, TreeConstants DEF WellFormed, StartTree, Filed
  <2>5. RowsAgree
    BY <2>1, <2>2 DEF RowsAgree, Settled
  <2>6. \A w \in Workers : SeenIsTrue(w) /\ PlanIsTrue(w)
    BY <2>3, FreeIsTask DEF SeenIsTrue, PlanIsTrue
  <2> QED
    BY <2>1, <2>4, <2>5, <2>6 DEF TreesWF, Truthful
<1>3. Sound /\ Sound' /\ TreesWF /\ Truthful /\ [Next]_vars => Inv'
  BY NextTruthful
<1>4. Inv /\ [Next]_vars => Spared
  BY <1>1
<1> HIDE DEF Spared
<1>5. Spec => [][Spared]_vars
  BY <1>2, <1>3, <1>4, AlwaysSound, PTL DEF Spec, Inv
<1> QED
  BY <1>5 DEF FoldersTakeOnlyDismissed, Spared

-----------------------------------------------------------------------------
(* A walk that nothing disturbs.  What it has gone through both sides hold   *)
(* alike, and so they hold all of it once no folder is left to go through.   *)

Agree(x) == /\ x \in Files => tree["here"].f[x] = tree["there"].f[x]
            /\ x \in Dirs => (x \in tree["here"].d <=> x \in tree["there"].d)
Lacks(s, x) == /\ x \in Files => tree[s].f[x] = 0
               /\ x \in Dirs => x \notin tree[s].d
\* Both sides have another version of the file than the walk's snapshot.
Changed(x) == /\ x \in Files
              /\ tree["here"].f[x] # snap["walk"].f[x] /\ tree["there"].f[x] # snap["walk"].f[x]
\* The folders the walk is at, and those it has still to do; none of them is in another.
Ahead == queue["walk"] \cup next["walk"] \cup {job[w].folder : w \in {v \in Crew("walk") : Busy(v)}}
Nested == \A p, q \in Ahead : p \notin Beneath(q)

\* What the walk leaves behind it.
Reached(x) == \/ Excluded(x, skips["walk"]) \/ Agree(x) \/ (x \in Files /\ Contested(x))
              \/ \E q \in Ahead : x \in Beneath(q)

\* Where the walk has still to go, the baseline is the snapshot's.
Stands(files) == \A h \in Files \cap files : rows.f[h] = snap["walk"].f[h]
StandsFor(w) ==
    LET q == job[w].folder IN
    Busy(w) => Stands(IF job[w].at = "purge" THEN Beneath(q) \ Children(q) ELSE Beneath(q))

\* An operation still to do leaves both sides alike.
Suits(op, x) == /\ op = "mkdirLocal" => x \in tree["there"].d
                /\ op = "mkdirRemote" => x \in tree["here"].d
                /\ op = "deleteLocal" => Lacks("there", x)
                /\ op = "deleteRemote" => Lacks("here", x)

Listed == {"reserve", "apply", "remove", "purge"}
InPlace(w) ==
    LET j == job[w] IN
    /\ j.at = "remote" => j.whole
    /\ j.at \in {"remote"} \cup Listed => There(tree["here"], j.folder)
    /\ j.at \in Listed => There(tree["there"], j.folder)
\* Of a child of the folder: seen as it is; then an operation is to be done on it, or none is
\* needed; and a folder that is there is gone into.
ChildInOrder(w, x) ==
    LET j == job[w] IN
    /\ j.at = "remote" => /\ x \in Files => j.seen.f[x] = tree["here"].f[x]
                          /\ x \in Dirs => (x \in j.seen.d <=> x \in tree["here"].d)
    /\ j.at \in Listed \ {"purge"} =>
          IF x \in j.todo THEN Suits(j.plan[x].op, x)
          ELSE Agree(x) \/ (Changed(x) /\ j.plan[x].op = "skip")
    /\ j.at = "purge" => Agree(x) \/ (x \in Files /\ Contested(x))
    /\ j.at \in Listed /\ x \in Dirs /\ x \notin Kids(w) => Lacks("here", x) /\ Lacks("there", x)
InOrder(w) == InPlace(w) /\ \A x \in Visible(job[w], skips["walk"]) : ChildInOrder(w, x)

OnCourse == /\ Nested /\ \A x \in Items : Reached(x)
            /\ \A q \in queue["walk"] \cup next["walk"] : Stands(Beneath(q))
            /\ \A w \in Crew("walk") : StandsFor(w) /\ InOrder(w)

\* Nothing has failed, so nothing new waits in backoff.
Unfailing == /\ ~on["burst"] /\ ~cancelled["walk"]
             /\ \A w \in Crew("walk") : /\ job[w].failed = {}
                                       /\ (job[w].todo \cup job[w].done) \cap backoff = {}

Undisturbing == calm /\ on["walk"]
Course == Undisturbing => Unfailing /\ (backoff = {} => OnCourse)
\* The steps that do not disturb a walk in flight: the runs' own, and none of a burst's.
Steady(w) == \/ TakeFolder(w) \/ ReadLocal(w) \/ ListRemote(w) \/ InReserve(w) \/ Granted(w)
             \/ RemoveFolder(w) \/ Commit(w) \/ Purge(w)
             \/ \E d \in Dirs : MakeFolder(w, d) \/ CheckFolder(w, d)
             \/ \E g \in Files : Upload(w, g) \/ Download(w, g) \/ DeleteFile(w, g)

LEMMA SteadyIsThread == \A w : Steady(w) => Thread(w)
BY DEF Steady, Thread

\* What ends the calm: faults, moves, bursts, and a thread that fails or holds back.
LEMMA WhatDisturbs ==
    /\ \A w : ReadLocalBlind(w) \/ ListRemoteFails(w) \/ HeldBack(w) => ~calm'
    /\ \A w, x : KeepFolder(w, x) \/ OpFails(w, x) => ~calm'
    /\ StartBurst \/ Crash \/ (\E r : Cancel(r)) \/ (\E x : BackoffElapses(x)) => ~calm'
    /\ \/ \E d \in Dirs : Exclude(d) \/ Include(d) \/ FreeUp(d)
       \/ \E side \in Sides : \/ \E g \in Files : Edit(side, g) \/ Restore(side, g)
                              \/ \E x \in Items : Dismiss(side, x)
       => ~calm'
<1>1. \A kind, side : MayMove(kind, side) => ~calm'
  BY DEF MayMove
<1>2. \A d : Exclude(d) \/ Include(d) \/ FreeUp(d) => ~calm'
  BY <1>1 DEF Exclude, Include, FreeUp
<1>3. \A side, x : Edit(side, x) \/ Restore(side, x) \/ Dismiss(side, x) => ~calm'
  BY <1>1 DEF Edit, Restore, Dismiss
<1>4. /\ \A w : ReadLocalBlind(w) \/ ListRemoteFails(w) \/ HeldBack(w) => ~calm'
      /\ \A w, x : KeepFolder(w, x) \/ OpFails(w, x) => ~calm'
  BY DEF ReadLocalBlind, ListRemoteFails, HeldBack, KeepFolder, OpFails
<1>5. StartBurst \/ Crash \/ (\E r : Cancel(r)) \/ (\E x : BackoffElapses(x)) => ~calm'
  BY DEF StartBurst, Crash, Cancel, BackoffElapses
<1> QED
  BY <1>2, <1>3, <1>4, <1>5

\* A step after which a walk is in flight, undisturbed: it has just begun, or it was already.
LEMMA SteadyStep ==
    ASSUME Typed, JobsShaped, [Next]_vars, Undisturbing', Undisturbing => ~on["burst"]
    PROVE  \/ StartWalk /\ ~on["burst"]
           \/ Undisturbing /\ UNCHANGED vars
           \/ Undisturbing /\ NextLevel("walk")
           \/ Undisturbing /\ \E w \in Crew("walk") : Steady(w)
<1>1. CASE UNCHANGED vars
  BY <1>1 DEF Undisturbing, vars, runs
<1>2. CASE StartWalk
  BY <1>2 DEF StartWalk, Undisturbing
<1>3. ASSUME NEW r \in Runs, RunStep(r)
      PROVE  Undisturbing /\ NextLevel("walk")
  <2>1. calm /\ on[r] /\ on'["walk"]
    BY <1>3 DEF RunStep, NextLevel, End, Undisturbing
  <2>2. on \in [Runs -> BOOLEAN]
    BY DEF Typed, RunsTyped
  <2>3. on' = on \/ on' = [on EXCEPT ![r] = FALSE]
    BY <1>3 DEF RunStep, NextLevel, End
  <2>4. on["walk"] /\ r = "walk"
    BY <1>3, <2>1, <2>2, <2>3, Bounds DEF Undisturbing
  <2>5. ~End("walk")
    BY <2>1, <2>2, Bounds DEF End
  <2> QED
    BY <1>3, <2>1, <2>4, <2>5 DEF RunStep, Undisturbing
<1>4. ASSUME NEW w \in Workers, Thread(w)
      PROVE  Undisturbing /\ w \in Crew("walk") /\ Steady(w)
  <2>1. Steady(w)
    BY <1>4, WhatDisturbs DEF Thread, Steady, Undisturbing
  <2>2. calm
    BY <2>1 DEF Steady, TakeFolder, ReadLocal, ListRemote, InReserve, Granted, RemoveFolder, Commit,
                Purge, MakeFolder, CheckFolder, Upload, Download, DeleteFile, Undisturbing
  <2>3. on[RunOf[w]] /\ on' = on /\ RunOf[w] \in Runs
    BY <1>4, ThreadsAreLocal, TaskOf DEF ThreadLocal
  <2> QED
    BY <2>1, <2>2, <2>3, Bounds DEF Undisturbing, Crew
<1>5. ~StartBurst /\ ~Environment
  BY WhatDisturbs, Zenon DEF Environment, Undisturbing
<1> QED
  BY <1>1, <1>2, <1>3, <1>4, <1>5 DEF Next, Engine

\* A thread that steadily goes on has nothing fail, and takes up nothing that waits in backoff.
LEMMA SteadyJob ==
    ASSUME Typed, JobsShaped, NEW w \in Workers, Steady(w)
    PROVE  /\ job'[w].failed \subseteq job[w].failed
           /\ job'[w].todo \cup job'[w].done \subseteq
                  job[w].todo \cup job[w].done \cup (Items \ backoff)
           /\ backoff' = backoff \/ Commit(w)
<1> DEFINE Goal == /\ job'[w].failed \subseteq job[w].failed
                   /\ job'[w].todo \cup job'[w].done \subseteq
                          job[w].todo \cup job[w].done \cup (Items \ backoff)
<1>1. job[w] \in Tasks
  BY TaskOf
<1>2. ASSUME NEW a, NEW b,
             \/ job'[w] = [job[w] EXCEPT !.at = a]
             \/ job'[w] = [job[w] EXCEPT !.at = a, !.folder = b]
             \/ job'[w] = [job[w] EXCEPT !.at = a, !.doomed = b]
      PROVE  Goal
  BY <1>1, <1>2 DEF Tasks
<1>3. ASSUME NEW x \in job[w].todo, NEW gone,
             \/ job'[w] = [job[w] EXCEPT !.at = "apply", !.todo = @ \ {x}, !.done = @ \cup {x},
                                         !.gone = gone]
             \/ job'[w] = [job[w] EXCEPT !.at = "apply", !.doomed = Nil, !.todo = @ \ {x},
                                         !.done = @ \cup {x}, !.gone = gone]
      PROVE  Goal
  <2>1. CASE job'[w] = [job[w] EXCEPT !.at = "apply", !.todo = @ \ {x}, !.done = @ \cup {x},
                                      !.gone = gone]
    BY <1>1, <1>3, <2>1 DEF Tasks
  <2>2. CASE job'[w] = [job[w] EXCEPT !.at = "apply", !.doomed = Nil, !.todo = @ \ {x},
                                      !.done = @ \cup {x}, !.gone = gone]
    BY <1>1, <1>3, <2>2 DEF Tasks
  <2> QED
    BY <1>3, <2>1, <2>2
<1>4. CASE TakeFolder(w)
  <2>1. job'[w] = job[w] \/ \E q : job'[w] = [job[w] EXCEPT !.at = "local", !.folder = q]
    BY <1>4, TakeFolderStep
  <2>2. Goal
    BY <1>2, <2>1
  <2> QED
    BY <1>4, <2>2 DEF TakeFolder, store
<1>5. CASE ReadLocal(w)
  <2>1. PICK b, c : Becomes(w, [job[w] EXCEPT !.at = "remote", !.seen = b, !.whole = c])
    BY <1>5 DEF ReadLocal
  <2>2. job'[w] = [job[w] EXCEPT !.at = "remote", !.seen = b, !.whole = c]
    BY <2>1, BecomesKeeps
  <2>3. Goal
    BY <1>1, <2>2 DEF Tasks
  <2> QED
    BY <1>5, <2>3 DEF ReadLocal, store
<1>6. CASE ListRemote(w)
  <2>1. PICK a, k, P : Becomes(w, [job[w] EXCEPT !.at = a, !.kids = k, !.plan = P,
                                                  !.todo = Todo(P)])
    BY <1>6 DEF ListRemote, PlanFolder
  <2>2. job'[w] = [job[w] EXCEPT !.at = a, !.kids = k, !.plan = P, !.todo = Todo(P)]
    BY <2>1, BecomesKeeps
  <2>3. job'[w].failed = job[w].failed /\ job'[w].todo = Todo(P) /\ job'[w].done = job[w].done
    BY <1>1, <2>2 DEF Tasks
  <2>4. Todo(P) \subseteq Items \ backoff
    BY DEF Todo
  <2>5. backoff' = backoff
    BY <1>6 DEF ListRemote, PlanFolder, store
  <2> QED
    BY <2>3, <2>4, <2>5
<1>7. CASE InReserve(w)
  BY <1>7 DEF InReserve, store
<1>8. CASE Granted(w)
  <2>1. job'[w] = [job[w] EXCEPT !.at = "apply"]
    BY <1>8, BecomesKeeps DEF Granted
  <2>2. Goal
    BY <1>2, <2>1
  <2> QED
    BY <1>8, <2>2 DEF Granted, store
<1>9. ASSUME NEW d \in Dirs, CheckFolder(w, d) PROVE Goal /\ backoff' = backoff
  <2>1. job'[w] = [job[w] EXCEPT !.at = "remove", !.doomed = d]
    BY <1>9, BecomesKeeps DEF CheckFolder
  <2>2. Goal
    BY <1>2, <2>1
  <2> QED
    BY <1>9, <2>2 DEF CheckFolder, store
<1>10. ASSUME NEW x \in job[w].todo, Succeeds(w, x) PROVE Goal
  <2>1. \E gone : job'[w] = [job[w] EXCEPT !.at = "apply", !.todo = @ \ {x}, !.done = @ \cup {x},
                                           !.gone = gone]
    BY <1>10, BecomesKeeps DEF Succeeds
  <2> QED
    BY <1>3, <2>1
<1>11. ASSUME NEW d \in Dirs, MakeFolder(w, d) PROVE Goal /\ backoff' = backoff
  BY <1>10, <1>11 DEF MakeFolder, Takes, store
<1>12. ASSUME NEW g \in Files, Upload(w, g) \/ Download(w, g) \/ DeleteFile(w, g)
       PROVE  Goal /\ backoff' = backoff
  BY <1>10, <1>12 DEF Upload, Download, DeleteFile, Takes, store
<1>13. CASE RemoveFolder(w)
  <2>1. job[w].doomed \in job[w].todo
    BY <1>13, RemoveFolderStep DEF JobsShaped, JobShape
  <2>2. \E gone : job'[w] = [job[w] EXCEPT !.at = "apply", !.doomed = Nil,
                        !.todo = @ \ {job[w].doomed}, !.done = @ \cup {job[w].doomed},
                        !.gone = gone]
    BY <1>13, BecomesKeeps DEF RemoveFolder
  <2>3. Goal
    BY <1>3, <2>1, <2>2
  <2> QED
    BY <1>13, <2>3 DEF RemoveFolder, store
<1>14. CASE Commit(w)
  <2>1. job'[w] = [job[w] EXCEPT !.at = "purge"]
    BY <1>14, BecomesKeeps DEF Commit
  <2> QED
    BY <1>2, <1>14, <2>1
<1>15. CASE Purge(w)
  <2>1. job'[w] = Free
    BY <1>15, PurgeStep
  <2> QED
    BY <1>15, <2>1 DEF Purge, Free
<1> QED
  BY <1>4, <1>5, <1>6, <1>7, <1>8, <1>9, <1>11, <1>12, <1>13, <1>14, <1>15, Zenon DEF Steady

\* ... so neither does the walk.
LEMMA SteadyUnfailing ==
    ASSUME Typed, JobsShaped, Unfailing, on["walk"], NEW w \in Crew("walk"), Steady(w)
    PROVE  Unfailing' /\ backoff' = backoff
<1>1. w \in Workers /\ ThreadLocal(w)
  BY SteadyIsThread, ThreadsAreLocal DEF Crew
<1>2. \A b \in Workers : b # w => job'[b] = job[b]
  BY <1>1 DEF ThreadLocal
<1>3. backoff' = backoff
  <2>1. CASE Commit(w)
    BY <2>1 DEF Commit, Unfailing
  <2> QED
    BY <1>1, <2>1, SteadyJob
<1>4. job'[w].failed = {} /\ (job'[w].todo \cup job'[w].done) \cap backoff = {}
  BY <1>1, SteadyJob DEF Unfailing
<1>5. Crew("walk")' = Crew("walk")
  BY DEF Crew
<1>6. \A b \in Crew("walk") : /\ job'[b].failed = {}
                              /\ (job'[b].todo \cup job'[b].done) \cap backoff = {}
  BY <1>2, <1>4 DEF Unfailing, Crew
<1>7. UNCHANGED <<on, cancelled>>
  BY <1>1 DEF ThreadLocal
<1> QED
  BY <1>3, <1>5, <1>6, <1>7 DEF Unfailing

-----------------------------------------------------------------------------
(* What an operation changes: its own child of the folder, and no other.      *)

Same(x) == \A s \in Sides : /\ x \in Files => tree'[s].f[x] = tree[s].f[x]
                            /\ x \in Dirs => (x \in tree'[s].d <=> x \in tree[s].d)

\* To put a child into a folder that is there changes nothing but the child.
LEMMA PutsTouchNoOther ==
    ASSUME NEW t \in Trees, WellFormed(t), NEW q \in Folders, There(t, q), NEW x \in Children(q)
    PROVE  /\ x \in Files => \A v :
                  /\ Put(t, x, v).d = t.d
                  /\ \A h \in Files : Put(t, x, v).f[h] = IF h = x THEN v ELSE t.f[h]
           /\ x \in Dirs => Made(t, x).d = t.d \cup {x} /\ Made(t, x).f = t.f
<1>1. x \in Items /\ Parent[x] = q
  BY DEF Children
<1>2. Above[x] \subseteq t.d
  <2>1. CASE q = Root
    BY <1>1, <2>1, AboveStep
  <2>2. CASE q # Root
    BY <1>1, <2>2, AboveStep DEF There, WellFormed
  <2> QED
    BY <2>1, <2>2
<1>3. \A v : Put(t, x, v).d = t.d
  BY <1>2 DEF Put
<1>4. Made(t, x).d = t.d \cup {x} /\ Made(t, x).f = t.f
  BY <1>2 DEF Made, Trees
<1> QED
  BY <1>3, <1>4, TreesKeep

\* The steps that carry an operation out.
Carries(w, x) == \/ x \in Dirs /\ MakeFolder(w, x)
                 \/ x \in Files /\ (Upload(w, x) \/ Download(w, x) \/ DeleteFile(w, x))
                 \/ x = job[w].doomed /\ RemoveFolder(w)

\* The child is one the thread was to see to, and is seen to now.
LEMMA CarriesOutPart ==
    ASSUME Typed, JobsShaped, NEW w \in Workers, NEW x, Carries(w, x)
    PROVE  /\ x \in Items /\ x \in job[w].todo /\ x \in Visible(job[w], skips[RunOf[w]])
           /\ x \in Children(job[w].folder) /\ job[w].folder \in Folders
           /\ job[w].at \in {"apply", "remove"} /\ job'[w].at = "apply"
           /\ job'[w].folder = job[w].folder /\ job'[w].plan = job[w].plan
           /\ job'[w].kids = job[w].kids /\ job'[w].todo = job[w].todo \ {x}
           /\ job'[w].gone = IF job[w].plan[x].op \in Deletes THEN job[w].gone \cup {x}
                             ELSE job[w].gone
           /\ UNCHANGED <<store, runs>>
<1>1. CASE RemoveFolder(w) /\ x = job[w].doomed
  <2>1. UNCHANGED <<store, runs>>
    BY <1>1 DEF RemoveFolder
  <2> QED
    BY <1>1, <2>1, RemoveFolderStep, DoomedIsVisible, PlannedIsChild
<1>2. ASSUME NEW op \in Deletes \cup Makes, x \in Items, Takes(w, x, op), Succeeds(w, x),
             UNCHANGED <<store, runs>>
      PROVE  /\ x \in Items /\ x \in job[w].todo /\ x \in Visible(job[w], skips[RunOf[w]])
             /\ x \in Children(job[w].folder) /\ job[w].folder \in Folders
             /\ job[w].at \in {"apply", "remove"} /\ job'[w].at = "apply"
             /\ job'[w].folder = job[w].folder /\ job'[w].plan = job[w].plan
             /\ job'[w].kids = job[w].kids /\ job'[w].todo = job[w].todo \ {x}
             /\ job'[w].gone = IF job[w].plan[x].op \in Deletes THEN job[w].gone \cup {x}
                               ELSE job[w].gone
             /\ UNCHANGED <<store, runs>>
  BY <1>2, TakenIsVisible, SucceedsStep DEF Visible
<1>3. x \in Dirs /\ MakeFolder(w, x) =>
          x \in Items /\ (\E op \in Makes : Takes(w, x, op)) /\ Succeeds(w, x)
            /\ UNCHANGED <<store, runs>>
  BY TreeConstants DEF MakeFolder, Makes, quiet
<1>4. x \in Files /\ (Upload(w, x) \/ Download(w, x)) =>
          x \in Items /\ (\E op \in Makes : Takes(w, x, op)) /\ Succeeds(w, x)
            /\ UNCHANGED <<store, runs>>
  BY TreeConstants DEF Upload, Download, Makes, quiet
<1>5. x \in Files /\ DeleteFile(w, x) =>
          x \in Items /\ (\E op \in Deletes : Takes(w, x, op)) /\ Succeeds(w, x)
            /\ UNCHANGED <<store, runs>>
  BY TreeConstants DEF DeleteFile
<1> QED
  BY <1>1, <1>2, <1>3, <1>4, <1>5 DEF Carries

\* Once an operation that suits its child is carried out, both sides hold it alike, and
\* whatever is not in it is as it was.
LEMMA CarriesOutOwn ==
    ASSUME Typed, JobsShaped, TreesWF, NEW w \in Workers, NEW x, Carries(w, x),
           There(tree["here"], job[w].folder), There(tree["there"], job[w].folder),
           Suits(job[w].plan[x].op, x)
    PROVE  /\ \A y \in Items \ Subtree(x) : Same(y)
           /\ Agree(x)'
           /\ job[w].plan[x].op \in Deletes => Lacks("here", x)' /\ Lacks("there", x)'
<1> DEFINE q == job[w].folder
           h == tree["here"]
           t == tree["there"]
<1>1. x \in Items /\ x \in Children(q) /\ q \in Folders
  BY CarriesOutPart
<1>2. /\ h \in Trees /\ WellFormed(h) /\ There(h, q) /\ "here" \in Sides
      /\ t \in Trees /\ WellFormed(t) /\ There(t, q) /\ "there" \in Sides
      /\ \A s \in Sides : s = "here" \/ s = "there"
  BY SidesTyped DEF TreesWF, Sides
<1>3. x \in Subtree(x) /\ Files \cap Dirs = {} /\ Deletes = {"deleteLocal", "deleteRemote"}
  BY TreeConstants DEF Subtree, Deletes
<1>4. /\ x \in Files => \A v :
             /\ Put(h, x, v).d = h.d /\ Put(t, x, v).d = t.d
             /\ \A y \in Files : /\ Put(h, x, v).f[y] = IF y = x THEN v ELSE h.f[y]
                                 /\ Put(t, x, v).f[y] = IF y = x THEN v ELSE t.f[y]
      /\ x \in Dirs => /\ Made(h, x).d = h.d \cup {x} /\ Made(h, x).f = h.f
                       /\ Made(t, x).d = t.d \cup {x} /\ Made(t, x).f = t.f
  <2> HIDE DEF h, t, q
  <2> QED
    BY <1>1, <1>2, PutsTouchNoOther
<1>5. CASE x \in Dirs /\ MakeFolder(w, x)
  <2>1. CASE Takes(w, x, "mkdirLocal") /\ Grow("here", Made(h, x))
    <3>1. tree'["here"] = Made(h, x) /\ tree'["there"] = t
      BY <1>2, <2>1, GrowKeeps
    <3>2. x \in t.d /\ job[w].plan[x].op = "mkdirLocal"
      BY <2>1 DEF Takes, OpOf, Suits
    <3>3. Agree(x)'
      BY <1>3, <1>4, <1>5, <3>1, <3>2 DEF Agree
    <3>4. \A y \in Items \ Subtree(x) : Same(y)
      BY <1>2, <1>3, <1>4, <1>5, <3>1 DEF Same
    <3> QED
      BY <1>3, <3>2, <3>3, <3>4
  <2>2. CASE Takes(w, x, "mkdirRemote") /\ Grow("there", Made(t, x))
    <3>1. tree'["there"] = Made(t, x) /\ tree'["here"] = h
      BY <1>2, <2>2, GrowKeeps
    <3>2. x \in h.d /\ job[w].plan[x].op = "mkdirRemote"
      BY <2>2 DEF Takes, OpOf, Suits
    <3>3. Agree(x)'
      BY <1>3, <1>4, <1>5, <3>1, <3>2 DEF Agree
    <3>4. \A y \in Items \ Subtree(x) : Same(y)
      BY <1>2, <1>3, <1>4, <1>5, <3>1 DEF Same
    <3> QED
      BY <1>3, <3>2, <3>3, <3>4
  <2> QED
    BY <1>5, <2>1, <2>2 DEF MakeFolder
<1>6. CASE x \in Files /\ Upload(w, x)
  <2>1. tree'["there"] = Put(t, x, h.f[x]) /\ tree'["here"] = h
    BY <1>2, <1>6, GrowKeeps DEF Upload
  <2>2. job[w].plan[x].op = "upload"
    BY <1>6 DEF Upload, Takes, OpOf
  <2>3. Agree(x)'
    BY <1>3, <1>4, <1>6, <2>1 DEF Agree
  <2>4. \A y \in Items \ Subtree(x) : Same(y)
    BY <1>2, <1>3, <1>4, <1>6, <2>1 DEF Same
  <2> QED
    BY <1>3, <2>2, <2>3, <2>4
<1>7. CASE x \in Files /\ Download(w, x)
  <2>1. tree'["here"] = Put(h, x, t.f[x]) /\ tree'["there"] = t
    BY <1>2, <1>7, GrowKeeps DEF Download
  <2>2. job[w].plan[x].op = "download"
    BY <1>7 DEF Download, Takes, OpOf
  <2>3. Agree(x)'
    BY <1>3, <1>4, <1>7, <2>1 DEF Agree
  <2>4. \A y \in Items \ Subtree(x) : Same(y)
    BY <1>2, <1>3, <1>4, <1>7, <2>1 DEF Same
  <2> QED
    BY <1>3, <2>2, <2>3, <2>4
<1>8. ASSUME job[w].plan[x].op \in Deletes, Remove(w, Side(job[w].plan[x].op), x)
      PROVE  /\ \A y \in Items \ Subtree(x) : Same(y)
             /\ Lacks("here", x)' /\ Lacks("there", x)'
  <2> DEFINE s == Side(job[w].plan[x].op)
  <2>1. s \in Sides /\ Remove(w, s, x)
    BY <1>8 DEF Side, Sides
  <2>2. /\ \A y \in Files : tree'[s].f[y] = IF y \in Subtree(x) THEN 0 ELSE tree[s].f[y]
        /\ tree'[s].d = tree[s].d \ Subtree(x)
        /\ \A z \in Sides : z # s => tree'[z] = tree[z]
    <3> HIDE DEF s
    <3> QED
      BY <2>1, RemoveEffect
  <2>3. \A z \in Sides : z # s => Lacks(z, x)
    BY <1>2, <1>3, <1>8 DEF Suits, Side
  <2> HIDE DEF s
  <2>4. \A y \in Items \ Subtree(x) : Same(y)
    BY <2>1, <2>2 DEF Same
  <2>5. \A z \in Sides : Lacks(z, x)'
    BY <1>3, <2>2, <2>3 DEF Lacks
  <2> QED
    BY <1>2, <2>4, <2>5
<1>9. CASE (x \in Files /\ DeleteFile(w, x)) \/ (x = job[w].doomed /\ RemoveFolder(w))
  <2>1. job[w].plan[x].op \in Deletes /\ Remove(w, Side(job[w].plan[x].op), x)
    <3>1. CASE x \in Files /\ DeleteFile(w, x)
      BY <3>1, DeleteFileStep
    <3>2. CASE x = job[w].doomed /\ RemoveFolder(w)
      BY <3>2, RemoveFolderStep, DoomedIsVisible DEF RemoveFolder, OpOf
    <3> QED
      BY <1>9, <3>1, <3>2
  <2>2. Lacks("here", x)' /\ Lacks("there", x)' /\ \A y \in Items \ Subtree(x) : Same(y)
    BY <1>8, <2>1
  <2>3. Agree(x)'
    BY <2>2 DEF Lacks, Agree
  <2> QED
    BY <2>2, <2>3
<1> HIDE DEF q, h, t
<1> QED
  BY <1>5, <1>6, <1>7, <1>9 DEF Carries
-----------------------------------------------------------------------------
(* How the walk gets ahead.                                                  *)

\* From anything there is a way up to the root.
LEMMA EveryPathEnds ==
    ASSUME NEW x \in Items
    PROVE  \E y \in {x} \cup Above[x] : Parent[y] = Root
<1> DEFINE T == {Above[y] : y \in {x} \cup Above[x]}
<1>1. IsFiniteSet(Dirs) /\ \A y \in {x} \cup Above[x] : y \in Items /\ Above[y] \in SUBSET Dirs
  BY AboveIsLeast, AboveIsTransitive, TreeConstants
<1>2. T \subseteq FiniteSubsetsOf(Dirs) /\ T # {}
  BY <1>1, FS_Subset DEF FiniteSubsetsOf
<1>3. \E S \in T : \A U \in T : <<U, S>> \notin StrictSubsetOrdering(Dirs)
  <2> HIDE DEF T
  <2> QED
    BY <1>2, FS_StrictSubsetOrderingWellFounded, WFMin
<1>4. PICK y \in {x} \cup Above[x] : \A U \in T : <<U, Above[y]>> \notin StrictSubsetOrdering(Dirs)
  BY <1>3
<1>5. y \in Items /\ Above[y] \in SUBSET Dirs /\ Above[y] \subseteq Above[x]
  BY <1>1, AboveIsTransitive
<1>6. ASSUME Parent[y] # Root PROVE FALSE
  <2> DEFINE P == Parent[y]
  <2>1. P \in Dirs /\ P \in Items /\ Above[y] = {P} \cup Above[P]
    BY <1>5, <1>6, AboveStep, TreeConstants
  <2>2. P \notin Above[P]
    BY <2>1, TreeConstants
  <2>3. Above[P] \in T
    BY <1>5, <2>1
  <2>4. Above[P] \subseteq Above[y] /\ Above[P] # Above[y]
    BY <2>1, <2>2
  <2> HIDE DEF T
  <2> QED
    BY <1>4, <1>5, <2>3, <2>4 DEF StrictSubsetOrdering
<1> QED
  BY <1>6

\* What is in a folder is a child of it, or in one.
LEMMA BeneathIsInAChild ==
    ASSUME NEW q \in Folders, NEW x \in Beneath(q)
    PROVE  \E c \in Children(q) : x \in Subtree(c)
<1>1. x \in Items /\ (q = Root \/ q \in Above[x]) /\ Above[x] \subseteq Dirs
  BY AboveIsLeast DEF Beneath
<1>2. \E y \in {x} \cup Above[x] : Parent[y] = q
  <2>1. CASE q = Root
    BY <1>1, <2>1, EveryPathEnds
  <2>2. ASSUME q # Root, \A y \in {x} \cup Above[x] : Parent[y] # q PROVE FALSE
    <3>1. Climbs(Above[x], x)
      BY <1>1, AboveIsLeast
    <3>2. Climbs(Above[x] \ {q}, x)
      BY <2>2, <3>1 DEF Climbs
    <3>3. Above[x] \ {q} \in SUBSET Dirs
      BY <1>1
    <3>4. Above[x] \subseteq Above[x] \ {q}
      BY <1>1, <3>2, <3>3, AboveIsLeast
    <3> QED
      BY <1>1, <2>2, <3>4
  <2> QED
    BY <2>1, <2>2
<1>3. PICK y \in {x} \cup Above[x] : Parent[y] = q
  BY <1>2
<1>4. y \in Items /\ y \in Children(q)
  BY <1>1, <1>3, TreeConstants DEF Children
<1>5. x \in Subtree(y)
  BY <1>1, <1>3, TreeConstants DEF Subtree, Under
<1> QED
  BY <1>4, <1>5

\* What a thread carries out in order suits its child, in a folder that is on both sides.
LEMMA CarriesInOrder ==
    ASSUME Typed, JobsShaped, NEW w \in Crew("walk"), InOrder(w), NEW x, Carries(w, x)
    PROVE  /\ There(tree["here"], job[w].folder) /\ There(tree["there"], job[w].folder)
           /\ Suits(job[w].plan[x].op, x)
<1>1. /\ w \in Workers /\ RunOf[w] = "walk"
      /\ x \in job[w].todo /\ x \in Visible(job[w], skips["walk"])
      /\ job[w].at \in {"apply", "remove"}
  BY CarriesOutPart DEF Crew
<1>2. InPlace(w) /\ ChildInOrder(w, x)
  BY <1>1 DEF InOrder
<1> QED
  BY <1>1, <1>2 DEF InPlace, ChildInOrder, Listed

\* The steps that carry nothing out leave the trees as they are.
LEMMA SteadyKinds ==
    ASSUME NEW w, Steady(w)
    PROVE  (\E x : Carries(w, x)) \/ UNCHANGED tree
<1>1. TakeFolder(w) \/ ReadLocal(w) \/ ListRemote(w) \/ InReserve(w) \/ Granted(w) \/ Commit(w)
        \/ Purge(w) \/ (\E d \in Dirs : CheckFolder(w, d)) => UNCHANGED tree
  BY DEF TakeFolder, ReadLocal, ListRemote, PlanFolder, InReserve, Granted, Commit, Purge,
         CheckFolder, world
<1> QED
  BY <1>1 DEF Steady, Carries

\* Whatever is not in a thread's folder is as it was.
LEMMA SteadyIsConfined ==
    ASSUME Typed, JobsShaped, TreesWF, NEW w \in Crew("walk"), InOrder(w), Steady(w)
    PROVE  \A y \in Items \ Reaches(w) : Same(y)
<1>1. CASE UNCHANGED tree
  BY <1>1 DEF Same
<1>2. ASSUME NEW x, Carries(w, x) PROVE \A y \in Items \ Reaches(w) : Same(y)
  <2>1. \A y \in Items \ Subtree(x) : Same(y)
    BY <1>2, CarriesInOrder, CarriesOutOwn DEF Crew
  <2>2. Busy(w) /\ Subtree(x) \cap Items \subseteq Beneath(job[w].folder)
    <3>1. w \in Workers
      BY DEF Crew
    <3>2. /\ job[w].at \in {"apply", "remove"}
          /\ job[w].folder \in Folders /\ x \in Children(job[w].folder)
      BY <1>2, <3>1, CarriesOutPart
    <3> QED
      BY <3>2, ChildIsBeneath DEF Busy
  <2> QED
    BY <2>1, <2>2 DEF Reaches
<1> QED
  BY <1>1, <1>2, SteadyKinds

\* Most steps of a thread leave the walk where it is.
LEMMA SteadyStays ==
    ASSUME Typed, JobsShaped, NEW w \in Crew("walk"), Steady(w), ~TakeFolder(w), ~Purge(w)
    PROVE  Ahead' = Ahead /\ Busy(w) /\ Busy(w)'
<1>1. w \in Workers /\ Thread(w)
  BY SteadyIsThread DEF Crew
<1>2. UNCHANGED <<queue, next>> /\ Busy(w) /\ job'[w].folder = job[w].folder
  BY <1>1, ThreadStaysInFolder
<1>3. job'[w].at # "free"
  <2>1. CASE ReadLocal(w)
    BY <1>1, <2>1, ReadStep
  <2>2. CASE ListRemote(w)
    BY <1>1, <2>2, ListsPlan, PlanStep
  <2>3. CASE InReserve(w)
    BY <2>3 DEF InReserve, At
  <2>4. CASE Granted(w)
    BY <1>1, <2>4, GrantedStep
  <2>5. CASE Commit(w)
    BY <1>1, <2>5, CommitStep
  <2>6. CASE \E d \in Dirs : CheckFolder(w, d)
    BY <1>1, <2>6, CheckStep
  <2>7. CASE \E x : Carries(w, x)
    BY <1>1, <2>7, CarriesOutPart
  <2> QED
    BY <2>1, <2>2, <2>3, <2>4, <2>5, <2>6, <2>7 DEF Steady, Carries
<1>4. \A b \in Workers : b # w => job'[b] = job[b]
  BY <1>1, ThreadsAreLocal DEF ThreadLocal
<1>5. \A b \in Workers : Busy(b)' = Busy(b) /\ (Busy(b) => job'[b].folder = job[b].folder)
  BY <1>2, <1>3, <1>4 DEF Busy
<1>6. Crew("walk")' = Crew("walk") /\ Crew("walk") \subseteq Workers
  BY DEF Crew
<1>7. {job[v].folder : v \in {b \in Crew("walk") : Busy(b)}}'
        = {job[v].folder : v \in {b \in Crew("walk") : Busy(b)}}
  BY <1>5, <1>6
<1> QED
  BY <1>2, <1>3, <1>7 DEF Ahead, Busy
\* Where the walk has still to go other than through this thread.
Elsewhere(w) == queue["walk"] \cup next["walk"]
                    \cup {job[b].folder : b \in {v \in Crew("walk") \ {w} : Busy(v)}}

\* What is ahead is where the others have still to go, and the folder the thread is in.
LEMMA AheadIsElsewhere ==
    ASSUME NEW w \in Crew("walk")
    PROVE  /\ Ahead = Elsewhere(w) \cup (IF Busy(w) THEN {job[w].folder} ELSE {})
           /\ Ahead' = Elsewhere(w)' \cup (IF Busy(w)' THEN {job'[w].folder} ELSE {})
<1>1. Crew("walk")' = Crew("walk")
  BY DEF Crew
<1>2. w \in Crew("walk")'
  BY <1>1
<1>3. Ahead = Elsewhere(w) \cup (IF Busy(w) THEN {job[w].folder} ELSE {})
  BY DEF Ahead, Elsewhere
<1>4. Ahead' = Elsewhere(w)' \cup (IF Busy(w)' THEN {job'[w].folder} ELSE {})
  BY <1>2 DEF Ahead, Elsewhere
<1> QED
  BY <1>3, <1>4

LEMMA AheadIsFolders ==
    ASSUME Typed
    PROVE  Ahead \subseteq Folders /\ \A w : Elsewhere(w) \subseteq Ahead
<1>1. /\ queue["walk"] \in SUBSET Folders /\ next["walk"] \in SUBSET Dirs
      /\ \A w \in Workers : job[w].folder \in Folders
  BY TaskOf, Bounds DEF Typed, RunsTyped, Tasks
<1>2. \A w \in Crew("walk") : w \in Workers
  BY DEF Crew
<1> QED
  BY <1>1, <1>2 DEF Ahead, Elsewhere, Folders

\* A thread's step leaves alone all that is in the folders of the others, or still to do, and
\* those folders themselves.
LEMMA ElsewhereIsLeftAlone ==
    ASSUME Typed, JobsShaped, Apart, TreesWF, Nested, NEW w \in Crew("walk"), InOrder(w), Steady(w),
           NEW q \in Elsewhere(w)
    PROVE  /\ \A x \in Beneath(q) : x \in Items /\ x \notin Reaches(w) /\ Same(x)
           /\ \A h \in Files \cap Beneath(q) : rows'.f[h] = rows.f[h]
           /\ q \in Dirs => Same(q)
<1>1. w \in Workers /\ ThreadLocal(w) /\ Crew("walk") \subseteq Workers
  BY SteadyIsThread, ThreadsAreLocal DEF Crew
<1>2. q \in Ahead /\ (Busy(w) => job[w].folder \in Ahead)
  BY AheadIsElsewhere
<1>3. q \notin Reaches(w)
  BY <1>2 DEF Nested, Reaches
<1>4. Busy(w) => Disjoint(job[w].folder, q)
  <2>1. ApartIn("walk")
    BY Bounds DEF Apart
  <2>2. CASE q \in queue["walk"] \cup next["walk"]
    BY <2>1, <2>2 DEF ApartIn
  <2>3. ASSUME NEW b \in Crew("walk"), b # w, Busy(b), q = job[b].folder
        PROVE  Busy(w) => Disjoint(job[w].folder, q)
    BY <2>1, <2>3 DEF ApartIn
  <2> QED
    BY <2>2, <2>3 DEF Elsewhere
<1>5. \A x \in Beneath(q) : x \in Items /\ x \notin Reaches(w)
  BY <1>4 DEF Disjoint, Reaches, Beneath
<1>6. \A x \in Items \ Reaches(w) : Same(x)
  BY SteadyIsConfined
<1>7. \A h \in Files \cap Beneath(q) : rows'.f[h] = rows.f[h]
  BY <1>1, <1>5 DEF ThreadLocal
<1>8. q \in Dirs => Same(q)
  BY <1>3, <1>6, TreeConstants
<1> QED
  BY <1>3, <1>5, <1>6, <1>7, <1>8

\* A folder that is taken up, and left out, has nothing in it the walk is to go through.
LEMMA TakesFromAhead ==
    ASSUME Typed, JobsShaped, NEW w \in Crew("walk"), TakeFolder(w)
    PROVE  /\ Ahead' \subseteq Ahead /\ Elsewhere(w)' \subseteq Elsewhere(w)
           /\ \A q \in Ahead : q \in Ahead' \/ Excluded(q, skips["walk"])
<1>1. w \in Workers /\ RunOf[w] = "walk" /\ "walk" \in Runs
  BY Bounds DEF Crew
<1>2. PICK q \in queue["walk"] :
         /\ queue' = [queue EXCEPT !["walk"] = @ \ {q}]
         /\ IF Excluded(q, skips["walk"]) THEN UNCHANGED job
            ELSE Becomes(w, [job[w] EXCEPT !.at = "local", !.folder = q])
  BY <1>1 DEF TakeFolder
<1>3. next' = next /\ ~Busy(w) /\ job[w] \in Tasks
  BY <1>1, TakeFolderStep, TaskOf
<1>4. queue'["walk"] = queue["walk"] \ {q}
  BY <1>1, <1>2 DEF Typed, RunsTyped
<1>5. \A b \in Workers : b # w => job'[b] = job[b]
  BY <1>1, <1>2, BecomesKeeps
<1>6. Crew("walk")' = Crew("walk") /\ Crew("walk") \subseteq Workers
  BY DEF Crew
<1>7. {job[b].folder : b \in {v \in Crew("walk") \ {w} : Busy(v)}}'
        = {job[b].folder : b \in {v \in Crew("walk") \ {w} : Busy(v)}}
  BY <1>5, <1>6 DEF Busy
<1>8. Elsewhere(w)' \subseteq Elsewhere(w) /\ Elsewhere(w) \subseteq Elsewhere(w)' \cup {q}
  BY <1>3, <1>4, <1>7 DEF Elsewhere
<1>9. q \in Elsewhere(w) /\ Ahead = Elsewhere(w)
  BY <1>3, AheadIsElsewhere DEF Elsewhere
<1>10. CASE Excluded(q, skips["walk"])
  <2>1. ~Busy(w)'
    BY <1>2, <1>3, <1>10 DEF Busy
  <2> QED
    BY <1>8, <1>9, <1>10, <2>1, AheadIsElsewhere
<1>11. CASE ~Excluded(q, skips["walk"])
  <2>1. job'[w] = [job[w] EXCEPT !.at = "local", !.folder = q]
    BY <1>1, <1>2, <1>11, BecomesKeeps
  <2>2. Busy(w)' /\ job'[w].folder = q
    BY <1>3, <2>1 DEF Busy, Tasks
  <2> QED
    BY <1>8, <1>9, <2>2, AheadIsElsewhere
<1> QED
  BY <1>10, <1>11

\* A folder that is done gives way to those in it.
LEMMA PurgesAhead ==
    ASSUME Typed, JobsShaped, NEW w \in Crew("walk"), Purge(w)
    PROVE  /\ Ahead' = Elsewhere(w) \cup Kids(w) /\ Ahead = Elsewhere(w) \cup {job[w].folder}
           /\ queue' = queue /\ next'["walk"] = next["walk"] \cup Kids(w)
<1>1. w \in Workers /\ RunOf[w] = "walk" /\ "walk" \in Runs
  BY Bounds DEF Crew
<1>2. Busy(w) /\ ~Busy(w)' /\ queue' = queue
  BY <1>1, PurgeStep
<1>3. next'["walk"] = next["walk"] \cup Kids(w)
  BY <1>1 DEF Purge, Typed, RunsTyped
<1>4. \A b \in Workers : b # w => job'[b] = job[b]
  <2>1. Becomes(w, Free)
    BY DEF Purge
  <2> QED
    BY <1>1, <2>1, BecomesKeeps
<1>5. Crew("walk")' = Crew("walk") /\ Crew("walk") \subseteq Workers
  BY DEF Crew
<1>6. {job[b].folder : b \in {v \in Crew("walk") \ {w} : Busy(v)}}'
        = {job[b].folder : b \in {v \in Crew("walk") \ {w} : Busy(v)}}
  BY <1>4, <1>5 DEF Busy
<1>7. Elsewhere(w)' = Elsewhere(w) \cup Kids(w)
  BY <1>2, <1>3, <1>6 DEF Elsewhere
<1> QED
  BY <1>2, <1>3, <1>7, AheadIsElsewhere

\* No folder the walk has still to do is in another.
LEMMA SteadyNested ==
    ASSUME Typed, JobsShaped, Apart, TreesWF, Nested, NEW w \in Crew("walk"), InOrder(w), Steady(w)
    PROVE  Nested'
<1>1. ASSUME Ahead' \subseteq Ahead PROVE Nested'
  BY <1>1 DEF Nested, Beneath
<1>2. CASE Purge(w)
  <2> DEFINE F == job[w].folder
  <2>1. w \in Workers
    BY DEF Crew
  <2>2. /\ Ahead' = Elsewhere(w) \cup Kids(w)
        /\ Elsewhere(w) \subseteq Ahead /\ F \in Ahead
    BY <1>2, PurgesAhead
  <2>3. \A k \in Kids(w) : k \in Children(F) /\ Beneath(k) \subseteq Beneath(F)
    BY <2>1, KidsAreApart DEF Kids
  <2>4. \A k, z \in Kids(w) : k \notin Beneath(z)
    BY <2>1, <2>3, KidsAreApart DEF Kids
  <2>5. F \in Folders
    BY <2>2, AheadIsFolders
  <2>6. \A k \in Kids(w) : k \in Beneath(F)
    BY <2>3, <2>5, ChildIsBeneath
  <2>7. \A k \in Kids(w), q \in Elsewhere(w) : q \notin Beneath(k)
    BY <2>2, <2>3 DEF Nested
  <2>8. \A k \in Kids(w), q \in Elsewhere(w) : k \notin Beneath(q)
    <3>1. Busy(w)
      BY <1>2, <2>1, PurgeStep
    <3>2. Reaches(w) = Beneath(F)
      BY <3>1 DEF Reaches
    <3> QED
      BY <2>6, <3>2, ElsewhereIsLeftAlone
  <2>9. \A p, q \in Ahead' : p \notin Beneath(q)
    BY <2>2, <2>4, <2>7, <2>8 DEF Nested
  <2> QED
    BY <2>9 DEF Nested, Beneath
<1>3. CASE TakeFolder(w)
  BY <1>1, <1>3, TakesFromAhead
<1>4. CASE ~TakeFolder(w) /\ ~Purge(w)
  BY <1>1, <1>4, SteadyStays
<1> QED
  BY <1>2, <1>3, <1>4

\* The rows that are dropped when a folder is done are those below the folders removed in it.
LEMMA PurgedRows ==
    ASSUME Typed, JobsShaped, NEW w \in Workers, Purge(w)
    PROVE  /\ \A h \in Files : h \in Children(job[w].folder) => rows'.f[h] = rows.f[h]
           /\ \A k \in Kids(w) : \A h \in Files \cap Beneath(k) : rows'.f[h] = rows.f[h]
           /\ UNCHANGED <<tree, snap, skips, backoff>>
<1> DEFINE F == job[w].folder
           r == RunOf[w]
           below == UNION {Under(d) : d \in job[w].gone \cap Dirs}
           known == Filed(snap[r]) \cup snap[r].d
<1>1. rows' = Cut(rows, below \cap known) /\ UNCHANGED <<tree, snap, skips, backoff>>
  BY DEF Purge, world
<1>2. \A h \in Files : h \notin below => rows'.f[h] = rows.f[h]
  <2> HIDE DEF below, known
  <2> QED
    BY <1>1 DEF Cut
<1>3. F \in Folders /\ job[w].gone \subseteq Items
  BY TaskOf DEF Tasks
<1>4. \A d \in job[w].gone : d \in Children(F)
  BY <1>3, PlannedIsChild DEF JobsShaped, JobShape
<1>5. \A h \in Files : h \in Children(F) => h \notin below
  BY <1>3, <1>4, SiblingsAreApart
<1>6. \A k \in Kids(w) : \A h \in Files \cap Beneath(k) : h \notin below
  <2> SUFFICES ASSUME NEW k \in Kids(w), NEW h \in Files \cap Beneath(k),
                      NEW d \in job[w].gone \cap Dirs, h \in Under(d)
               PROVE  FALSE
    OBVIOUS
  <2>1. k \in Children(F) /\ k # d /\ d \in Children(F)
    BY <1>4, KidsAreApart DEF Kids
  <2>2. Disjoint(k, d)
    BY <1>3, <2>1, SiblingsAreApart
  <2>3. h \in Beneath(d)
    BY DEF Under, Beneath
  <2> QED
    BY <2>2, <2>3 DEF Disjoint
<1> HIDE DEF below, known
<1> QED
  BY <1>1, <1>2, <1>5, <1>6

\* What has been reached stays so: what is not in the thread's folder is not touched, and what
\* is in it is still to be gone through.
LEMMA ReachedStays ==
    ASSUME Typed, JobsShaped, TreesWF, NEW w \in Crew("walk"), InOrder(w), Steady(w), ~Purge(w),
           NEW x \in Items, Reached(x)
    PROVE  Reached(x)'
<1>1. w \in Workers /\ ThreadLocal(w) /\ RunOf[w] = "walk"
  BY SteadyIsThread, ThreadsAreLocal DEF Crew
<1>2. skips' = skips
  BY <1>1 DEF ThreadLocal
<1>3. (\E q \in Ahead : x \in Beneath(q)) =>
          (\E q \in Ahead' : x \in Beneath(q)) \/ Excluded(x, skips["walk"])
  <2>1. CASE TakeFolder(w)
    <3> SUFFICES ASSUME NEW q \in Ahead, x \in Beneath(q), Excluded(q, skips["walk"])
                 PROVE  Excluded(x, skips["walk"])
      BY <2>1, TakesFromAhead
    <3>1. skips["walk"] \in SUBSET Dirs
      BY <1>1, TaskOf
    <3>2. q # Root
      BY <3>1, TreeConstants DEF Excluded
    <3>3. q \in Above[x]
      BY <3>2 DEF Beneath
    <3> QED
      BY <3>3, ExcludedBelow
  <2>2. CASE ~TakeFolder(w)
    BY <2>2, SteadyStays
  <2> QED
    BY <2>1, <2>2
<1>4. CASE x \in Reaches(w)
  <2>1. Busy(w) /\ x \in Beneath(job[w].folder) /\ job[w].folder \in Ahead
    BY <1>4, AheadIsElsewhere DEF Reaches
  <2> QED
    BY <1>2, <1>3, <2>1 DEF Reached, Beneath
<1>5. CASE x \notin Reaches(w)
  <2>1. Same(x)
    BY <1>5, SteadyIsConfined
  <2>2. x \in Files => rows'.f[x] = rows.f[x]
    BY <1>1, <1>5 DEF ThreadLocal
  <2>3. Agree(x) => Agree(x)'
    BY <2>1 DEF Agree, Same, Sides
  <2>4. x \in Files /\ Contested(x) => Contested(x)'
    BY <2>1, <2>2 DEF Contested, Same, Sides
  <2> QED
    BY <1>2, <1>3, <2>3, <2>4 DEF Reached, Beneath
<1> QED
  BY <1>4, <1>5

\* ... and what was in a folder that is done both sides hold alike, or it is in a folder that
\* is still to be gone through.
LEMMA PurgedIsReached ==
    ASSUME Typed, JobsShaped, TreesWF, NEW w \in Crew("walk"), InOrder(w), Steady(w), Purge(w),
           NEW x \in Items, Reached(x)
    PROVE  Reached(x)'
<1> DEFINE F == job[w].folder
<1>1. w \in Workers /\ ThreadLocal(w) /\ RunOf[w] = "walk" /\ Busy(w) /\ job[w].at = "purge"
  BY SteadyIsThread, ThreadsAreLocal, PurgeStep DEF Crew
<1>2. UNCHANGED <<tree, skips>>
  BY <1>1, PurgedRows
<1>3. /\ Ahead' = Elsewhere(w) \cup Kids(w) /\ Ahead = Elsewhere(w) \cup {F}
  BY PurgesAhead
<1>4. F \in Folders
  BY <1>1, TaskOf DEF Tasks
<1>5. CASE x \notin Beneath(F)
  <2>1. x \in Files => rows'.f[x] = rows.f[x]
    BY <1>1, <1>5 DEF ThreadLocal, Reaches
  <2>2. (\E q \in Ahead : x \in Beneath(q)) => \E q \in Ahead' : x \in Beneath(q)
    BY <1>3, <1>5
  <2>3. (Agree(x) => Agree(x)') /\ (x \in Files /\ Contested(x) => Contested(x)')
    BY <1>2, <2>1 DEF Agree, Contested
  <2> QED
    BY <1>2, <2>2, <2>3 DEF Reached, Beneath
<1>6. CASE x \in Beneath(F)
  <2>1. PICK c \in Children(F) : x \in Subtree(c)
    BY <1>4, <1>6, BeneathIsInAChild
  <2>2. c \in Items /\ (x = c \/ (c \in Dirs /\ c \in Above[x]))
    BY <2>1 DEF Subtree, Under, Children
  <2>3. CASE Excluded(c, skips["walk"])
    <3>1. Excluded(x, skips["walk"])
      BY <2>2, <2>3, ExcludedBelow
    <3> QED
      BY <1>2, <3>1 DEF Reached
  <2>4. CASE ~Excluded(c, skips["walk"])
    <3>1. ChildInOrder(w, c)
      BY <2>1, <2>4 DEF InOrder, Visible
    <3>2. CASE x = c
      <4>1. Agree(c) \/ (c \in Files /\ Contested(c))
        BY <1>1, <3>1 DEF ChildInOrder
      <4>2. c \in Files => rows'.f[c] = rows.f[c]
        BY <1>1, <2>1, PurgedRows
      <4> QED
        BY <1>2, <3>2, <4>1, <4>2 DEF Reached, Agree, Contested
    <3>3. CASE c \in Dirs /\ c \in Above[x] /\ c \in Kids(w)
      <4>1. x \in Beneath(c) /\ c \in Ahead'
        BY <1>3, <3>3 DEF Beneath
      <4> QED
        BY <4>1 DEF Reached, Beneath
    <3>4. CASE c \in Dirs /\ c \in Above[x] /\ c \notin Kids(w)
      <4>1. Lacks("here", c) /\ Lacks("there", c)
        BY <1>1, <3>1, <3>4 DEF ChildInOrder, Listed
      <4>2. c \notin tree["here"].d /\ c \notin tree["there"].d
        BY <3>4, <4>1 DEF Lacks
      <4>3. \A s \in Sides : (x \in Files => tree[s].f[x] = 0) /\ x \notin tree[s].d
        BY <3>4, <4>2 DEF TreesWF, WellFormed, Filed, Sides
      <4>4. Agree(x)
        BY <4>3 DEF Agree, Sides
      <4> QED
        BY <1>2, <4>4 DEF Reached, Agree
    <3> QED
      BY <2>2, <3>2, <3>3, <3>4
  <2> QED
    BY <2>3, <2>4
<1> QED
  BY <1>5, <1>6

\* Only the two transactions write rows.
LEMMA SteadyRows ==
    ASSUME Typed, JobsShaped, NEW w \in Workers, Steady(w), ~TakeFolder(w), ~Purge(w)
    PROVE  /\ job[w].at # "purge"
           /\ ~Commit(w) => rows' = rows
<1>1. CASE ReadLocal(w) \/ ListRemote(w) \/ InReserve(w) \/ Granted(w)
  BY <1>1 DEF ReadLocal, ListRemote, PlanFolder, InReserve, Granted, At, store
<1>2. CASE Commit(w)
  BY <1>2, CommitStep
<1>3. ASSUME NEW d \in Dirs, CheckFolder(w, d)
      PROVE  job[w].at # "purge" /\ rows' = rows
  BY <1>3, CheckStep DEF store
<1>4. ASSUME NEW x, Carries(w, x) PROVE job[w].at # "purge" /\ rows' = rows
  BY <1>4, CarriesOutPart DEF store
<1> QED
  BY <1>1, <1>2, <1>3, <1>4 DEF Steady, Carries

\* Where the walk has still to go, no row has been written since it began.
LEMMA SteadyStands ==
    ASSUME Typed, JobsShaped, Apart, TreesWF, OnCourse, NEW w \in Crew("walk"), Steady(w)
    PROVE  /\ \A q \in queue'["walk"] \cup next'["walk"] : Stands(Beneath(q))'
           /\ \A b \in Crew("walk") : StandsFor(b)'
<1>1. /\ w \in Workers /\ ThreadLocal(w) /\ RunOf[w] = "walk" /\ Crew("walk") \subseteq Workers
      /\ InOrder(w) /\ Nested /\ StandsFor(w)
  BY SteadyIsThread, ThreadsAreLocal DEF Crew, OnCourse
<1>2. snap' = snap /\ \A b \in Workers : b # w => job'[b] = job[b]
  BY <1>1 DEF ThreadLocal
<1>3. \A q \in Elsewhere(w) : \A h \in Files \cap Beneath(q) : rows'.f[h] = rows.f[h]
  BY <1>1, ElsewhereIsLeftAlone
<1>4. \A q \in queue["walk"] \cup next["walk"] : Stands(Beneath(q))'
  <2>1. \A q \in queue["walk"] \cup next["walk"] : Stands(Beneath(q)) /\ q \in Elsewhere(w)
    BY DEF OnCourse, Elsewhere
  <2> QED
    BY <1>2, <1>3, <2>1 DEF Stands, Beneath
<1>5. \A b \in Crew("walk") : b # w => StandsFor(b)'
  <2> SUFFICES ASSUME NEW b \in Crew("walk"), b # w, Busy(b)' PROVE StandsFor(b)'
    BY DEF StandsFor
  <2>1. job'[b] = job[b] /\ Busy(b) /\ job[b].folder \in Elsewhere(w) /\ StandsFor(b)
    BY <1>1, <1>2 DEF Elsewhere, Busy, OnCourse
  <2>2. \A h \in Files \cap Beneath(job[b].folder) : rows'.f[h] = rows.f[h]
    BY <1>3, <2>1
  <2>3. CASE job[b].at = "purge"
    BY <1>2, <2>1, <2>2, <2>3 DEF StandsFor, Stands, Beneath, Children
  <2>4. CASE job[b].at # "purge"
    BY <1>2, <2>1, <2>2, <2>4 DEF StandsFor, Stands, Beneath, Children
  <2> QED
    BY <2>3, <2>4
<1>6. CASE TakeFolder(w)
  <2>1. PICK q \in queue["walk"] :
            job'[w] = job[w] \/ job'[w] = [job[w] EXCEPT !.at = "local", !.folder = q]
    BY <1>1, <1>6, TakeFolderStep
  <2>2. job[w] \in Tasks /\ ~Busy(w)
    BY <1>1, <1>6, TakeFolderStep, TaskOf
  <2>3. StandsFor(w)'
    <3>1. CASE job'[w] = job[w]
      BY <2>2, <3>1 DEF StandsFor, Busy
    <3>2. CASE job'[w] = [job[w] EXCEPT !.at = "local", !.folder = q]
      <4>1. job'[w].at = "local" /\ job'[w].folder = q
        BY <2>2, <3>2 DEF Tasks
      <4> QED
        BY <1>4, <4>1 DEF StandsFor, Stands, Beneath
    <3> QED
      BY <2>1, <3>1, <3>2
  <2>4. queue'["walk"] \subseteq queue["walk"] /\ next' = next
    BY <1>1, <1>6, TakeFolderStep
  <2> QED
    BY <1>4, <1>5, <2>3, <2>4
<1>7. CASE Purge(w)
  <2> DEFINE F == job[w].folder
  <2>1. Busy(w) /\ ~Busy(w)' /\ job[w].at = "purge"
    BY <1>1, <1>7, PurgeStep
  <2>2. StandsFor(w)'
    BY <2>1 DEF StandsFor
  <2>3. \A h \in Files \cap (Beneath(F) \ Children(F)) : rows.f[h] = snap["walk"].f[h]
    BY <1>1, <2>1 DEF StandsFor, Stands
  <2>4. \A k \in Kids(w) : Beneath(k) \subseteq Beneath(F) \ Children(F)
    BY <1>1, KidsAreApart DEF Kids
  <2>5. \A k \in Kids(w) : \A h \in Files \cap Beneath(k) : rows'.f[h] = snap["walk"].f[h]
    BY <1>1, <1>7, <2>3, <2>4, PurgedRows
  <2>6. \A k \in Kids(w) : Stands(Beneath(k))'
    BY <1>2, <2>5 DEF Stands, Beneath
  <2>7. queue' = queue /\ next'["walk"] = next["walk"] \cup Kids(w)
    BY <1>7, PurgesAhead
  <2> QED
    BY <1>4, <1>5, <2>2, <2>6, <2>7
<1>8. CASE ~TakeFolder(w) /\ ~Purge(w)
  <2> DEFINE F == job[w].folder
  <2>1. job[w].at # "purge" /\ Busy(w) /\ job'[w].folder = F /\ UNCHANGED <<queue, next>>
    BY <1>1, <1>8, SteadyRows, SteadyIsThread, ThreadStaysInFolder
  <2>2. \A h \in Files \cap Beneath(F) : rows.f[h] = snap["walk"].f[h]
    BY <1>1, <2>1 DEF StandsFor, Stands
  <2>3. StandsFor(w)'
    <3>1. CASE ~Commit(w)
      <4>1. rows' = rows
        BY <1>1, <1>8, <3>1, SteadyRows
      <4> QED
        BY <1>2, <2>1, <2>2, <4>1 DEF StandsFor, Stands, Beneath, Children
    <3>2. CASE Commit(w)
      <4>1. \A h \in Files \cap (Beneath(F) \ Children(F)) : rows'.f[h] = rows.f[h]
        BY <1>1, <3>2, CommitEffect
      <4>2. job'[w].at = "purge"
        BY <1>1, <3>2, CommitStep
      <4> QED
        BY <1>2, <2>1, <2>2, <4>1, <4>2 DEF StandsFor, Stands, Beneath, Children
    <3> QED
      BY <3>1, <3>2
  <2> QED
    BY <1>4, <1>5, <2>1, <2>3
<1> QED
  BY <1>6, <1>7, <1>8

\* What holds of an item on both sides holds as long as it is as it was.
LEMMA SameKeeps ==
    ASSUME Typed, NEW x \in Items, Same(x)
    PROVE  /\ Agree(x) => Agree(x)'
           /\ Lacks("here", x) => Lacks("here", x)'
           /\ Lacks("there", x) => Lacks("there", x)'
           /\ \A op : Suits(op, x) => Suits(op, x)'
           /\ snap' = snap => (Changed(x) => Changed(x)')
           /\ x \in Files /\ rows'.f[x] = rows.f[x] => (Contested(x) => Contested(x)')
<1>1. "here" \in Sides /\ "there" \in Sides
  BY DEF Sides
<1>2. /\ x \in Files => /\ tree'["here"].f[x] = tree["here"].f[x]
                        /\ tree'["there"].f[x] = tree["there"].f[x]
      /\ x \in Dirs => /\ x \in tree'["here"].d <=> x \in tree["here"].d
                       /\ x \in tree'["there"].d <=> x \in tree["there"].d
  BY <1>1 DEF Same
<1>3. Agree(x) => Agree(x)'
  BY <1>2 DEF Agree
<1>4. (Lacks("here", x) => Lacks("here", x)') /\ (Lacks("there", x) => Lacks("there", x)')
  BY <1>2 DEF Lacks
<1>5. \A op : Suits(op, x) => Suits(op, x)'
  <2>1. tree["here"].d \subseteq Dirs /\ tree["there"].d \subseteq Dirs
    BY <1>1, SidesTyped
  <2> QED
    BY <1>2, <1>4, <2>1 DEF Suits
<1>6. snap' = snap => (Changed(x) => Changed(x)')
  BY <1>2 DEF Changed
<1>7. x \in Files /\ rows'.f[x] = rows.f[x] => (Contested(x) => Contested(x)')
  BY <1>2 DEF Contested
<1> QED
  BY <1>3, <1>4, <1>5, <1>6, <1>7

\* A thread with nothing read yet has nothing that could be out of order.
LEMMA FreeIsInOrder ==
    ASSUME NEW w \in Crew("walk"), job'[w].at \in {"free", "local"}
    PROVE  InOrder(w)'
BY DEF InOrder, InPlace, ChildInOrder, Listed

\* A thread's folder stays in order while the others go on.
LEMMA OthersStayInOrder ==
    ASSUME Typed, JobsShaped, Apart, TreesWF, Nested, NEW w \in Crew("walk"), InOrder(w), Steady(w),
           NEW b \in Crew("walk"), b # w, InOrder(b)
    PROVE  InOrder(b)'
<1> DEFINE F == job[b].folder
<1>1. /\ w \in Workers /\ ThreadLocal(w) /\ b \in Workers
  BY SteadyIsThread, ThreadsAreLocal DEF Crew
<1>2. job'[b] = job[b] /\ snap' = snap /\ skips' = skips
  BY <1>1 DEF ThreadLocal
<1>3. CASE ~Busy(b)
  BY <1>2, <1>3, FreeIsInOrder DEF Busy
<1>4. CASE Busy(b)
  <2>1. F \in Elsewhere(w) /\ F \in Folders
    BY <1>1, <1>4, TaskOf DEF Elsewhere, Tasks
  <2>2. /\ \A x \in Children(F) : x \in Items /\ Same(x)
        /\ \A x \in Children(F) : x \in Files => rows'.f[x] = rows.f[x]
        /\ F \in Dirs => Same(F)
    <3>1. /\ \A x \in Beneath(F) : x \in Items /\ Same(x)
          /\ \A h \in Files \cap Beneath(F) : rows'.f[h] = rows.f[h]
          /\ F \in Dirs => Same(F)
      <4> HIDE DEF F
      <4> QED
        BY <2>1, ElsewhereIsLeftAlone
    <3>2. \A x \in Children(F) : x \in Beneath(F)
      BY <2>1, ChildIsBeneath
    <3> QED
      BY <3>1, <3>2
  <2>3. \A s \in Sides : There(tree[s], F) => There(tree'[s], F)
    BY <2>1, <2>2, TreeConstants DEF There, Same, Folders
  <2>4. InPlace(b)'
    BY <1>2, <2>3 DEF InPlace, InOrder, Sides
  <2>5. ASSUME NEW x \in Visible(job[b], skips["walk"]) PROVE ChildInOrder(b, x)'
    <3>1. ChildInOrder(b, x) /\ x \in Children(F) /\ x \in Items /\ Same(x)
      BY <2>2, <2>5 DEF InOrder, Visible
    <3> DEFINE j == job[b]
    <3>2. j.at = "remote" => /\ x \in Files => j.seen.f[x] = tree'["here"].f[x]
                             /\ x \in Dirs => (x \in j.seen.d <=> x \in tree'["here"].d)
      BY <3>1 DEF ChildInOrder, Same, Sides
    <3>3. j.at \in Listed \ {"purge"} =>
              IF x \in j.todo THEN Suits(j.plan[x].op, x)'
              ELSE Agree(x)' \/ (Changed(x)' /\ j.plan[x].op = "skip")
      BY <1>2, <3>1, SameKeeps DEF ChildInOrder
    <3>4. j.at = "purge" => Agree(x)' \/ (x \in Files /\ Contested(x)')
      BY <2>2, <3>1, SameKeeps DEF ChildInOrder
    <3>5. j.at \in Listed /\ x \in Dirs /\ x \notin Kids(b) =>
              Lacks("here", x)' /\ Lacks("there", x)'
      BY <3>1, SameKeeps DEF ChildInOrder
    <3>6. Kids(b)' = Kids(b)
      BY <1>2 DEF Kids
    <3> QED
      BY <1>2, <3>2, <3>3, <3>4, <3>5, <3>6 DEF ChildInOrder, Suits, Lacks
  <2>6. Visible(job[b], skips["walk"])' = Visible(job[b], skips["walk"])
    BY <1>2 DEF Visible, Children
  <2> QED
    BY <2>4, <2>5, <2>6 DEF InOrder
<1> QED
  BY <1>3, <1>4

\* What the thread reads is what there is.
LEMMA ReadsInOrder ==
    ASSUME Typed, JobsShaped, NEW w \in Crew("walk"), ReadLocal(w), calm'
    PROVE  InOrder(w)'
<1> DEFINE F == job[w].folder
           seen == Listing(tree["here"], F, skips["walk"])
           empty == F = Root /\ seen = Bare /\ Tracked(snap["walk"], skips["walk"]) >= EmptyRootMin
<1>1. w \in Workers /\ RunOf[w] = "walk" /\ job[w] \in Tasks
  BY TaskOf DEF Crew
<1>2. /\ There(tree["here"], F) /\ calm' = (calm /\ ~empty)
      /\ Becomes(w, [job[w] EXCEPT !.at = "remote", !.seen = seen, !.whole = ~empty])
      /\ UNCHANGED <<tree, skips>>
  BY <1>1 DEF ReadLocal, world, quiet, runs
<1>3. ~empty
  BY <1>2
<1> HIDE DEF empty, seen
<1>4. job'[w] = [job[w] EXCEPT !.at = "remote", !.seen = seen, !.whole = ~empty]
  BY <1>1, <1>2, BecomesKeeps
<1>5. /\ job'[w].at = "remote" /\ job'[w].seen = seen /\ job'[w].folder = F
      /\ job'[w].whole = (~empty)
  BY <1>1, <1>4 DEF Tasks
<1>6. tree["here"] \in Trees
  BY SidesTyped DEF Sides
<1>7. \A x \in Visible(job[w], skips["walk"]) :
          /\ x \in Files => seen.f[x] = tree["here"].f[x]
          /\ x \in Dirs => (x \in seen.d <=> x \in tree["here"].d)
  BY <1>6, ListingIsVisible DEF Visible, seen
<1>8. Visible(job[w], skips["walk"])' = Visible(job[w], skips["walk"])
  BY <1>2, <1>5 DEF Visible, Children
<1>9. InPlace(w)'
  BY <1>2, <1>3, <1>5 DEF InPlace, Listed
<1> QED
  BY <1>2, <1>5, <1>7, <1>8, <1>9 DEF InOrder, ChildInOrder, Listed

\* What is decided for a child that both sides have been seen of.
LEMMA DecidesFile ==
    ASSUME C.propagate, NEW x \in Files, NEW V,
           NEW a \in 0..MaxClock, NEW b \in 0..MaxClock, NEW c \in 0..MaxClock,
           tree["here"].f[x] = a, tree["there"].f[x] = b, snap["walk"].f[x] = c,
           V = Judge(FileOrNil(a), FileOrNil(b), FileOrNil(c), C)
    PROVE  /\ V.op \in Deletes \cup Makes => Suits(V.op, x)
           /\ V.op \notin Deletes \cup Makes => Agree(x) \/ (Changed(x) /\ V.op = "skip")
<1>1. x \notin Dirs
  BY TreeConstants
<1>2. CASE a = b
  <2>1. V.op = "none"
    BY <1>2, JudgeOfFile DEF Verdict
  <2>2. Agree(x)
    BY <1>1, <1>2 DEF Agree
  <2> QED
    BY <2>1, <2>2 DEF Deletes, Makes
<1>3. CASE a # 0 /\ b = 0
  <2>1. V.op = "upload" \/ V.op = "deleteLocal"
    BY <1>3, JudgeOfFile DEF Verdict
  <2>2. Lacks("there", x)
    BY <1>1, <1>3 DEF Lacks
  <2> QED
    BY <2>1, <2>2 DEF Deletes, Makes, Suits
<1>4. CASE a = 0 /\ b # 0
  <2>1. V.op = "download" \/ V.op = "deleteRemote"
    BY <1>4, JudgeOfFile DEF Verdict
  <2>2. Lacks("here", x)
    BY <1>1, <1>4 DEF Lacks
  <2> QED
    BY <2>1, <2>2 DEF Deletes, Makes, Suits
<1>5. CASE a # 0 /\ b # 0 /\ a # b
  <2>1. V = IF a = c THEN Verdict("download", FileEntry(b))
            ELSE IF b = c THEN Verdict("upload", FileEntry(a)) ELSE Verdict("skip", Nil)
    BY <1>5, JudgeOfFile
  <2>2. V.op = "upload" \/ V.op = "download" \/ (V.op = "skip" /\ a # c /\ b # c)
    BY <2>1 DEF Verdict
  <2>3. a # c /\ b # c => Changed(x)
    BY DEF Changed
  <2> QED
    BY <2>2, <2>3 DEF Deletes, Makes, Suits
<1> QED
  BY <1>2, <1>3, <1>4, <1>5

\* ... and for a folder in it.
LEMMA DecidesFolder ==
    ASSUME C.propagate, NEW x \in Dirs, NEW V,
           NEW a \in BOOLEAN, NEW b \in BOOLEAN, NEW c \in BOOLEAN,
           (x \in tree["here"].d) = a, (x \in tree["there"].d) = b,
           V = Judge(FolderOrNil(a), FolderOrNil(b), FolderOrNil(c), C)
    PROVE  /\ V.op \in Deletes \cup Makes => Suits(V.op, x)
           /\ V.op \notin Deletes \cup Makes => Agree(x)
<1>1. x \notin Files
  BY TreeConstants
<1>2. CASE a = b
  <2>1. V.op = "none"
    BY <1>2, JudgeOfFolder DEF Verdict
  <2>2. Agree(x)
    BY <1>1, <1>2 DEF Agree
  <2> QED
    BY <2>1, <2>2 DEF Deletes, Makes
<1>3. CASE a /\ ~b
  <2>1. V = IF ~c THEN Verdict("mkdirRemote", FolderEntry) ELSE Verdict("deleteLocal", Nil)
    BY <1>3, JudgeOfFolder
  <2>3. V.op = "mkdirRemote" \/ V.op = "deleteLocal"
    BY <2>1 DEF Verdict
  <2>2. Lacks("there", x) /\ x \in tree["here"].d
    BY <1>1, <1>3 DEF Lacks
  <2> QED
    BY <2>2, <2>3 DEF Deletes, Makes, Suits
<1>4. CASE ~a /\ b
  <2>1. V = IF ~c THEN Verdict("mkdirLocal", FolderEntry) ELSE Verdict("deleteRemote", Nil)
    BY <1>4, JudgeOfFolder
  <2>3. V.op = "mkdirLocal" \/ V.op = "deleteRemote"
    BY <2>1 DEF Verdict
  <2>2. Lacks("here", x) /\ x \in tree["there"].d
    BY <1>1, <1>4 DEF Lacks
  <2> QED
    BY <2>2, <2>3 DEF Deletes, Makes, Suits
<1> QED
  BY <1>2, <1>3, <1>4

\* What the thread plans for its folder suits what both sides hold.
LEMMA PlansInOrder ==
    ASSUME C.propagate, Typed, JobsShaped, NEW w \in Crew("walk"), InOrder(w), ListRemote(w),
           backoff = {}
    PROVE  InOrder(w)'
<1> DEFINE F == job[w].folder
           seen == job[w].seen
           there == Listing(tree["there"], F, skips["walk"])
           P == Decided(w, there)
<1>1. /\ w \in Workers /\ RunOf[w] = "walk" /\ job[w] \in Tasks
      /\ tree["here"] \in Trees /\ tree["there"] \in Trees /\ snap["walk"] \in Trees
      /\ skips["walk"] \in SUBSET Dirs
  BY TaskOf, SidesTyped DEF Crew, Sides
<1>2. /\ There(tree["there"], F) /\ PlanFolder(w, there, TRUE) /\ UNCHANGED <<tree, skips, snap>>
      /\ job[w].at = "remote"
  BY <1>1 DEF ListRemote, PlanFolder, At, world, quiet, runs
<1>3. there \in Trees
  BY <1>1, TreesMade
<1>4. InPlace(w) /\ job[w].whole /\ There(tree["here"], F)
  BY <1>2 DEF InOrder, InPlace
<1>5. SeenWhole(w, TRUE)
  BY <1>4 DEF SeenWhole
<1>6. /\ job'[w].at \in {"reserve", "apply"} /\ job'[w].plan = P /\ job'[w].todo = Todo(P)
      /\ job'[w].kids = seen.d \cup there.d /\ job'[w].folder = F /\ job'[w].gone = {}
  <2> HIDE DEF P, there, seen, F
  <2>1. P = IF SeenWhole(w, TRUE) THEN Decided(w, there) ELSE Without(Decided(w, there))
    BY <1>5 DEF P
  <2> QED
    BY <1>1, <1>2, <1>3, <2>1, PlanStep DEF seen, F
<1>7. InPlace(w)'
  BY <1>2, <1>4, <1>6 DEF InPlace, Listed
<1>8. ASSUME NEW x \in Visible(job[w], skips["walk"]) PROVE ChildInOrder(w, x)'
  <2> DEFINE rec == Listing(snap["walk"], F, skips["walk"])
  <2>1. x \in Children(F) /\ x \in Items /\ ~Excluded(x, skips["walk"])
    BY DEF Visible, Children
  <2>2. P[x] = Judge(EntryAt(seen, x), EntryAt(there, x), EntryAt(rec, x), C)
    BY <1>1, <2>1 DEF Decided
  <2>3. /\ x \in Files => seen.f[x] = tree["here"].f[x]
        /\ x \in Dirs => (x \in seen.d <=> x \in tree["here"].d)
    BY <1>2 DEF InOrder, ChildInOrder
  <2>4. /\ x \in Files => there.f[x] = tree["there"].f[x] /\ rec.f[x] = snap["walk"].f[x]
        /\ x \in Dirs => (x \in there.d <=> x \in tree["there"].d)
    BY <1>1, <2>1, ListingIsVisible
  <2>5. Todo(P) = {y \in Items : P[y].op \in Deletes \cup Makes}
    BY DEF Todo
  <2> HIDE DEF P, there, rec, seen, F
  <2>6. IF x \in Todo(P) THEN Suits(P[x].op, x) ELSE Agree(x) \/ (Changed(x) /\ P[x].op = "skip")
    <3>1. CASE x \in Files
      <4> DEFINE a == tree["here"].f[x]
                 b == tree["there"].f[x]
                 c == snap["walk"].f[x]
      <4>1. a \in 0..MaxClock /\ b \in 0..MaxClock /\ c \in 0..MaxClock
        BY <1>1, <3>1 DEF Trees
      <4>2. P[x] = Judge(FileOrNil(a), FileOrNil(b), FileOrNil(c), C)
        BY <2>1, <2>2, <2>3, <2>4, <3>1, EntryMeans
      <4> QED
        BY <2>1, <2>5, <3>1, <4>1, <4>2, DecidesFile
    <3>2. CASE x \in Dirs
      <4> DEFINE a == x \in tree["here"].d
                 b == x \in tree["there"].d
                 c == x \in rec.d
      <4>1. P[x] = Judge(FolderOrNil(a), FolderOrNil(b), FolderOrNil(c), C)
        <5>1. /\ EntryAt(seen, x) = FolderOrNil(x \in seen.d)
              /\ EntryAt(there, x) = FolderOrNil(x \in there.d)
              /\ EntryAt(rec, x) = FolderOrNil(x \in rec.d)
          BY <2>1, <3>2, EntryMeans
        <5>2. /\ FolderOrNil(x \in seen.d) = FolderOrNil(a)
              /\ FolderOrNil(x \in there.d) = FolderOrNil(b)
          BY <2>3, <2>4, <3>2 DEF FolderOrNil
        <5> QED
          BY <2>2, <5>1, <5>2
      <4>2. a \in BOOLEAN /\ b \in BOOLEAN /\ c \in BOOLEAN
        OBVIOUS
      <4>3. /\ P[x].op \in Deletes \cup Makes => Suits(P[x].op, x)
            /\ P[x].op \notin Deletes \cup Makes => Agree(x)
        <5> HIDE DEF c
        <5> QED
          BY <3>2, <4>1, <4>2, DecidesFolder
      <4> QED
        BY <2>1, <2>5, <4>3
    <3> QED
      BY <2>1, <3>1, <3>2 DEF Items
  <2>7. x \in Dirs /\ x \notin seen.d \cup there.d => Lacks("here", x) /\ Lacks("there", x)
    BY <2>3, <2>4, TreeConstants DEF Lacks
  <2>8. Kids(w)' = seen.d \cup there.d
    BY <1>6 DEF Kids
  <2> QED
    BY <1>2, <1>6, <2>6, <2>7, <2>8 DEF ChildInOrder, Listed, Agree, Changed, Suits, Lacks
<1>9. Visible(job[w], skips["walk"])' = Visible(job[w], skips["walk"])
  BY <1>2, <1>6 DEF Visible, Children
<1> QED
  BY <1>7, <1>8, <1>9 DEF InOrder

\* A step that only passes on to the next place leaves the folder in order.
LEMMA PassesInOrder ==
    ASSUME NEW w \in Crew("walk"), InOrder(w), UNCHANGED <<tree, rows, snap, skips>>,
           \/ job'[w] = job[w]
           \/ /\ job[w].at \in Listed \ {"purge"} /\ job'[w].at \in Listed \ {"purge"}
              /\ job'[w].folder = job[w].folder /\ job'[w].plan = job[w].plan
              /\ job'[w].kids = job[w].kids /\ job'[w].gone = job[w].gone
              /\ job'[w].todo = job[w].todo
    PROVE  InOrder(w)'
<1>1. Visible(job[w], skips["walk"])' = Visible(job[w], skips["walk"])
  BY DEF Visible, Children
<1>2. InPlace(w)'
  BY DEF InOrder, InPlace, Listed
<1>3. ASSUME NEW x \in Visible(job[w], skips["walk"]) PROVE ChildInOrder(w, x)'
  <2>1. ChildInOrder(w, x)
    BY DEF InOrder
  <2>2. CASE job'[w] = job[w]
    BY <2>1, <2>2 DEF ChildInOrder, Agree, Changed, Contested, Suits, Lacks, Kids
  <2>3. CASE /\ job[w].at \in Listed \ {"purge"} /\ job'[w].at \in Listed \ {"purge"}
             /\ job'[w].folder = job[w].folder /\ job'[w].plan = job[w].plan
             /\ job'[w].kids = job[w].kids /\ job'[w].gone = job[w].gone
             /\ job'[w].todo = job[w].todo
    BY <2>1, <2>3 DEF ChildInOrder, Agree, Changed, Contested, Suits, Lacks, Kids, Listed
  <2> QED
    BY <2>2, <2>3
<1> QED
  BY <1>1, <1>2, <1>3 DEF InOrder

\* What is carried out leaves the child alike on both sides, and its siblings as they were.
LEMMA CarriesKeepsOrder ==
    ASSUME Typed, JobsShaped, TreesWF, NEW w \in Crew("walk"), InOrder(w), Steady(w),
           NEW x, Carries(w, x)
    PROVE  InOrder(w)'
<1> DEFINE F == job[w].folder
           j == job[w]
<1>1. w \in Workers /\ RunOf[w] = "walk"
  BY DEF Crew
<1>2. /\ x \in Items /\ x \in j.todo /\ x \in Visible(j, skips["walk"])
      /\ x \in Children(F) /\ F \in Folders
      /\ j.at \in {"apply", "remove"} /\ job'[w].at = "apply"
      /\ job'[w].folder = F /\ job'[w].plan = j.plan
      /\ job'[w].kids = j.kids /\ job'[w].todo = j.todo \ {x}
      /\ job'[w].gone = IF j.plan[x].op \in Deletes THEN j.gone \cup {x} ELSE j.gone
      /\ UNCHANGED <<rows, snap, skips>>
  BY <1>1, CarriesOutPart DEF store, runs
<1>3. /\ There(tree["here"], F) /\ There(tree["there"], F) /\ Suits(j.plan[x].op, x)
  BY CarriesInOrder
<1>4. /\ \A y \in Items \ Subtree(x) : Same(y)
      /\ Agree(x)'
      /\ j.plan[x].op \in Deletes => Lacks("here", x)' /\ Lacks("there", x)'
  BY <1>1, <1>3, CarriesOutOwn
<1>5. Visible(j, skips["walk"])' = Visible(j, skips["walk"])
  BY <1>2 DEF Visible, Children
<1>6. InPlace(w)'
  <2>1. F \in Dirs => Same(F)
    <3>1. Busy(w)
      BY <1>2 DEF Busy
    <3>2. F \in Dirs => F \notin Beneath(F) /\ F \in Items
      BY TreeConstants DEF Beneath
    <3>3. F \in Dirs => F \notin Reaches(w)
      BY <3>1, <3>2 DEF Reaches
    <3> QED
      BY <3>2, <3>3, SteadyIsConfined
  <2>2. There(tree["here"], F)' /\ There(tree["there"], F)'
    BY <1>2, <1>3, <2>1, TreeConstants DEF There, Same, Folders, Sides
  <2> QED
    BY <1>2, <2>2 DEF InPlace, Listed
<1>7. ASSUME NEW y \in Visible(j, skips["walk"]), y # x PROVE ChildInOrder(w, y)'
  <2>1. y \in Children(F) /\ y \in Items /\ ChildInOrder(w, y)
    BY <1>7 DEF Visible, Children, InOrder
  <2>2. y \notin Subtree(x)
    BY <1>2, <1>7, <2>1, SiblingsAreApart
  <2>3. Same(y)
    BY <1>4, <2>1, <2>2
  <2>4. j.at \in Listed \ {"purge"} /\ j.at \in Listed
    BY <1>2 DEF Listed
  <2>5. IF y \in job'[w].todo THEN Suits(j.plan[y].op, y)
        ELSE Agree(y) \/ (Changed(y) /\ j.plan[y].op = "skip")
    BY <1>2, <1>7, <2>1, <2>4 DEF ChildInOrder
  <2>6. y \in Dirs /\ y \notin Kids(w)' => Lacks("here", y) /\ Lacks("there", y)
    <3>1. y \notin Kids(w)' => y \notin Kids(w)
      BY <1>2, <1>7 DEF Kids
    <3> QED
      BY <2>1, <2>4, <3>1 DEF ChildInOrder
  <2>7. /\ Agree(y) => Agree(y)'
        /\ Lacks("here", y) => Lacks("here", y)'
        /\ Lacks("there", y) => Lacks("there", y)'
        /\ Changed(y) => Changed(y)'
    BY <1>2, <2>1, <2>3, SameKeeps
  <2> HIDE DEF j
  <2> DEFINE op == job'[w].plan[y].op
  <2>8. op = j.plan[y].op
    BY <1>2
  <2>9. Suits(j.plan[y].op, y) =>
            /\ op = "mkdirLocal" => y \in tree'["there"].d
            /\ op = "mkdirRemote" => y \in tree'["here"].d
            /\ op = "deleteLocal" => Lacks("there", y)'
            /\ op = "deleteRemote" => Lacks("here", y)'
    <3>1. y \in tree["here"].d => y \in tree'["here"].d
      BY <2>3, SidesTyped DEF Same, Sides
    <3>2. y \in tree["there"].d => y \in tree'["there"].d
      BY <2>3, SidesTyped DEF Same, Sides
    <3> QED
      BY <2>7, <2>8, <3>1, <3>2 DEF Suits
  <2>10. job'[w].at = "apply"
    BY <1>2
  <2>11. IF y \in job'[w].todo THEN Suits(job[w].plan[y].op, y)'
         ELSE Agree(y)' \/ (Changed(y)' /\ op = "skip")
    <3>1. Suits(j.plan[y].op, y) => Suits(job[w].plan[y].op, y)'
      BY <2>9 DEF Suits
    <3> QED
      BY <2>5, <2>7, <2>8, <3>1
  <2> QED
    BY <2>6, <2>7, <2>10, <2>11 DEF ChildInOrder, Listed
<1>8. ChildInOrder(w, x)'
  <2>1. x \in Dirs /\ x \notin Kids(w)' => Lacks("here", x)' /\ Lacks("there", x)'
    <3> SUFFICES ASSUME x \in Dirs, x \notin Kids(w)', j.plan[x].op \notin Deletes PROVE FALSE
      BY <1>4
    <3>1. x \notin Kids(w)
      BY <1>2 DEF Kids
    <3>2. ChildInOrder(w, x)
      BY <1>2 DEF InOrder
    <3>3. Lacks("here", x) /\ Lacks("there", x)
      BY <1>2, <3>1, <3>2 DEF ChildInOrder, Listed
    <3>4. j.plan[x].op \in {"mkdirLocal", "mkdirRemote"}
      <4>1. x \notin Files
        BY TreeConstants
      <4>2. MakeFolder(w, x) => j.plan[x].op \in {"mkdirLocal", "mkdirRemote"}
        BY DEF MakeFolder, Takes, OpOf
      <4>3. x = job[w].doomed /\ RemoveFolder(w) => j.plan[x].op \in Deletes
        BY <1>1, RemoveFolderStep, DoomedIsVisible
      <4> QED
        BY <4>1, <4>2, <4>3 DEF Carries
    <3> QED
      BY <1>3, <3>3, <3>4 DEF Suits, Lacks
  <2>2. job'[w].at = "apply" /\ x \notin job'[w].todo
    BY <1>2
  <2> QED
    BY <1>4, <2>1, <2>2 DEF ChildInOrder, Listed
<1>9. \A y \in Visible(j, skips["walk"]) : ChildInOrder(w, y)'
  BY <1>7, <1>8
<1> QED
  BY <1>5, <1>6, <1>9 DEF InOrder

\* The rows of the children are written; of a file that both sides have changed none is, and it
\* stays contested.
LEMMA CommitKeepsOrder ==
    ASSUME Typed, JobsShaped, NEW w \in Crew("walk"), InOrder(w), StandsFor(w), Commit(w),
           ~cancelled["walk"]
    PROVE  InOrder(w)'
<1> DEFINE F == job[w].folder
           j == job[w]
<1>1. w \in Workers /\ RunOf[w] = "walk" /\ j \in Tasks
  BY TaskOf DEF Crew
<1>2. /\ j.at = "apply" /\ job'[w].at = "purge" /\ SameCourse(w) /\ SameDone(w)
      /\ UNCHANGED <<tree, snap, skips>>
  BY <1>1, CommitStep DEF world, runs
<1>3. j.todo = {}
  BY <1>1 DEF Commit
<1>4. Visible(j, skips["walk"])' = Visible(j, skips["walk"])
  BY <1>2 DEF Visible, Children, SameCourse
<1>5. InPlace(w)'
  BY <1>2 DEF InOrder, InPlace, Listed, SameCourse
<1>6. ASSUME NEW x \in Visible(j, skips["walk"]) PROVE ChildInOrder(w, x)'
  <2>1. ChildInOrder(w, x) /\ x \in Items /\ x \in Children(F) /\ ~Excluded(x, skips["walk"])
    BY DEF InOrder, Visible, Children
  <2>2. Agree(x) \/ (Changed(x) /\ j.plan[x].op = "skip")
    BY <1>2, <1>3, <2>1 DEF ChildInOrder, Listed
  <2>3. Agree(x) => Agree(x)'
    BY <1>2 DEF Agree
  <2>4. Changed(x) /\ j.plan[x].op = "skip" => x \in Files /\ Contested(x)'
    <3> SUFFICES ASSUME Changed(x), j.plan[x].op = "skip" PROVE x \in Files /\ Contested(x)'
      OBVIOUS
    <3>1. x \in Files
      BY DEF Changed
    <3>2. JobShape(j, skips["walk"])
      BY <1>1 DEF JobsShaped
    <3>3. j.plan[x].row = Nil
      BY <2>1, <3>2 DEF JobShape, PlanShape
    <3>4. x \notin j.gone
      BY <3>2 DEF JobShape, Deletes
    <3>5. x \notin Pruned(w)
      BY <1>1, <2>1 DEF Pruned
    <3>6. ~Confirmed(w, x)
      BY <3>3 DEF Confirmed
    <3>7. rows'.f[x] = rows.f[x]
      BY <3>1, <3>4, <3>5, <3>6 DEF Commit, Cut
    <3>8. rows.f[x] = snap["walk"].f[x]
      <4>1. Busy(w) /\ F \in Folders
        BY <1>1, <1>2 DEF Busy, Tasks
      <4>2. x \in Beneath(F)
        BY <2>1, <4>1, ChildIsBeneath
      <4> QED
        BY <1>2, <3>1, <4>1, <4>2 DEF StandsFor, Stands
    <3> QED
      BY <1>2, <3>1, <3>7, <3>8 DEF Changed, Contested
  <2>5. x \in Dirs /\ x \notin Kids(w) => Lacks("here", x) /\ Lacks("there", x)
    BY <1>2, <2>1 DEF ChildInOrder, Listed
  <2>6. Kids(w)' = Kids(w)
    BY <1>2 DEF Kids, SameCourse, SameDone
  <2> QED
    BY <1>2, <2>2, <2>3, <2>4, <2>5, <2>6 DEF ChildInOrder, Listed, Lacks
<1> QED
  BY <1>4, <1>5, <1>6 DEF InOrder

\* Whatever the thread does, its own folder stays in order.
LEMMA OwnStaysInOrder ==
    ASSUME C.propagate, Typed, JobsShaped, TreesWF, NEW w \in Crew("walk"), InOrder(w),
           StandsFor(w), Steady(w), calm', ~cancelled["walk"], backoff = {}
    PROVE  InOrder(w)'
<1>1. w \in Workers
  BY DEF Crew
<1>2. CASE TakeFolder(w)
  <2>1. PICK q \in queue[RunOf[w]] :
            job'[w] = job[w] \/ job'[w] = [job[w] EXCEPT !.at = "local", !.folder = q]
    BY <1>1, <1>2, TakeFolderStep
  <2>2. ~Busy(w)
    BY <1>1, <1>2, TakeFolderStep
  <2>3. job[w].at = "free" /\ job[w] \in Tasks
    BY <1>1, <2>2, TaskOf DEF Busy
  <2>4. job'[w].at \in {"free", "local"}
    <3>1. CASE job'[w] = job[w]
      BY <2>3, <3>1
    <3>2. CASE job'[w] = [job[w] EXCEPT !.at = "local", !.folder = q]
      BY <2>3, <3>2 DEF Tasks
    <3> QED
      BY <2>1, <3>1, <3>2
  <2> QED
    BY <2>4, FreeIsInOrder
<1>3. CASE Purge(w)
  BY <1>1, <1>3, PurgeStep, FreeIsTask, FreeIsInOrder
<1>4. CASE InReserve(w)
  BY <1>4, PassesInOrder DEF InReserve, world, store, quiet, runs
<1>5. CASE Granted(w)
  <2>1. /\ job[w].at \in Listed \ {"purge"} /\ job'[w].at \in Listed \ {"purge"}
        /\ SameCourse(w) /\ SameDone(w) /\ job'[w].todo = job[w].todo
        /\ UNCHANGED <<tree, rows, snap, skips>>
    BY <1>1, <1>5, GrantedStep DEF Listed, world, store, runs
  <2> QED
    BY <2>1, PassesInOrder DEF SameCourse, SameDone
<1>6. ASSUME NEW d \in Dirs, CheckFolder(w, d) PROVE InOrder(w)'
  <2>1. /\ job[w].at \in Listed \ {"purge"} /\ job'[w].at \in Listed \ {"purge"}
        /\ SameCourse(w) /\ SameDone(w) /\ job'[w].todo = job[w].todo
        /\ UNCHANGED <<tree, rows, snap, skips>>
    BY <1>1, <1>6, CheckStep DEF Listed, world, store, runs
  <2> QED
    BY <2>1, PassesInOrder DEF SameCourse, SameDone
<1>7. ReadLocal(w) => InOrder(w)'
  BY ReadsInOrder
<1>8. ListRemote(w) => InOrder(w)'
  BY PlansInOrder
<1>9. Commit(w) => InOrder(w)'
  BY CommitKeepsOrder
<1>10. (\E x : Carries(w, x)) => InOrder(w)'
  BY CarriesKeepsOrder
<1> QED
  BY <1>2, <1>3, <1>4, <1>5, <1>6, <1>7, <1>8, <1>9, <1>10 DEF Steady, Carries

-----------------------------------------------------------------------------
(* The walk stays on its course as long as nothing disturbs it.              *)

\* Every folder that anything is in is there, whoever takes the step.
LEMMA NextTreesWF ==
    ASSUME Typed, JobsShaped, TreesWF, [Next]_vars
    PROVE  TreesWF'
<1>1. ASSUME NEW w \in Workers, Thread(w) PROVE TreesWF'
  BY <1>1, ThreadTreesWF
<1>2. CASE \/ \E d \in Dirs : Exclude(d) \/ Include(d) \/ FreeUp(d)
           \/ \E side \in Sides : \/ \E g \in Files : Edit(side, g) \/ Restore(side, g)
                                  \/ \E x \in Items : Dismiss(side, x)
  BY <1>2, OutsideGivesUp
<1>3. CASE \/ StartWalk \/ StartBurst \/ (\E r \in Runs : RunStep(r)) \/ UNCHANGED vars
           \/ Crash \/ (\E r \in Runs : Cancel(r)) \/ (\E x \in Items : BackoffElapses(x))
  <2>1. UNCHANGED tree
    BY <1>3 DEF StartWalk, StartBurst, Begin, RunStep, NextLevel, End, Crash, Cancel,
                BackoffElapses, world, vars
  <2> QED
    BY <2>1 DEF TreesWF
<1> QED
  BY <1>1, <1>2, <1>3, Zenon DEF Next, Engine, Environment

\* The course is a matter of the folders still to do, not of the level they are on.
LEMMA CourseFrame ==
    ASSUME OnCourse, UNCHANGED <<tree, rows, snap, skips, job>>,
           queue'["walk"] \cup next'["walk"] = queue["walk"] \cup next["walk"]
    PROVE  OnCourse'
<1>1. Crew("walk")' = Crew("walk")
  BY DEF Crew
<1>2. Ahead' = Ahead
  BY <1>1 DEF Ahead, Busy
<1>3. Nested'
  BY <1>2 DEF OnCourse, Nested, Beneath
<1>4. \A x \in Items : Reached(x)'
  BY <1>2 DEF OnCourse, Reached, Agree, Contested, Beneath
<1>5. \A q \in queue'["walk"] \cup next'["walk"] : Stands(Beneath(q))'
  BY DEF OnCourse, Stands, Beneath
<1>6. \A w \in Crew("walk") : StandsFor(w)'
  BY DEF OnCourse, StandsFor, Stands, Beneath, Busy
<1>7. \A w \in Crew("walk") : InOrder(w)'
  BY PassesInOrder DEF OnCourse
<1> QED
  BY <1>1, <1>3, <1>4, <1>5, <1>6, <1>7 DEF OnCourse

\* No step of a thread that nothing disturbs leaves the course ...
LEMMA SteadyOnCourse ==
    ASSUME C.propagate, Typed, JobsShaped, Apart, TreesWF, OnCourse, Unfailing, backoff = {}, calm',
           NEW w \in Crew("walk"), Steady(w)
    PROVE  OnCourse'
<1>1. Nested /\ InOrder(w) /\ StandsFor(w) /\ ~cancelled["walk"]
  BY DEF OnCourse, Unfailing
<1>2. Crew("walk")' = Crew("walk")
  BY DEF Crew
<1>3. Nested'
  BY <1>1, SteadyNested
<1>4. \A x \in Items : Reached(x)'
  BY <1>1, ReachedStays, PurgedIsReached DEF OnCourse
<1>5. \A b \in Crew("walk") : InOrder(b)'
  <2>1. \A b \in Crew("walk") : b # w => InOrder(b)'
    BY <1>1, OthersStayInOrder DEF OnCourse
  <2>2. InOrder(w)'
    BY <1>1, OwnStaysInOrder
  <2> QED
    BY <2>1, <2>2
<1>6. /\ \A q \in queue'["walk"] \cup next'["walk"] : Stands(Beneath(q))'
      /\ \A b \in Crew("walk") : StandsFor(b)'
  BY SteadyStands
<1> QED
  BY <1>2, <1>3, <1>4, <1>5, <1>6 DEF OnCourse

\* It begins at the root, with the baseline as its snapshot and no thread at work.
LEMMA StartsOnCourse ==
    ASSUME Typed, Shaped, StartWalk, ~on["burst"]
    PROVE  Unfailing' /\ OnCourse'
<1>1. IdleRun("walk")
  BY Bounds DEF StartWalk, Begin, Shaped, IdleRuns
<1>2. \A w \in Crew("walk") : job[w] = Free
  BY <1>1 DEF IdleRun, AllFree, Shaped, JobsShaped, JobShape, Crew
<1>3. /\ UNCHANGED <<tree, rows, backoff, next, cancelled, job>>
      /\ queue'["walk"] = {Root} /\ snap'["walk"] = rows
      /\ on' = [on EXCEPT !["walk"] = TRUE]
  BY Bounds DEF StartWalk, Begin, world, store, Typed, RunsTyped
<1>4. Crew("walk")' = Crew("walk")
  BY DEF Crew
<1>5. \A w \in Crew("walk") : job'[w] = Free /\ ~Busy(w)'
  BY <1>2, <1>3, FreeIsTask DEF Busy
<1>6. Unfailing'
  <2>1. ~on'["burst"]
    BY <1>3, Bounds DEF Typed, RunsTyped
  <2>2. ~cancelled'["walk"]
    BY <1>1, <1>3 DEF IdleRun
  <2>3. Free.failed = {} /\ Free.todo = {} /\ Free.done = {}
    BY DEF Free
  <2> QED
    BY <1>4, <1>5, <2>1, <2>2, <2>3 DEF Unfailing
<1>7. Ahead' = {Root}
  BY <1>1, <1>3, <1>4, <1>5 DEF Ahead, IdleRun
<1>8. Nested'
  BY <1>7, TreeConstants DEF Nested, Beneath
<1>9. \A x \in Items : Reached(x)'
  BY <1>7 DEF Reached, Beneath
<1>10. \A q \in queue'["walk"] \cup next'["walk"] : Stands(Beneath(q))'
  BY <1>3 DEF Stands, Beneath
<1>11. \A w \in Crew("walk") : StandsFor(w)' /\ InOrder(w)'
  BY <1>5, FreeIsTask, FreeIsInOrder DEF StandsFor
<1> QED
  BY <1>4, <1>6, <1>8, <1>9, <1>10, <1>11, <1>1, <1>3 DEF OnCourse, IdleRun

\* ... nor does any other.
LEMMA NextCourse ==
    ASSUME C.propagate, Typed, Shaped, Apart, TreesWF, Course, [Next]_vars
    PROVE  Course'
<1> SUFFICES ASSUME Undisturbing' PROVE Unfailing' /\ (backoff' = {} => OnCourse')
  BY DEF Course
<1>0. JobsShaped /\ (Undisturbing => ~on["burst"])
  BY DEF Shaped, Course, Unfailing
<1>1. CASE StartWalk /\ ~on["burst"]
  BY <1>1, StartsOnCourse
<1>2. CASE Undisturbing /\ (UNCHANGED vars \/ NextLevel("walk"))
  <2>1. Unfailing /\ (backoff = {} => OnCourse)
    BY <1>2 DEF Course
  <2>2. /\ UNCHANGED <<tree, rows, backoff, on, snap, skips, cancelled, job>>
        /\ queue'["walk"] \cup next'["walk"] = queue["walk"] \cup next["walk"]
    BY <1>2, Bounds DEF NextLevel, vars, world, store, runs, Typed, RunsTyped
  <2>3. Unfailing'
    BY <2>1, <2>2 DEF Unfailing, Crew
  <2> QED
    BY <2>1, <2>2, <2>3, CourseFrame
<1>3. ASSUME Undisturbing, NEW w \in Crew("walk"), Steady(w)
      PROVE  Unfailing' /\ (backoff' = {} => OnCourse')
  <2>1. Unfailing /\ (backoff = {} => OnCourse) /\ on["walk"]
    BY <1>3 DEF Course, Undisturbing
  <2>2. Unfailing' /\ backoff' = backoff
    BY <1>0, <1>3, <2>1, SteadyUnfailing
  <2>3. calm'
    BY DEF Undisturbing
  <2> QED
    BY <1>0, <1>3, <2>1, <2>2, <2>3, SteadyOnCourse
<1> QED
  BY <1>0, <1>1, <1>2, <1>3, SteadyStep

\* A walk that ends undisturbed has no folder left to go through, so everything it has reached
\* is left out, contested, or the same on both sides.
LEMMA EndsAlike ==
    ASSUME Typed, Shaped, Course, [Next]_vars,
           calm', on["walk"], ~on'["walk"], ~cancelled["walk"], backoff = {}, NEW x \in Items
    PROVE  \/ Excluded(x, skips["walk"])
           \/ x \in Files /\ Contested(x)
           \/ EntryAt(tree["here"], x) = EntryAt(tree["there"], x)
<1>0. JobsShaped /\ on \in [Runs -> BOOLEAN]
  BY DEF Shaped, Typed, RunsTyped
<1>1. End("walk")
  <2>1. ASSUME NEW w \in Workers, Thread(w) PROVE FALSE
    BY <1>0, <2>1, ThreadsAreLocal DEF ThreadLocal
  <2>2. ~StartWalk /\ ~StartBurst /\ ~Environment
    <3>1. ~StartWalk
      BY Bounds DEF StartWalk, Begin
    <3> QED
      BY <3>1, WhatDisturbs, Zenon DEF Environment
  <2>3. ~UNCHANGED vars
    BY DEF vars, runs
  <2>4. PICK r \in Runs : NextLevel(r) \/ End(r)
    BY <2>1, <2>2, <2>3 DEF Next, Engine, RunStep
  <2>5. End(r)
    BY <2>4 DEF NextLevel
  <2>6. r = "walk"
    <3>1. on' = [on EXCEPT ![r] = FALSE]
      BY <2>5 DEF End
    <3> QED
      BY <1>0, <3>1, Bounds
  <2> QED
    BY <2>5, <2>6
<1>2. Undisturbing /\ AllFree("walk") /\ queue["walk"] = {} /\ next["walk"] = {}
  BY <1>1 DEF End, Undisturbing
<1>3. OnCourse
  BY <1>2 DEF Course
<1>4. Ahead = {}
  BY <1>2 DEF Ahead, AllFree, Busy
<1>5. Reached(x)
  BY <1>3 DEF OnCourse
<1>6. Agree(x) => EntryAt(tree["here"], x) = EntryAt(tree["there"], x)
  BY SameEntry DEF Agree
<1> QED
  BY <1>4, <1>5, <1>6 DEF Reached

\* Of any tree, any number of threads, and with bursts beside the walk or without: a walk that
\* nothing disturbed leaves both sides alike (run_sync_streaming: every folder is listed on both
\* sides, what it plans is applied, and the folders of either side are queued for the next level).
\* The settings carry deletions over; otherwise what one side has deleted stays on the other.
THEOREM CalmWalkEndsAlike ==
    ASSUME C.propagate
    PROVE  Spec => CalmWalkAgrees
<1> DEFINE Inv == Typed /\ Shaped /\ Apart /\ TreesWF /\ Course
           Ends == calm' /\ on["walk"] /\ ~on'["walk"] /\ ~cancelled["walk"] /\ backoff = {} =>
                       \A x \in Items : \/ Excluded(x, skips["walk"])
                                        \/ x \in Files /\ Contested(x)
                                        \/ EntryAt(tree["here"], x) = EntryAt(tree["there"], x)
<1>1. Init => Inv
  <2> SUFFICES ASSUME Init PROVE Inv
    OBVIOUS
  <2>1. \A s \in Sides : tree[s] = StartTree
    BY DEF Init
  <2>2. TreesWF
    BY <2>1, AboveIsLeast, TreeConstants DEF TreesWF, WellFormed, StartTree, Filed
  <2>3. Course
    BY DEF Init, Course, Undisturbing
  <2>4. Apart
    BY FreeIsTask DEF Init, Apart, ApartIn, Crew, Busy
  <2> QED
    BY <2>2, <2>3, <2>4, InitTyped, InitShaped
<1>2. Inv /\ [Next]_vars => Inv'
  <2> SUFFICES ASSUME Inv, [Next]_vars PROVE Inv'
    OBVIOUS
  <2>1. JobsShaped
    BY DEF Shaped
  <2> QED
    BY <2>1, NextTyped, NextShaped, NextApart, NextTreesWF, NextCourse
<1>3. Inv /\ [Next]_vars => [Ends]_vars
  BY EndsAlike
<1> QED
  BY <1>1, <1>2, <1>3, PTL DEF Spec, CalmWalkAgrees
=============================================================================
