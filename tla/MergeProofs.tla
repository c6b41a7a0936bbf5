----------------------------- MODULE MergeProofs -----------------------------
(***************************************************************************)
(* The three-way merge is sound for every set of contents, whatever their  *)
(* sizes, and every modification time: what MCMerge states of the verdicts *)
(* holds of all of them, not of the small instance alone.  Each lemma is a *)
(* case analysis of Judge, one case for each pair of changes.              *)
(***************************************************************************)
EXTENDS MCMerge, TLAPS

Changes == {"absent", "created", "deleted", "unchanged", "modified"}

\* An entry of the input, or none.
LEMMA InputTypes ==
    ASSUME input \in Inputs
    PROVE  /\ input.c \in Settings
           /\ input.l \in Entries \cup {Nil}
           /\ input.r \in Entries \cup {Nil}
           /\ input.b \in Entries \cup {Nil}
           /\ \A e \in {input.l, input.r, input.b} : e # Nil /\ e.dir => e = Folder
           /\ input.l # Nil /\ ~input.l.dir => /\ input.l.t # NoTime
                                               /\ input.l.h = (input.c.compare = "sha1")
<1>1. PICK c \in Settings : input \in [l : Locals(c), r : Remotes, b : Remotes, c : {c}]
  BY DEF Inputs
<1>2. /\ input.c = c /\ input.l \in Locals(c)
      /\ input.r \in Remotes /\ input.b \in Remotes
  BY <1>1
<1>3. Times \cup {NoTime} \subseteq Nat
  BY TimesAssumption DEF NoTime
<1>4. ASSUME NEW times \in SUBSET Nat, NEW hashed \in SUBSET BOOLEAN,
             NEW e \in Files(times, hashed)
      PROVE  e \in Entries /\ ~e.dir /\ e # Nil /\ e.t \in times /\ e.h \in hashed
  BY NilAssumption DEF Files, Entries
<1>5. Folder \in Entries /\ Folder.dir
  BY FolderAssumption DEF Folder
<1>6. input.l \in Files(Times, {c.compare = "sha1"}) \cup {Folder, Nil}
  BY <1>2 DEF Locals
<1>7. /\ input.r \in Files(Times \cup {NoTime}, BOOLEAN) \cup {Folder, Nil}
      /\ input.b \in Files(Times \cup {NoTime}, BOOLEAN) \cup {Folder, Nil}
  BY <1>2 DEF Remotes
<1>8. /\ input.l \in Entries \cup {Nil}
      /\ input.l # Nil /\ input.l.dir => input.l = Folder
      /\ input.l # Nil /\ ~input.l.dir => /\ input.l.t # NoTime
                                          /\ input.l.h = (input.c.compare = "sha1")
  <2>1. CASE input.l \in Files(Times, {c.compare = "sha1"})
    <3>1. /\ input.l \in Entries /\ ~input.l.dir
          /\ input.l.t \in Times /\ input.l.h \in {c.compare = "sha1"}
      BY <1>3, <1>4, <2>1
    <3> QED
      BY <1>2, <3>1, TimesAssumption
  <2>2. CASE input.l \in {Folder, Nil}
    BY <1>5, <2>2
  <2> QED
    BY <1>6, <2>1, <2>2
<1>9. ASSUME NEW e \in Files(Times \cup {NoTime}, BOOLEAN) \cup {Folder, Nil}
      PROVE  e \in Entries \cup {Nil} /\ (e # Nil /\ e.dir => e = Folder)
  BY <1>3, <1>4, <1>5
<1> QED
  BY <1>2, <1>7, <1>8, <1>9

\* What a change says of the entry and its row.
LEMMA ClassifyMeans ==
    ASSUME NEW e, NEW b, NEW m
    PROVE  /\ Classify(e, b, m) \in Changes
           /\ Classify(e, b, m) = "absent" <=> e = Nil /\ b = Nil
           /\ Classify(e, b, m) = "created" <=> e # Nil /\ b = Nil
           /\ Classify(e, b, m) = "deleted" <=> e = Nil /\ b # Nil
           /\ Classify(e, b, m) = "unchanged" <=> e # Nil /\ b # Nil /\ SameContent(e, b, m)
           /\ Classify(e, b, m) = "modified" <=> e # Nil /\ b # Nil /\ ~SameContent(e, b, m)
<1>1. CASE e = Nil /\ b = Nil
  BY <1>1 DEF Classify, Changes
<1>2. CASE e # Nil /\ b = Nil
  BY <1>2 DEF Classify, Changes
<1>3. CASE e = Nil /\ b # Nil
  BY <1>3 DEF Classify, Changes
<1>4. CASE e # Nil /\ b # Nil
  BY <1>4 DEF Classify, Changes
<1> QED
  BY <1>1, <1>2, <1>3, <1>4


\* Digesting a local file gives the same file, with its digest.
LEMMA DigestKeeps ==
    ASSUME NEW l \in Entries \cup {Nil}, NEW r, NEW lc, NEW rc
    PROVE  LET w == WithDigest(l, r, lc, rc) IN
           /\ w \in {l, WithDigest(l, r, "modified", "modified")}
           /\ l = Nil => w = Nil
           /\ l # Nil => /\ w \in Entries /\ w # Nil
                         /\ w.dir = l.dir /\ w.v = l.v /\ w.t = l.t
                         /\ w.h = l.h \/ (~l.dir /\ w.h /\ r # Nil /\ ~r.dir /\ r.h)
<1> DEFINE d == [l EXCEPT !.h = TRUE]
<1>1. CASE l = Nil
  BY <1>1 DEF WithDigest
<1>2. CASE l # Nil
  <2>1. l \in Entries
    BY <1>2
  <2>2. d \in Entries /\ d.dir = l.dir /\ d.v = l.v /\ d.t = l.t /\ d.h
    BY <2>1 DEF Entries
  <2>3. d # Nil
    BY <2>2, NilAssumption
  <2>4. CASE WithDigest(l, r, lc, rc) = l
    BY <1>2, <2>1, <2>4
  <2>5. CASE /\ WithDigest(l, r, lc, rc) = d
             /\ r # Nil /\ lc \in Edited /\ rc \in Edited /\ ~l.dir /\ ~r.dir
             /\ r.h /\ Size[l.v] = Size[r.v] /\ Size[l.v] > 0
    <3>1. WithDigest(l, r, "modified", "modified") = d
      BY <1>2, <2>5 DEF WithDigest, Edited
    <3> DEFINE w == WithDigest(l, r, lc, rc)
    <3>2. w = d /\ w = WithDigest(l, r, "modified", "modified")
      BY <2>5, <3>1
    <3> HIDE DEF d, w
    <3>3. w \in Entries /\ w # Nil /\ w.dir = l.dir /\ w.v = l.v /\ w.t = l.t /\ w.h
      BY <2>2, <2>3, <3>2
    <3> QED
      BY <1>2, <2>5, <3>2, <3>3 DEF w
  <2> QED
    BY <2>4, <2>5 DEF WithDigest
<1> QED
  BY <1>1, <1>2

\* A conflict is settled as the settings say.
LEMMA ConflictMeans ==
    ASSUME NEW l, NEW r, NEW c
    PROVE  LET both == EmitConflict(l, r, c) IN
           /\ c.conflict = "skip" => both = Verdict("skip", Nil)
           /\ c.conflict = "newer" /\ l.t # NoTime /\ r.t # NoTime =>
                 both = IF l.t >= r.t THEN Verdict("upload", l) ELSE Verdict("download", r)
           /\ c.conflict \notin {"skip", "newer"} => both = Verdict("conflict", r)
           /\ c.conflict = "newer" /\ (l.t = NoTime \/ r.t = NoTime) =>
                 both = Verdict("conflict", r)
BY DEF EmitConflict, EmitUpload, EmitDownload

\* The verdict on a file, for each pair of changes.
LEMMA FileMeans ==
    ASSUME NEW lc \in Changes, NEW rc \in Changes, NEW l, NEW r, NEW c
    PROVE  LET D == DecideFile(lc, rc, l, r, c) IN
           /\ lc \in Edited /\ rc \in {"unchanged", "absent"} => D = Verdict("upload", l)
           /\ rc \in Edited /\ lc \in {"unchanged", "absent"} => D = Verdict("download", r)
           /\ lc \in Edited /\ rc \in Edited => D = BothEdited(l, r, c)
           /\ lc = "deleted" /\ rc = "unchanged" => D = EmitDeleteRemote(r, c)
           /\ rc = "deleted" /\ lc = "unchanged" => D = EmitDeleteLocal(l, c)
           /\ lc = "deleted" /\ rc = "deleted" => D = Verdict("none", Nil)
           /\ lc = "deleted" /\ rc = "modified" => D = Verdict("download", r)
           /\ rc = "deleted" /\ lc = "modified" => D = Verdict("upload", l)
           /\ \/ lc = "absent" /\ rc \in {"absent", "unchanged", "deleted"}
              \/ lc = "deleted" /\ rc \in {"absent", "created"}
              \/ lc = "created" /\ rc = "deleted"
              \/ lc = "unchanged" /\ rc \in {"absent", "unchanged"}
              => D = Verdict("none", Either(l, r))
<1> USE DEF DecideFile, Edited, EmitUpload, EmitDownload
<1>1. CASE lc = "absent"
  BY <1>1 DEF Changes
<1>2. CASE lc = "created"
  BY <1>2 DEF Changes
<1>3. CASE lc = "deleted"
  BY <1>3 DEF Changes
<1>4. CASE lc = "unchanged"
  BY <1>4 DEF Changes
<1>5. CASE lc = "modified"
  BY <1>5 DEF Changes
<1> QED
  BY <1>1, <1>2, <1>3, <1>4, <1>5 DEF Changes


\* The verdict on a folder, for each pair of changes.
LEMMA DirMeans ==
    ASSUME NEW lc \in Changes, NEW rc \in Changes, NEW l, NEW r, NEW c,
           lc = "created" => l # Nil, rc = "created" => r # Nil
    PROVE  LET D == DecideDir(lc, rc, l, r, c) IN
           /\ lc = "created" /\ r = Nil => D = Verdict("mkdirRemote", l)
           /\ rc = "created" /\ l = Nil => D = Verdict("mkdirLocal", r)
           /\ lc = "deleted" /\ rc = "unchanged" =>
                 D = IF c.propagate THEN Verdict("deleteRemote", Nil) ELSE Verdict("none", r)
           /\ rc = "deleted" /\ lc = "unchanged" =>
                 D = IF c.propagate THEN Verdict("deleteLocal", Nil) ELSE Verdict("none", l)
           /\ \/ D = Verdict("none", Either(l, r))
              \/ lc = "created" /\ r = Nil
              \/ rc = "created" /\ l = Nil
              \/ lc = "deleted" /\ rc = "unchanged"
              \/ rc = "deleted" /\ lc = "unchanged"
<1>1. CASE lc = "created" /\ r = Nil
  BY <1>1 DEF DecideDir
<1>2. CASE rc = "created" /\ l = Nil
  BY <1>2 DEF DecideDir
<1>3. CASE lc = "deleted" /\ rc = "unchanged"
  BY <1>3 DEF DecideDir
<1>4. CASE rc = "deleted" /\ lc = "unchanged"
  BY <1>4 DEF DecideDir
<1>5. CASE /\ ~(lc = "created" /\ r = Nil) /\ ~(rc = "created" /\ l = Nil)
           /\ ~(lc = "deleted" /\ rc = "unchanged") /\ ~(rc = "deleted" /\ lc = "unchanged")
  BY <1>5 DEF DecideDir
<1> QED
  BY <1>1, <1>2, <1>3, <1>4, <1>5

\* The four ways a path is judged, by the kind of what is there.
JudgedAs(l, r, b, c, V) ==
    LET lc == Classify(l, b, c.compare)
        rc == Classify(r, b, c.compare)
        w  == WithDigest(l, r, lc, rc)
    IN  \/ lc = "unchanged" /\ rc = "unchanged" /\ V = Verdict("none", l)
        \/ ~(lc = "unchanged" /\ rc = "unchanged") /\ TypeClash(l, r) /\ V = Verdict("clash", Nil)
        \/ /\ ~(lc = "unchanged" /\ rc = "unchanged") /\ ~TypeClash(l, r)
           /\ IsDir(l, r, b) /\ V = DecideDir(lc, rc, w, r, c)
        \/ /\ ~(lc = "unchanged" /\ rc = "unchanged") /\ ~TypeClash(l, r)
           /\ ~IsDir(l, r, b) /\ V = DecideFile(lc, rc, w, r, c)

LEMMA JudgeMeans ==
    ASSUME NEW l \in Entries \cup {Nil}, NEW r \in Entries \cup {Nil},
           NEW b \in Entries \cup {Nil}, NEW c
    PROVE  JudgedAs(l, r, b, c, Judge(l, r, b, c))
<1> DEFINE lc == Classify(l, b, c.compare)
           rc == Classify(r, b, c.compare)
           w  == WithDigest(l, r, lc, rc)
<1>1. Judge(l, r, b, c) = Decide(lc, rc, w, r, b, c)
  BY DEF Judge
<1>2. /\ w = Nil <=> l = Nil
      /\ l # Nil => w.dir = l.dir
  BY DigestKeeps
<1>3. TypeClash(w, r) = TypeClash(l, r)
  BY <1>2 DEF TypeClash
<1>4. IsDir(w, r, b) = IsDir(l, r, b)
  BY <1>2 DEF IsDir, Either
<1>5. lc = "unchanged" => l # Nil /\ w = l
  BY ClassifyMeans DEF WithDigest, Edited
<1> HIDE DEF lc, rc, w
<1>6. CASE lc = "unchanged" /\ rc = "unchanged"
  <2>1. Judge(l, r, b, c) = Verdict("none", l)
    BY <1>1, <1>5, <1>6 DEF Decide, Either
  <2> QED
    BY <1>6, <2>1 DEF JudgedAs, lc, rc
<1>7. CASE ~(lc = "unchanged" /\ rc = "unchanged") /\ TypeClash(w, r)
  <2>1. Judge(l, r, b, c) = Verdict("clash", Nil)
    BY <1>1, <1>7 DEF Decide
  <2> QED
    BY <1>3, <1>7, <2>1 DEF JudgedAs, lc, rc
<1>8. CASE ~(lc = "unchanged" /\ rc = "unchanged") /\ ~TypeClash(w, r)
  <2>1. Judge(l, r, b, c) = IF IsDir(w, r, b) THEN DecideDir(lc, rc, w, r, c)
                                             ELSE DecideFile(lc, rc, w, r, c)
    BY <1>1, <1>8 DEF Decide
  <2> QED
    BY <1>3, <1>4, <1>8, <2>1 DEF JudgedAs, lc, rc, w
<1> QED
  BY <1>6, <1>7, <1>8

\* Verdicts with one operation or row are told apart by them.
LEMMA VerdictParts ==
    ASSUME NEW op, NEW row
    PROVE  Verdict(op, row).op = op /\ Verdict(op, row).row = row
BY DEF Verdict

-----------------------------------------------------------------------------
(* The verdict is what Judge makes of the input, and the input stays.        *)

MergeIInv == input \in Inputs /\ (Judged => verdict = Judge(input.l, input.r, input.b, input.c))

LEMMA MergeInvariant == MergeSpec => []MergeIInv
<1>1. MergeInit => MergeIInv
  BY DEF MergeInit, MergeIInv, Judged
<1>2. MergeIInv /\ [Evaluate]_mergeVars => MergeIInv'
  BY DEF MergeIInv, Evaluate, mergeVars, Judged
<1> QED
  BY <1>1, <1>2, PTL DEF MergeSpec

\* The changes of both sides, the local entry with its digest, and what they say.
LEMMA Judgement ==
    ASSUME MergeIInv, Judged
    PROVE  LET l  == input.l
               r  == input.r
               b  == input.b
               lc == Classify(l, b, input.c.compare)
               rc == Classify(r, b, input.c.compare)
               w  == WithDigest(l, r, lc, rc)
           IN  /\ lc \in Changes /\ rc \in Changes
               /\ lc = "created" => w # Nil
               /\ rc = "created" => r # Nil
               /\ \/ lc = "unchanged" /\ rc = "unchanged" /\ verdict = Verdict("none", l)
                  \/ /\ ~(lc = "unchanged" /\ rc = "unchanged") /\ TypeClash(l, r)
                     /\ verdict = Verdict("clash", Nil)
                  \/ /\ ~(lc = "unchanged" /\ rc = "unchanged") /\ ~TypeClash(l, r)
                     /\ IsDir(l, r, b) /\ verdict = DecideDir(lc, rc, w, r, input.c)
                  \/ /\ ~(lc = "unchanged" /\ rc = "unchanged") /\ ~TypeClash(l, r)
                     /\ ~IsDir(l, r, b) /\ verdict = DecideFile(lc, rc, w, r, input.c)
<1>1. /\ input.l \in Entries \cup {Nil} /\ input.r \in Entries \cup {Nil}
      /\ input.b \in Entries \cup {Nil}
      /\ verdict = Judge(input.l, input.r, input.b, input.c)
  BY InputTypes DEF MergeIInv
<1> DEFINE lc == Classify(input.l, input.b, input.c.compare)
           rc == Classify(input.r, input.b, input.c.compare)
           w  == WithDigest(input.l, input.r, lc, rc)
<1>2. lc \in Changes /\ rc \in Changes
  BY ClassifyMeans
<1>3. lc = "created" => w # Nil
  BY <1>1, ClassifyMeans, DigestKeeps
<1>4. rc = "created" => input.r # Nil
  BY ClassifyMeans
<1>5. JudgedAs(input.l, input.r, input.b, input.c, verdict)
  BY <1>1, JudgeMeans
<1> QED
  BY <1>2, <1>3, <1>4, <1>5 DEF JudgedAs

\* What the verdict on two files is when both have changed.
LEMMA BothMeans ==
    ASSUME NEW w, NEW r, NEW c \in Settings
    PROVE  LET B == BothEdited(w, r, c) IN
           \/ /\ B = Verdict("none", w)
              /\ \/ SameContent(w, r, c.compare)
                 \/ Size[w.v] = Size[r.v] /\ Size[w.v] > 0 /\ SameDigest(w, r)
           \/ /\ ~SameContent(w, r, c.compare)
              /\ ~(Size[w.v] = Size[r.v] /\ Size[w.v] > 0 /\ SameDigest(w, r))
              /\ \/ c.conflict = "skip" /\ B = Verdict("skip", Nil)
                 \/ /\ c.conflict = "newer" /\ w.t # NoTime /\ r.t # NoTime
                    /\ B = IF w.t >= r.t THEN Verdict("upload", w) ELSE Verdict("download", r)
                 \/ /\ c.conflict = "keep_both" \/ (c.conflict = "newer" /\ (w.t = NoTime \/ r.t = NoTime))
                    /\ B = Verdict("conflict", r)
<1>1. c.conflict \in {"keep_both", "newer", "skip"}
  BY DEF Settings
<1>2. CASE SameContent(w, r, c.compare) \/ (Size[w.v] = Size[r.v] /\ Size[w.v] > 0 /\ SameDigest(w, r))
  BY <1>2 DEF BothEdited
<1>3. CASE ~(SameContent(w, r, c.compare) \/ (Size[w.v] = Size[r.v] /\ Size[w.v] > 0 /\ SameDigest(w, r)))
  <2>1. BothEdited(w, r, c) = EmitConflict(w, r, c)
    BY <1>3 DEF BothEdited
  <2> HIDE DEF SameContent, SameDigest
  <2> QED
    BY <1>1, <1>3, <2>1, ConflictMeans
<1> QED
  BY <1>2, <1>3

\* Whatever is judged is an input of the kind the two listings and the database give, and it is
\* judged once and then once more, as by a second run.
THEOREM MergeTypeCorrect == MergeSpec => []MergeTypeOK
<1>1. ASSUME MergeIInv PROVE MergeTypeOK
  <2> DEFINE lc == Classify(input.l, input.b, input.c.compare)
             rc == Classify(input.r, input.b, input.c.compare)
             w  == WithDigest(input.l, input.r, lc, rc)
             OpsOf == {"none", "noop", "skip", "clash", "upload", "download", "conflict",
                       "deleteLocal", "deleteRemote", "mkdirLocal", "mkdirRemote"}
             RowsOf == {Nil, input.l, input.r, w}
             Good(v) == v.op \in OpsOf /\ v.row \in RowsOf
  <2>1. input.c \in Settings /\ input.l \in Entries \cup {Nil}
    BY <1>1, InputTypes DEF MergeIInv
  <2>2. w \in {input.l, WithDigest(input.l, input.r, "modified", "modified")}
    BY <2>1, DigestKeeps
  <2>3. ASSUME NEW op \in OpsOf, NEW row \in RowsOf PROVE Good(Verdict(op, row))
    BY VerdictParts
  <2>4. Either(w, input.r) \in RowsOf
    BY DEF Either
  <2>5. Good(BothEdited(w, input.r, input.c))
    BY <2>1, <2>3, BothMeans
  <2>6. /\ Good(EmitDeleteRemote(input.r, input.c))
        /\ Good(EmitDeleteLocal(w, input.c))
    BY <2>3 DEF EmitDeleteRemote, EmitDeleteLocal
  <2>7. ASSUME Judged PROVE Good(verdict)
    <3>1. /\ lc \in Changes /\ rc \in Changes
          /\ lc = "created" => w # Nil
          /\ rc = "created" => input.r # Nil
          /\ \/ verdict = Verdict("none", input.l)
             \/ verdict = Verdict("clash", Nil)
             \/ verdict = DecideDir(lc, rc, w, input.r, input.c)
             \/ verdict = DecideFile(lc, rc, w, input.r, input.c)
      BY <1>1, <2>7, Judgement
    <3> HIDE DEF lc, rc, w, Good, OpsOf
    <3>2. Good(DecideDir(lc, rc, w, input.r, input.c))
      BY <2>3, <2>4, <3>1, DirMeans DEF OpsOf, RowsOf
    <3>3. Good(DecideFile(lc, rc, w, input.r, input.c))
      <4>1. CASE lc \in Edited
        BY <2>3, <2>4, <2>5, <3>1, <4>1, FileMeans DEF OpsOf, RowsOf, Edited, Changes
      <4>2. CASE lc = "absent"
        BY <2>3, <2>4, <3>1, <4>2, FileMeans DEF OpsOf, RowsOf, Edited, Changes
      <4>3. CASE lc = "deleted"
        BY <2>3, <2>4, <2>6, <3>1, <4>3, FileMeans DEF OpsOf, RowsOf, Edited, Changes
      <4>4. CASE lc = "unchanged"
        BY <2>3, <2>4, <2>6, <3>1, <4>4, FileMeans DEF OpsOf, RowsOf, Edited, Changes
      <4> QED
        BY <3>1, <4>1, <4>2, <4>3, <4>4 DEF Edited, Changes
    <3> QED
      BY <2>3, <3>1, <3>2, <3>3 DEF OpsOf, RowsOf
  <2> QED
    BY <2>1, <2>2, <2>7 DEF MergeTypeOK
<1> QED
  BY <1>1, MergeInvariant, PTL


-----------------------------------------------------------------------------
(* Soundness of the verdict.                                                 *)

\* Only four operations touch the local side, and three the remote one.
LEMMA SidesStay ==
    /\ verdict.op \in {"none", "noop", "skip", "clash", "upload", "mkdirRemote", "deleteRemote"}
          => LocalAfter = input.l
    /\ verdict.op \in {"none", "noop", "skip", "clash", "download", "conflict", "mkdirLocal",
                       "deleteLocal"}
          => RemoteAfter = input.r
BY DEF LocalAfter, RemoteAfter

\* Two files: what both sides' changes come to.
LEMMA BothJudged ==
    ASSUME MergeIInv, Judged, IsFile(input.l), IsFile(input.r),
           Classify(input.l, input.b, input.c.compare) \in Edited,
           Classify(input.r, input.b, input.c.compare) \in Edited
    PROVE  \/ verdict.op \in {"none", "skip", "conflict"}
           \/ verdict.op \in {"upload", "download"} /\ input.c.conflict = "newer"
<1> DEFINE lc == Classify(input.l, input.b, input.c.compare)
           rc == Classify(input.r, input.b, input.c.compare)
           w  == WithDigest(input.l, input.r, lc, rc)
<1>1. /\ input.c \in Settings
      /\ input.l \in Entries \cup {Nil} /\ input.r \in Entries \cup {Nil}
  BY InputTypes DEF MergeIInv
<1>2. ~TypeClash(input.l, input.r) /\ ~IsDir(input.l, input.r, input.b)
  BY <1>1 DEF TypeClash, IsDir, Either, IsFile, Entries
<1>3. ~(lc = "unchanged" /\ rc = "unchanged")
  BY DEF Edited
<1>4. lc \in Changes /\ rc \in Changes /\ verdict = DecideFile(lc, rc, w, input.r, input.c)
  BY <1>2, <1>3, Judgement
<1> HIDE DEF w
<1>5. verdict = BothEdited(w, input.r, input.c)
  BY <1>4, FileMeans
<1>6. \/ verdict = Verdict("none", w) \/ verdict = Verdict("skip", Nil)
      \/ verdict = Verdict("conflict", input.r)
      \/ /\ input.c.conflict = "newer"
         /\ verdict \in {Verdict("upload", w), Verdict("download", input.r)}
  BY <1>1, <1>5, BothMeans
<1> QED
  BY <1>6, VerdictParts

LEMMA LocalSurvives ==
    ASSUME MergeIInv, Judged, Changed(input.l)
    PROVE  input.l.v \in Surviving \/ (input.c.conflict = "newer" /\ Changed(input.r))
<1> DEFINE l  == input.l
           r  == input.r
           lc == Classify(l, input.b, input.c.compare)
           rc == Classify(r, input.b, input.c.compare)
           w  == WithDigest(l, r, lc, rc)
<1>1. IsFile(l) /\ lc \in Edited
  BY DEF Changed
<1>2. LocalAfter = l => l.v \in Surviving
  BY <1>1 DEF Surviving, Contents
<1>3. CASE TypeClash(l, r)
  <2>1. verdict = Verdict("clash", Nil)
    BY <1>1, <1>3, Judgement DEF Edited
  <2> QED
    BY <1>2, <2>1, SidesStay, VerdictParts
<1>4. CASE ~TypeClash(l, r)
  <2>1. ~IsDir(l, r, input.b)
    BY <1>1 DEF IsDir, Either, IsFile
  <2>2. lc \in Changes /\ rc \in Changes /\ verdict = DecideFile(lc, rc, w, r, input.c)
    BY <1>1, <1>4, <2>1, Judgement DEF Edited
  <2>3. CASE rc \in Edited
    <3>1. IsFile(r)
      BY <1>1, <1>4, <2>3, ClassifyMeans DEF TypeClash, IsFile, Edited
    <3>2. Changed(r)
      BY <2>3, <3>1 DEF Changed
    <3>3. \/ verdict.op \in {"none", "skip", "conflict"}
          \/ input.c.conflict = "newer"
      BY <1>1, <2>3, <3>1, BothJudged
    <3>4. verdict.op = "conflict" => l.v \in Surviving
      BY DEF Surviving
    <3> QED
      BY <1>2, <3>2, <3>3, <3>4, SidesStay
  <2>4. CASE rc \in {"unchanged", "absent"}
    <3>1. verdict = Verdict("upload", w)
      BY <1>1, <2>2, <2>4, FileMeans
    <3> QED
      BY <1>2, <3>1, SidesStay, VerdictParts
  <2>5. CASE rc = "deleted"
    <3>1. lc = "modified"
      BY <1>1, <2>5, ClassifyMeans DEF Edited
    <3>2. verdict = Verdict("upload", w)
      BY <2>2, <2>5, <3>1, FileMeans
    <3> QED
      BY <1>2, <3>2, SidesStay, VerdictParts
  <2> QED
    BY <2>2, <2>3, <2>4, <2>5 DEF Changes, Edited
<1> QED
  BY <1>3, <1>4

LEMMA RemoteSurvives ==
    ASSUME MergeIInv, Judged, Changed(input.r)
    PROVE  input.r.v \in Surviving \/ (input.c.conflict = "newer" /\ Changed(input.l))
<1> DEFINE l  == input.l
           r  == input.r
           lc == Classify(l, input.b, input.c.compare)
           rc == Classify(r, input.b, input.c.compare)
           w  == WithDigest(l, r, lc, rc)
<1>1. IsFile(r) /\ rc \in Edited
  BY DEF Changed
<1>2. RemoteAfter = r => r.v \in Surviving
  BY <1>1 DEF Surviving, Contents
<1>3. CASE TypeClash(l, r)
  <2>1. verdict = Verdict("clash", Nil)
    BY <1>1, <1>3, Judgement DEF Edited
  <2> QED
    BY <1>2, <2>1, SidesStay, VerdictParts
<1>4. CASE ~TypeClash(l, r)
  <2>1. ~IsDir(l, r, input.b)
    BY <1>1, <1>4 DEF IsDir, Either, IsFile, TypeClash
  <2>2. lc \in Changes /\ rc \in Changes /\ verdict = DecideFile(lc, rc, w, r, input.c)
    BY <1>1, <1>4, <2>1, Judgement DEF Edited
  <2>3. CASE lc \in Edited
    <3>1. IsFile(l)
      BY <1>1, <1>4, <2>3, ClassifyMeans DEF TypeClash, IsFile, Edited
    <3>2. Changed(l)
      BY <2>3, <3>1 DEF Changed
    <3>3. \/ verdict.op \in {"none", "skip", "conflict"}
          \/ input.c.conflict = "newer"
      BY <1>1, <2>3, <3>1, BothJudged
    <3> QED
      BY <1>2, <3>2, <3>3, SidesStay
  <2>4. CASE lc \in {"unchanged", "absent"}
    <3>1. verdict = Verdict("download", r)
      BY <1>1, <2>2, <2>4, FileMeans
    <3> QED
      BY <1>2, <3>1, SidesStay, VerdictParts
  <2>5. CASE lc = "deleted"
    <3>1. rc = "modified"
      BY <1>1, <2>5, ClassifyMeans DEF Edited
    <3>2. verdict = Verdict("download", r)
      BY <2>2, <2>5, <3>1, FileMeans
    <3> QED
      BY <1>2, <3>2, SidesStay, VerdictParts
  <2> QED
    BY <2>2, <2>3, <2>4, <2>5 DEF Changes, Edited
<1> QED
  BY <1>3, <1>4

LEMMA EditsSurvive == MergeIInv => ChangedContentSurvives
<1> SUFFICES ASSUME MergeIInv, Judged, NEW e \in {input.l, input.r}, Changed(e)
             PROVE  \/ e.v \in Surviving
                    \/ input.c.conflict = "newer" /\ Changed(input.l) /\ Changed(input.r)
  BY DEF ChangedContentSurvives
<1>1. CASE e = input.l
  BY <1>1, LocalSurvives
<1>2. CASE e = input.r
  BY <1>2, RemoteSurvives
<1> QED
  BY <1>1, <1>2


\* The digest is asked for when both sides have changed the file, and only then.
LEMMA DigestWhenBothChanged ==
    ASSUME NEW l, NEW r, NEW lc, NEW rc, lc \notin Edited \/ rc \notin Edited
    PROVE  WithDigest(l, r, lc, rc) = l
BY DEF WithDigest

\* Comparing contents is reflexive and symmetric, and the same with more digests than
\* the mode asks for.
LEMMA SameContentFacts ==
    ASSUME NEW a \in Entries, NEW b \in Entries, NEW m
    PROVE  /\ SameContent(a, a, m)
           /\ SameContent(a, b, m) => SameContent(b, a, m)
BY DEF SameContent, Entries

\* With all the signals of the mode, two files that are as one row are as each other.
LEMMA SameThroughRow ==
    ASSUME NEW a \in Entries, NEW b \in Entries, NEW row \in Entries, NEW m,
           ~a.dir, ~b.dir, ~row.dir,
           \A e \in {a, b, row} : IF m = "sha1" THEN e.h ELSE e.t # NoTime,
           SameContent(a, row, m), SameContent(b, row, m)
    PROVE  SameContent(a, b, m)
<1>1. CASE m = "sha1"
  BY <1>1 DEF SameContent, Entries
<1>2. CASE m # "sha1"
  BY <1>2 DEF SameContent, Entries
<1> QED
  BY <1>1, <1>2

\* What the verdict is where no folder is involved.
LEMMA FilesJudged ==
    ASSUME MergeIInv, Judged, OnlyFiles
    PROVE  LET l  == input.l
               r  == input.r
               lc == Classify(l, input.b, input.c.compare)
               rc == Classify(r, input.b, input.c.compare)
           IN  \/ lc = "unchanged" /\ rc = "unchanged" /\ verdict = Verdict("none", l)
               \/ l = Nil /\ r = Nil /\ verdict = Verdict("none", Nil)
               \/ IsFile(l) /\ verdict = Verdict("upload", l)
               \/ IsFile(r) /\ verdict = Verdict("download", r)
               \/ /\ lc \in Edited /\ rc \in Edited
                  /\ verdict = BothEdited(WithDigest(l, r, lc, rc), r, input.c)
               \/ l = Nil /\ rc = "unchanged" /\ verdict = EmitDeleteRemote(r, input.c)
               \/ r = Nil /\ lc = "unchanged" /\ verdict = EmitDeleteLocal(l, input.c)
<1> DEFINE l  == input.l
           r  == input.r
           lc == Classify(l, input.b, input.c.compare)
           rc == Classify(r, input.b, input.c.compare)
           w  == WithDigest(l, r, lc, rc)
<1>1. \A e \in {l, r, input.b} : e = Nil \/ IsFile(e)
  BY InputTypes DEF MergeIInv, OnlyFiles, IsFile
<1>2. ~IsDir(l, r, input.b)
  BY <1>1 DEF IsDir, Either, IsFile
<1>3. l \in Entries \cup {Nil} /\ r \in Entries \cup {Nil}
  BY InputTypes DEF MergeIInv
<1>4. ~TypeClash(l, r)
  BY <1>1, <1>3 DEF TypeClash, IsFile, Entries
<1>5. /\ lc \in Changes /\ rc \in Changes
      /\ \/ lc = "unchanged" /\ rc = "unchanged" /\ verdict = Verdict("none", l)
         \/ ~(lc = "unchanged" /\ rc = "unchanged") /\ verdict = DecideFile(lc, rc, w, r, input.c)
  BY <1>2, <1>4, Judgement
<1>6. /\ lc \in {"absent", "deleted"} <=> l = Nil
      /\ rc \in {"absent", "deleted"} <=> r = Nil
      /\ lc \in {"absent", "created"} <=> input.b = Nil
      /\ rc \in {"absent", "created"} <=> input.b = Nil
  BY ClassifyMeans
<1>7. lc \notin Edited \/ rc \notin Edited => w = l
  BY DigestWhenBothChanged
<1>8. SUFFICES ASSUME ~(lc = "unchanged" /\ rc = "unchanged"),
                      verdict = DecideFile(lc, rc, w, r, input.c)
               PROVE  \/ l = Nil /\ r = Nil /\ verdict = Verdict("none", Nil)
                      \/ l # Nil /\ verdict = Verdict("upload", l)
                      \/ r # Nil /\ verdict = Verdict("download", r)
                      \/ lc \in Edited /\ rc \in Edited /\ verdict = BothEdited(w, r, input.c)
                      \/ l = Nil /\ rc = "unchanged" /\ verdict = EmitDeleteRemote(r, input.c)
                      \/ r = Nil /\ lc = "unchanged" /\ verdict = EmitDeleteLocal(l, input.c)
  BY <1>1, <1>5
<1> HIDE DEF lc, rc, w
<1>9. CASE lc = "absent"
  BY <1>5, <1>6, <1>7, <1>8, <1>9, FileMeans DEF Changes, Edited, Either
<1>10. CASE lc = "created"
  BY <1>5, <1>6, <1>7, <1>8, <1>10, FileMeans DEF Changes, Edited
<1>11. CASE lc = "deleted"
  BY <1>5, <1>6, <1>7, <1>8, <1>11, FileMeans DEF Changes, Edited
<1>12. CASE lc = "unchanged"
  BY <1>5, <1>6, <1>7, <1>8, <1>12, FileMeans DEF Changes, Edited
<1>13. CASE lc = "modified"
  BY <1>5, <1>6, <1>7, <1>8, <1>13, FileMeans DEF Changes, Edited
<1> QED
  BY <1>5, <1>9, <1>10, <1>11, <1>12, <1>13 DEF Changes

\* A file and its digested form have the same contents, as the mode sees them.
LEMMA DigestIsSame ==
    ASSUME NEW l \in Entries, NEW r \in Entries, NEW lc, NEW rc, NEW m, ~l.dir,
           m = "sha1" => l.h
    PROVE  LET w == WithDigest(l, r, lc, rc) IN
           /\ SameContent(l, w, m)
           /\ SameContent(w, r, m) => SameContent(l, r, m)
           /\ SameDigest(w, r) => l.v = r.v
<1> DEFINE w == WithDigest(l, r, lc, rc)
<1>1. w \in Entries /\ w.dir = l.dir /\ w.v = l.v /\ w.t = l.t
  BY NilAssumption, DigestKeeps
<1>2. w.h = l.h \/ w.h
  BY NilAssumption, DigestKeeps
<1> HIDE DEF w
<1>3. SameDigest(w, r) => l.v = r.v
  BY <1>1 DEF SameDigest
<1>4. CASE m = "sha1"
  BY <1>1, <1>2, <1>3, <1>4 DEF SameContent, Entries, w
<1>5. CASE m # "sha1"
  BY <1>1, <1>3, <1>5 DEF SameContent, Entries, w
<1> QED
  BY <1>4, <1>5 DEF w

LEMMA RowsAgree == MergeIInv => RowMeansAgreement
<1> SUFFICES ASSUME MergeIInv, Judged, Comparable, OnlyFiles, RowWithoutTransfer
             PROVE  /\ IsFile(input.l) /\ IsFile(input.r)
                    /\ SameContent(input.l, input.r, input.c.compare) \/ input.l.v = input.r.v
  BY DEF RowMeansAgreement
<1> DEFINE l  == input.l
           r  == input.r
           m  == input.c.compare
           lc == Classify(l, input.b, m)
           rc == Classify(r, input.b, m)
           w  == WithDigest(l, r, lc, rc)
<1>1. /\ input.c \in Settings
      /\ \A e \in {l, r, input.b} : e = Nil \/ (e \in Entries /\ IsFile(e))
  BY InputTypes DEF MergeIInv, OnlyFiles, IsFile
<1>2. verdict.op = "none" /\ verdict.row # Nil
  BY DEF RowWithoutTransfer
<1>3. CASE lc = "unchanged" /\ rc = "unchanged"
  <2>1. /\ l # Nil /\ r # Nil /\ input.b # Nil
        /\ SameContent(l, input.b, m) /\ SameContent(r, input.b, m)
    BY <1>3, ClassifyMeans
  <2>2. \A e \in {l, r, input.b} : e \in Entries /\ ~e.dir
    BY <1>1, <2>1 DEF IsFile
  <2>3. \A e \in {l, r, input.b} : IF m = "sha1" THEN e.h ELSE e.t # NoTime
    BY <1>1, <2>1 DEF Comparable
  <2> QED
    BY <1>1, <2>1, <2>2, <2>3, SameThroughRow
<1>4. CASE lc \in Edited /\ rc \in Edited /\ verdict = BothEdited(w, r, input.c)
  <2>1. l # Nil /\ r # Nil
    BY <1>4, ClassifyMeans DEF Edited
  <2>2. SameContent(w, r, m) \/ SameDigest(w, r)
    BY <1>1, <1>2, <1>4, BothMeans, VerdictParts
  <2>3. m = "sha1" => l.h
    BY <1>1, <2>1 DEF Comparable
  <2>4. l \in Entries /\ r \in Entries /\ IsFile(l) /\ IsFile(r)
    BY <1>1, <2>1
  <2> QED
    BY <2>2, <2>3, <2>4, DigestIsSame, SMTT(30) DEF IsFile
<1>5. /\ verdict # Verdict("none", Nil) /\ verdict # Verdict("upload", l)
      /\ verdict # Verdict("download", r)
      /\ verdict # EmitDeleteRemote(r, input.c) /\ verdict # EmitDeleteLocal(l, input.c)
  BY <1>2, VerdictParts DEF EmitDeleteRemote, EmitDeleteLocal
<1> QED
  BY <1>3, <1>4, <1>5, FilesJudged


-----------------------------------------------------------------------------
(* Neither side is preferred.                                                *)

LEMMA MirrorMeans ==
    /\ MirrorOp("upload") = "download" /\ MirrorOp("download") = "upload"
    /\ MirrorOp("deleteLocal") = "deleteRemote" /\ MirrorOp("deleteRemote") = "deleteLocal"
    /\ MirrorOp("mkdirLocal") = "mkdirRemote" /\ MirrorOp("mkdirRemote") = "mkdirLocal"
    /\ \A op \in {"none", "noop", "skip", "clash", "conflict"} : MirrorOp(op) = op
BY DEF MirrorOp

LEMMA MirroredDir ==
    ASSUME NEW lc \in Changes, NEW rc \in Changes, NEW l, NEW r, NEW c,
           lc = "created" => l # Nil, rc = "created" => r # Nil,
           c.propagate \in BOOLEAN
    PROVE  DecideDir(rc, lc, r, l, c).op = MirrorOp(DecideDir(lc, rc, l, r, c).op)
<1>1. CASE lc = "created" /\ r = Nil
  BY <1>1, DirMeans, MirrorMeans, VerdictParts
<1>2. CASE rc = "created" /\ l = Nil
  BY <1>2, DirMeans, MirrorMeans, VerdictParts
<1>3. CASE lc = "deleted" /\ rc = "unchanged"
  <2>1. CASE c.propagate
    BY <1>3, <2>1, DirMeans, MirrorMeans, VerdictParts
  <2>2. CASE ~c.propagate
    BY <1>3, <2>2, DirMeans, MirrorMeans, VerdictParts
  <2> QED
    BY <2>1, <2>2
<1>4. CASE rc = "deleted" /\ lc = "unchanged"
  <2>1. CASE c.propagate
    BY <1>4, <2>1, DirMeans, MirrorMeans, VerdictParts
  <2>2. CASE ~c.propagate
    BY <1>4, <2>2, DirMeans, MirrorMeans, VerdictParts
  <2> QED
    BY <2>1, <2>2
<1>5. CASE /\ ~(lc = "created" /\ r = Nil) /\ ~(rc = "created" /\ l = Nil)
           /\ ~(lc = "deleted" /\ rc = "unchanged") /\ ~(rc = "deleted" /\ lc = "unchanged")
  <2>1. DecideDir(lc, rc, l, r, c) = Verdict("none", Either(l, r))
    BY <1>5, DirMeans
  <2>2. DecideDir(rc, lc, r, l, c) = Verdict("none", Either(r, l))
    BY <1>5, DirMeans
  <2> QED
    BY <2>1, <2>2, MirrorMeans, VerdictParts
<1> QED
  BY <1>1, <1>2, <1>3, <1>4, <1>5

\* Two files that both changed, both with a digest or neither, and with times.
LEMMA MirroredBoth ==
    ASSUME NEW l \in Entries, NEW r \in Entries, NEW c \in Settings,
           l.t # NoTime, r.t # NoTime, c.conflict # "newer" \/ l.t # r.t
    PROVE  BothEdited(r, l, c).op = MirrorOp(BothEdited(l, r, c).op)
<1> DEFINE Same(a, b) == \/ SameContent(a, b, c.compare)
                         \/ Size[a.v] = Size[b.v] /\ Size[a.v] > 0 /\ SameDigest(a, b)
<1>1. Same(l, r) <=> Same(r, l)
  <2>1. SameContent(l, r, c.compare) <=> SameContent(r, l, c.compare)
    BY SameContentFacts
  <2>2. SameDigest(l, r) <=> SameDigest(r, l)
    BY DEF SameDigest
  <2>3. Size[l.v] = Size[r.v] => (Size[l.v] > 0 <=> Size[r.v] > 0)
    OBVIOUS
  <2> QED
    BY <2>1, <2>2, <2>3
<1>2. c.conflict \in {"keep_both", "newer", "skip"}
  BY DEF Settings
<1>3. CASE Same(l, r)
  <2>1. BothEdited(l, r, c) = Verdict("none", l) /\ BothEdited(r, l, c) = Verdict("none", r)
    BY <1>1, <1>3 DEF BothEdited
  <2> QED
    BY <2>1, MirrorMeans, VerdictParts
<1>4. CASE ~Same(l, r)
  <2>1. /\ BothEdited(l, r, c) = EmitConflict(l, r, c)
        /\ BothEdited(r, l, c) = EmitConflict(r, l, c)
    BY <1>1, <1>4 DEF BothEdited
  <2>2. CASE c.conflict = "newer"
    <3>1. /\ EmitConflict(l, r, c) = IF l.t >= r.t THEN Verdict("upload", l)
                                                  ELSE Verdict("download", r)
          /\ EmitConflict(r, l, c) = IF r.t >= l.t THEN Verdict("upload", r)
                                                  ELSE Verdict("download", l)
      BY <2>2, ConflictMeans
    <3>2. l.t \in Nat /\ r.t \in Nat /\ l.t # r.t
      BY <2>2 DEF Entries
    <3>3. CASE l.t > r.t
      BY <2>1, <3>1, <3>2, <3>3, MirrorMeans, VerdictParts
    <3>4. CASE r.t > l.t
      BY <2>1, <3>1, <3>2, <3>4, MirrorMeans, VerdictParts
    <3> QED
      BY <3>2, <3>3, <3>4
  <2>3. CASE c.conflict = "skip"
    BY <2>1, <2>3, ConflictMeans, MirrorMeans, VerdictParts
  <2>4. CASE c.conflict = "keep_both"
    BY <2>1, <2>4, ConflictMeans, MirrorMeans, VerdictParts
  <2> QED
    BY <1>2, <2>2, <2>3, <2>4
<1> QED
  BY <1>3, <1>4

LEMMA MirroredFile ==
    ASSUME NEW lc \in Changes, NEW rc \in Changes, NEW l, NEW r, NEW c \in Settings,
           lc \in Edited /\ rc \in Edited =>
               BothEdited(r, l, c).op = MirrorOp(BothEdited(l, r, c).op)
    PROVE  DecideFile(rc, lc, r, l, c).op = MirrorOp(DecideFile(lc, rc, l, r, c).op)
<1>1. c.propagate \in BOOLEAN
  BY DEF Settings
<1>2. \A e : /\ EmitDeleteRemote(e, c).op = MirrorOp(EmitDeleteLocal(e, c).op)
             /\ EmitDeleteLocal(e, c).op = MirrorOp(EmitDeleteRemote(e, c).op)
  BY <1>1, MirrorMeans, VerdictParts DEF EmitDeleteRemote, EmitDeleteLocal
<1>3. \A e, f : /\ Verdict("download", e).op = MirrorOp(Verdict("upload", f).op)
                /\ Verdict("upload", e).op = MirrorOp(Verdict("download", f).op)
                /\ Verdict("none", e).op = MirrorOp(Verdict("none", f).op)
  BY MirrorMeans, VerdictParts
<1>4. CASE lc \in Edited /\ rc \in Edited
  BY <1>4, FileMeans
<1>5. CASE lc \in Edited /\ rc \in {"unchanged", "absent"}
  BY <1>3, <1>5, FileMeans
<1>6. CASE rc \in Edited /\ lc \in {"unchanged", "absent"}
  BY <1>3, <1>6, FileMeans
<1>7. CASE lc = "deleted" /\ rc = "unchanged"
  BY <1>2, <1>7, FileMeans
<1>8. CASE rc = "deleted" /\ lc = "unchanged"
  BY <1>2, <1>8, FileMeans
<1>9. CASE lc = "deleted" /\ rc = "deleted"
  BY <1>3, <1>9, FileMeans
<1>10. CASE lc = "deleted" /\ rc = "modified"
  BY <1>3, <1>10, FileMeans
<1>11. CASE rc = "deleted" /\ lc = "modified"
  BY <1>3, <1>11, FileMeans
<1>12. CASE \/ lc = "absent" /\ rc \in {"absent", "unchanged", "deleted"}
            \/ lc = "deleted" /\ rc \in {"absent", "created"}
            \/ lc = "created" /\ rc = "deleted"
            \/ lc = "unchanged" /\ rc \in {"absent", "unchanged"}
  BY <1>3, <1>12, FileMeans
<1> QED
  BY <1>4, <1>5, <1>6, <1>7, <1>8, <1>9, <1>10, <1>11, <1>12 DEF Changes, Edited


LEMMA VerdictsMirror == MergeIInv => SidesAreSymmetric
<1> DEFINE l  == input.l
           r  == input.r
           b  == input.b
           c  == input.c
           lc == Classify(l, b, c.compare)
           rc == Classify(r, b, c.compare)
           w  == WithDigest(l, r, lc, rc)
           x  == WithDigest(r, l, rc, lc)
           J  == Judge(r, l, b, c)
<1> SUFFICES ASSUME MergeIInv, Judged,
                    ~(IsFile(l) /\ IsFile(r) /\ (l.h # r.h \/ r.t = NoTime)),
                    ~(IsFile(l) /\ IsFile(r) /\ c.conflict = "newer" /\ l.t = r.t)
             PROVE  J.op = MirrorOp(verdict.op)
  BY DEF SidesAreSymmetric
<1>1. /\ c \in Settings /\ l \in Entries \cup {Nil} /\ r \in Entries \cup {Nil}
      /\ b \in Entries \cup {Nil}
      /\ \A e \in {l, r, b} : e # Nil /\ e.dir => e = Folder
      /\ l # Nil /\ ~l.dir => l.t # NoTime
      /\ verdict = Judge(l, r, b, c)
  BY InputTypes DEF MergeIInv
<1>2. lc \in Changes /\ rc \in Changes
  BY ClassifyMeans
<1>3. /\ lc = "created" => l # Nil
      /\ rc = "created" => r # Nil
      /\ lc \in Edited => l # Nil
      /\ rc \in Edited => r # Nil
  BY ClassifyMeans DEF Edited
<1>4. TypeClash(l, r) = TypeClash(r, l)
  BY DEF TypeClash
<1>5. ~TypeClash(l, r) => IsDir(l, r, b) = IsDir(r, l, b)
  BY DEF TypeClash, IsDir, Either
<1>6. c.propagate \in BOOLEAN
  BY <1>1 DEF Settings
<1>11. \/ rc = "unchanged" /\ lc = "unchanged" /\ J = Verdict("none", r)
       \/ /\ ~(rc = "unchanged" /\ lc = "unchanged") /\ TypeClash(r, l)
          /\ J = Verdict("clash", Nil)
       \/ /\ ~(rc = "unchanged" /\ lc = "unchanged") /\ ~TypeClash(r, l)
          /\ IsDir(r, l, b) /\ J = DecideDir(rc, lc, x, l, c)
       \/ /\ ~(rc = "unchanged" /\ lc = "unchanged") /\ ~TypeClash(r, l)
          /\ ~IsDir(r, l, b) /\ J = DecideFile(rc, lc, x, l, c)
  <2>1. JudgedAs(r, l, b, c, J)
    BY <1>1, JudgeMeans
  <2> HIDE DEF J
  <2> QED
    BY <2>1 DEF JudgedAs
<1>12. \/ lc = "unchanged" /\ rc = "unchanged" /\ verdict = Verdict("none", l)
       \/ ~(lc = "unchanged" /\ rc = "unchanged") /\ TypeClash(l, r)
          /\ verdict = Verdict("clash", Nil)
       \/ /\ ~(lc = "unchanged" /\ rc = "unchanged") /\ ~TypeClash(l, r)
          /\ IsDir(l, r, b) /\ verdict = DecideDir(lc, rc, w, r, c)
       \/ /\ ~(lc = "unchanged" /\ rc = "unchanged") /\ ~TypeClash(l, r)
          /\ ~IsDir(l, r, b) /\ verdict = DecideFile(lc, rc, w, r, c)
  BY Judgement
<1> HIDE DEF J
<1>7. CASE lc = "unchanged" /\ rc = "unchanged"
  <2>1. verdict = Verdict("none", l) /\ J = Verdict("none", r)
    BY <1>7, <1>11, <1>12
  <2> QED
    BY <2>1, MirrorMeans, VerdictParts
<1>8. CASE ~(lc = "unchanged" /\ rc = "unchanged") /\ TypeClash(l, r)
  <2>1. verdict = Verdict("clash", Nil)
    BY <1>8, <1>12
  <2>2. J = Verdict("clash", Nil)
    <3> HIDE DEF l, r, b, c, lc, rc, x
    <3> QED
      BY <1>4, <1>8, <1>11
  <2> QED
    BY <2>1, <2>2, MirrorMeans, VerdictParts
<1>9. CASE ~(lc = "unchanged" /\ rc = "unchanged") /\ ~TypeClash(l, r) /\ IsDir(l, r, b)
  <2>1. (l # Nil => l.dir) /\ (r # Nil => r.dir)
    BY <1>9 DEF IsDir, TypeClash, Either
  <2>2. w = l /\ x = r
    BY <1>3, <2>1 DEF WithDigest
  <2>3. /\ verdict = DecideDir(lc, rc, l, r, c)
        /\ J = DecideDir(rc, lc, r, l, c)
    <3>1. verdict = DecideDir(lc, rc, w, r, c)
      BY <1>9, <1>12
    <3>2. J = DecideDir(rc, lc, x, l, c)
      <4> HIDE DEF l, r, b, c, lc, rc, x
      <4> QED
        BY <1>4, <1>5, <1>9, <1>11
    <3> QED
      BY <2>2, <3>1, <3>2
  <2> HIDE DEF l, r, lc, rc, c
  <2> QED
    BY <1>2, <1>3, <1>6, <2>3, MirroredDir
<1>10. CASE ~(lc = "unchanged" /\ rc = "unchanged") /\ ~TypeClash(l, r) /\ ~IsDir(l, r, b)
  <2>1. /\ verdict = DecideFile(lc, rc, w, r, c)
        /\ J = DecideFile(rc, lc, x, l, c)
    <3>1. verdict = DecideFile(lc, rc, w, r, c)
      BY <1>10, <1>12
    <3>2. J = DecideFile(rc, lc, x, l, c)
      <4> HIDE DEF l, r, b, c, lc, rc, x
      <4> QED
        BY <1>4, <1>5, <1>10, <1>11
    <3> QED
      BY <3>1, <3>2
  <2>2. CASE lc \in Edited /\ rc \in Edited
    <3>1. /\ l \in Entries /\ r \in Entries /\ IsFile(l) /\ IsFile(r)
      BY <1>1, <1>3, <1>10, <2>2 DEF IsDir, TypeClash, Either, IsFile
    <3>2. l.h = r.h /\ r.t # NoTime /\ l.t # NoTime /\ (c.conflict # "newer" \/ l.t # r.t)
      BY <1>1, <3>1 DEF IsFile
    <3>3. w = l
      BY <3>1, <3>2 DEF WithDigest, Entries
    <3>4. x = r
      BY <3>1, <3>2 DEF WithDigest, Entries
    <3>5. /\ verdict = DecideFile(lc, rc, l, r, c)
          /\ J = DecideFile(rc, lc, r, l, c)
      BY <2>1, <3>3, <3>4
    <3>6. BothEdited(r, l, c).op = MirrorOp(BothEdited(l, r, c).op)
      BY <1>1, <3>1, <3>2, MirroredBoth
    <3> HIDE DEF l, r, lc, rc, c
    <3> QED
      BY <1>1, <1>2, <3>5, <3>6, MirroredFile
  <2>3. CASE ~(lc \in Edited /\ rc \in Edited)
    <3>1. w = l /\ x = r
      BY <2>3, DigestWhenBothChanged
    <3>2. /\ verdict = DecideFile(lc, rc, l, r, c)
          /\ J = DecideFile(rc, lc, r, l, c)
      BY <2>1, <3>1
    <3> HIDE DEF l, r, lc, rc, c
    <3> QED
      BY <1>1, <1>2, <2>3, <3>2, MirroredFile
  <2> QED
    BY <2>2, <2>3
<1> QED
  BY <1>7, <1>8, <1>9, <1>10

\* For any contents, sizes and times: nothing that changed is given up by a verdict, a row
\* says what both sides hold, and neither side is preferred.
THEOREM TheMergeIsSound == MergeSpec => []MergeIsSound
<1>1. MergeIInv => MergeIsSound
  BY EditsSurvive, RowsAgree, VerdictsMirror DEF MergeIsSound
<1> QED
  BY <1>1, MergeInvariant, PTL

-----------------------------------------------------------------------------
(* One run settles a path.                                                   *)

\* Nothing is left to do for a file both sides hold as the row says, for one that neither
\* holds, and for one the settings keep though the other side deleted it.
LEMMA NothingLeft ==
    ASSUME NEW l \in Entries \cup {Nil}, NEW r \in Entries \cup {Nil},
           NEW b \in Entries \cup {Nil}, NEW c \in Settings
    PROVE  /\ /\ l # Nil /\ r # Nil /\ b # Nil
              /\ SameContent(l, b, c.compare) /\ SameContent(r, b, c.compare)
              => Judge(l, r, b, c).op = "none"
           /\ l = Nil /\ r = Nil /\ (b = Nil \/ ~b.dir) => Judge(l, r, b, c).op = "none"
           /\ l = Nil /\ r # Nil /\ ~r.dir /\ b = r /\ ~c.propagate
              => Judge(l, r, b, c).op = "noop"
           /\ r = Nil /\ l # Nil /\ ~l.dir /\ b = l /\ ~c.propagate
              => Judge(l, r, b, c).op = "noop"
<1> DEFINE lc == Classify(l, b, c.compare)
           rc == Classify(r, b, c.compare)
           w  == WithDigest(l, r, lc, rc)
           J  == Judge(l, r, b, c)
<1>1. \/ lc = "unchanged" /\ rc = "unchanged" /\ J = Verdict("none", l)
      \/ ~(lc = "unchanged" /\ rc = "unchanged") /\ TypeClash(l, r) /\ J = Verdict("clash", Nil)
      \/ /\ ~(lc = "unchanged" /\ rc = "unchanged") /\ ~TypeClash(l, r)
         /\ IsDir(l, r, b) /\ J = DecideDir(lc, rc, w, r, c)
      \/ /\ ~(lc = "unchanged" /\ rc = "unchanged") /\ ~TypeClash(l, r)
         /\ ~IsDir(l, r, b) /\ J = DecideFile(lc, rc, w, r, c)
  <2>1. JudgedAs(l, r, b, c, J)
    BY JudgeMeans
  <2> HIDE DEF J
  <2> QED
    BY <2>1 DEF JudgedAs
<1> HIDE DEF J
<1>2. lc \in Changes /\ rc \in Changes
  BY ClassifyMeans
<1>3. ASSUME l # Nil, r # Nil, b # Nil, SameContent(l, b, c.compare), SameContent(r, b, c.compare)
      PROVE  J.op = "none"
  <2>1. lc = "unchanged" /\ rc = "unchanged"
    BY <1>3, ClassifyMeans
  <2> QED
    BY <1>1, <2>1, VerdictParts
<1>4. ASSUME l = Nil, r = Nil, b = Nil \/ ~b.dir
      PROVE  J.op = "none"
  <2>1. w = Nil /\ ~TypeClash(l, r) /\ ~IsDir(l, r, b)
    BY <1>4 DEF WithDigest, TypeClash, IsDir, Either
  <2>2. (lc = "absent" /\ rc = "absent") \/ (lc = "deleted" /\ rc = "deleted")
    BY <1>4, ClassifyMeans
  <2>3. J = DecideFile(lc, rc, w, r, c)
    BY <1>1, <2>1, <2>2
  <2>4. \E row : J = Verdict("none", row)
    BY <1>2, <2>2, <2>3, FileMeans
  <2> QED
    BY <2>4, VerdictParts
<1>5. ASSUME l = Nil, r # Nil, ~r.dir, b = r, ~c.propagate
      PROVE  J.op = "noop"
  <2>1. ~TypeClash(l, r) /\ ~IsDir(l, r, b)
    BY <1>5 DEF TypeClash, IsDir, Either
  <2>2. r \in Entries
    BY <1>5
  <2>3. lc = "deleted" /\ rc = "unchanged"
    BY <1>5, <2>2, ClassifyMeans, SameContentFacts
  <2>4. J = EmitDeleteRemote(r, c)
    BY <1>1, <1>2, <2>1, <2>3, FileMeans
  <2> QED
    BY <1>5, <2>4, VerdictParts DEF EmitDeleteRemote
<1>6. ASSUME r = Nil, l # Nil, ~l.dir, b = l, ~c.propagate
      PROVE  J.op = "noop"
  <2>1. w = l /\ ~TypeClash(l, r) /\ ~IsDir(l, r, b)
    BY <1>6 DEF WithDigest, TypeClash, IsDir, Either
  <2>2. l \in Entries
    BY <1>6
  <2>3. lc = "unchanged" /\ rc = "deleted"
    BY <1>6, <2>2, ClassifyMeans, SameContentFacts
  <2>4. J = EmitDeleteLocal(l, c)
    BY <1>1, <1>2, <2>1, <2>3, FileMeans
  <2> QED
    BY <1>6, <2>4, VerdictParts DEF EmitDeleteLocal
<1> QED
  BY <1>3, <1>4, <1>5, <1>6 DEF J

\* A transfer leaves the same contents on both sides.
LEMMA TransfersAgree ==
    ASSUME verdict.op \in {"upload", "download", "conflict"},
           verdict.op # "upload" => input.r \in Entries
    PROVE  Contents({LocalAfter}) = Contents({RemoteAfter})
<1>1. CASE verdict.op = "upload"
  <2>1. LocalAfter = RemoteAfter
    BY <1>1 DEF LocalAfter, RemoteAfter
  <2> QED
    BY <2>1
<1>2. CASE verdict.op \in {"download", "conflict"}
  <2>1. LocalAfter = Downloaded(input.r, input.c) /\ RemoteAfter = input.r
    BY <1>2 DEF LocalAfter, RemoteAfter
  <2>2. Downloaded(input.r, input.c) \in Entries
    BY <1>2 DEF Downloaded, Entries, FreshTime
  <2>3. /\ Downloaded(input.r, input.c).dir = input.r.dir
        /\ Downloaded(input.r, input.c).v = input.r.v
    BY <1>2 DEF Downloaded, Entries
  <2> HIDE DEF Downloaded
  <2>4. IsFile(LocalAfter) <=> IsFile(RemoteAfter)
    BY <1>2, <2>1, <2>2, <2>3, NilAssumption DEF IsFile
  <2>5. LocalAfter.v = RemoteAfter.v
    BY <2>1, <2>3
  <2> QED
    BY <2>4, <2>5 DEF Contents
<1> QED
  BY <1>1, <1>2

LEMMA RunSettles == MergeIInv => OneRunSettles
<1> DEFINE l  == input.l
           r  == input.r
           b  == input.b
           c  == input.c
           m  == c.compare
           lc == Classify(l, b, m)
           rc == Classify(r, b, m)
           w  == WithDigest(l, r, lc, rc)
           Again == Judge(LocalAfter, RemoteAfter, RowAfter, c).op
           Settled == \/ Again \in {"none", "noop"}
                      \/ Contents({LocalAfter}) = Contents({RemoteAfter})
<1> SUFFICES ASSUME MergeIInv, Judged, Comparable, OnlyFiles,
                    verdict.op \notin {"skip", "clash"}
             PROVE  Settled
  BY DEF OneRunSettles
<1>1. c \in Settings /\ \A e \in {l, r, b} : e = Nil \/ (e \in Entries /\ IsFile(e))
  BY InputTypes DEF MergeIInv, OnlyFiles, IsFile
<1>2. \A e \in {l, r, b} : e # Nil => IF m = "sha1" THEN e.h ELSE e.t # NoTime
  BY <1>1 DEF Comparable
<1>3. m \in {"size", "size_mtime", "sha1"} /\ c.propagate \in BOOLEAN
  BY <1>1 DEF Settings
<1>4. ASSUME verdict.op \in {"upload", "download", "conflict"},
             verdict.op # "upload" => r # Nil
      PROVE  Settled
  BY <1>1, <1>4, TransfersAgree
<1>5. CASE lc = "unchanged" /\ rc = "unchanged" /\ verdict = Verdict("none", l)
  <2>1. /\ l # Nil /\ r # Nil /\ b # Nil /\ SameContent(l, b, m) /\ SameContent(r, b, m)
    BY <1>5, ClassifyMeans
  <2>2. LocalAfter = l /\ RemoteAfter = r /\ RowAfter = l
    BY <1>5, <2>1, SidesStay, VerdictParts DEF RowAfter
  <2>3. /\ l \in Entries /\ r \in Entries /\ b \in Entries
        /\ ~l.dir /\ ~r.dir /\ ~b.dir
    BY <1>1, <2>1 DEF IsFile
  <2>4. SameContent(r, l, m) /\ SameContent(l, l, m)
    BY <1>2, <2>1, <2>3, SameThroughRow, SameContentFacts
  <2> QED
    BY <1>1, <2>1, <2>2, <2>4, NothingLeft
<1>6. CASE l = Nil /\ r = Nil /\ verdict = Verdict("none", Nil)
  <2>1. LocalAfter = Nil /\ RemoteAfter = Nil /\ RowAfter = b
    BY <1>6, SidesStay, VerdictParts DEF RowAfter
  <2>2. b = Nil \/ ~b.dir
    BY <1>1 DEF IsFile
  <2> QED
    BY <1>1, <2>1, <2>2, NothingLeft
<1>7. CASE verdict = Verdict("upload", l)
  BY <1>4, <1>7, VerdictParts
<1>8. CASE IsFile(r) /\ verdict = Verdict("download", r)
  BY <1>4, <1>8, VerdictParts DEF IsFile
<1>9. CASE lc \in Edited /\ rc \in Edited /\ verdict = BothEdited(w, r, c)
  <2>1. l # Nil /\ r # Nil
    BY <1>9, ClassifyMeans DEF Edited
  <2>2. /\ l \in Entries /\ r \in Entries /\ ~l.dir /\ ~r.dir /\ IsFile(l) /\ IsFile(r)
    BY <1>1, <2>1 DEF IsFile
  <2>3. \/ verdict = Verdict("none", w) /\ (SameContent(w, r, m) \/ SameDigest(w, r))
        \/ verdict = Verdict("skip", Nil) \/ verdict = Verdict("conflict", r)
        \/ verdict = Verdict("upload", w) \/ verdict = Verdict("download", r)
    BY <1>1, <1>9, BothMeans
  <2>4. CASE verdict = Verdict("none", w) /\ (SameContent(w, r, m) \/ SameDigest(w, r))
    <3>1. LocalAfter = l /\ RemoteAfter = r
      BY <2>4, SidesStay, VerdictParts
    <3>2. w \in Entries /\ w # Nil /\ w.dir = l.dir /\ w.v = l.v
      BY <2>1, <2>2, DigestKeeps
    <3>3. CASE SameContent(w, r, m)
      <4>1. RowAfter = w
        BY <2>4, <3>2, VerdictParts DEF RowAfter
      <4>2. SameContent(l, w, m)
        BY <1>2, <2>1, <2>2, DigestIsSame
      <4>3. SameContent(r, w, m)
        BY <2>2, <3>2, <3>3, SameContentFacts
      <4> QED
        BY <1>1, <2>1, <2>2, <3>1, <3>2, <4>1, <4>2, <4>3, NothingLeft
    <3>4. CASE SameDigest(w, r)
      <4>1. l.v = r.v
        BY <3>2, <3>4 DEF SameDigest
      <4> QED
        BY <2>2, <3>1, <4>1 DEF Contents
    <3> QED
      BY <2>4, <3>3, <3>4
  <2> QED
    BY <1>4, <2>1, <2>3, <2>4, VerdictParts
<1>10. CASE l = Nil /\ rc = "unchanged" /\ verdict = EmitDeleteRemote(r, c)
  <2>1. r # Nil /\ ~r.dir /\ r \in Entries
    BY <1>1, <1>10, ClassifyMeans DEF IsFile
  <2>2. CASE c.propagate
    <3>1. verdict = Verdict("deleteRemote", Nil)
      BY <1>10, <2>2 DEF EmitDeleteRemote
    <3>2. LocalAfter = Nil /\ RemoteAfter = Nil /\ RowAfter = Nil
      BY <1>10, <3>1, VerdictParts DEF LocalAfter, RemoteAfter, RowAfter
    <3> QED
      BY <1>1, <3>2, NothingLeft
  <2>3. CASE ~c.propagate
    <3>1. verdict = Verdict("noop", r)
      BY <1>10, <2>3 DEF EmitDeleteRemote
    <3>2. LocalAfter = Nil /\ RemoteAfter = r /\ RowAfter = r
      BY <1>10, <2>1, <3>1, SidesStay, VerdictParts DEF RowAfter
    <3> QED
      BY <1>1, <2>1, <2>3, <3>2, NothingLeft
  <2> QED
    BY <2>2, <2>3
<1>11. CASE r = Nil /\ lc = "unchanged" /\ verdict = EmitDeleteLocal(l, c)
  <2>1. l # Nil /\ ~l.dir /\ l \in Entries
    BY <1>1, <1>11, ClassifyMeans DEF IsFile
  <2>2. CASE c.propagate
    <3>1. verdict = Verdict("deleteLocal", Nil)
      BY <1>11, <2>2 DEF EmitDeleteLocal
    <3>2. LocalAfter = Nil /\ RemoteAfter = Nil /\ RowAfter = Nil
      BY <1>11, <3>1, VerdictParts DEF LocalAfter, RemoteAfter, RowAfter
    <3> QED
      BY <1>1, <3>2, NothingLeft
  <2>3. CASE ~c.propagate
    <3>1. verdict = Verdict("noop", l)
      BY <1>11, <2>3 DEF EmitDeleteLocal
    <3>2. LocalAfter = l /\ RemoteAfter = Nil /\ RowAfter = l
      BY <1>11, <2>1, <3>1, SidesStay, VerdictParts DEF RowAfter
    <3> QED
      BY <1>1, <2>1, <2>3, <3>2, NothingLeft
  <2> QED
    BY <2>2, <2>3
<1> QED
  BY <1>5, <1>6, <1>7, <1>8, <1>9, <1>10, <1>11, FilesJudged

\* A path judged again after its verdict was carried out needs nothing more, or moves bytes
\* both sides already hold, whatever the contents and the times.
THEOREM OneRunIsEnough == MergeSpec => []OneRunSettles
<1>1. MergeIInv => OneRunSettles
  BY RunSettles
<1> QED
  BY <1>1, MergeInvariant, PTL
=============================================================================
