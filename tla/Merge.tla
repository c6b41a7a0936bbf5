------------------------------- MODULE Merge -------------------------------
(***************************************************************************)
(* The three-way merge of one path: what src/engine.rs decides for it from *)
(* the local entry, the remote entry and the baseline row.  Pure           *)
(* operators; PairSync runs them, MCMerge checks them over every small     *)
(* combination of entries.                                                 *)
(*                                                                         *)
(* An entry is [dir, v, t, h]: v names the bytes (two entries hold the     *)
(* same bytes iff they have the same v), t is the modification time in     *)
(* whole seconds or NoTime, h says whether a digest comes with the entry.  *)
(* The engine never sees v itself: only Size[v], t and, when h, a digest   *)
(* (which differs exactly when v differs).                                 *)
(***************************************************************************)
EXTENDS Naturals

CONSTANTS Nil,      \* no entry at this path
          Versions, \* the contents a file may have
          Size      \* bytes of each content

ASSUME SizeAssumption == Size \in [Versions -> Nat]

NoTime == 0

Entries == [dir : BOOLEAN, v : Versions, t : Nat, h : BOOLEAN]
ASSUME NilAssumption == Nil \notin Entries

\* The settings the merge reads (Config::compare, ::conflict, ::propagate_deletes).
Settings == [compare   : {"size", "size_mtime", "sha1"},
             conflict  : {"keep_both", "newer", "skip"},
             propagate : BOOLEAN]

-----------------------------------------------------------------------------
\* models.rs same_content: the richest signal that BOTH entries carry decides.
SameDigest(a, b) == a.h /\ b.h /\ a.v = b.v

SameContent(a, b, compare) ==
    IF a.dir \/ b.dir THEN a.dir /\ b.dir
    ELSE IF compare = "sha1" /\ a.h /\ b.h THEN a.v = b.v
    ELSE /\ Size[a.v] = Size[b.v]
         /\ compare # "size" /\ a.t # NoTime /\ b.t # NoTime => a.t = b.t

\* engine.rs classify: one side against the baseline row.
Classify(cur, row, compare) ==
    CASE cur = Nil /\ row = Nil -> "absent"
      [] cur # Nil /\ row = Nil -> "created"
      [] cur = Nil /\ row # Nil -> "deleted"
      [] cur # Nil /\ row # Nil ->
            IF SameContent(cur, row, compare) THEN "unchanged" ELSE "modified"

Edited == {"created", "modified"}

\* engine.rs digest_equal_sizes: the local file is hashed only when both sides
\* changed it to one size > 0 and the remote listed a digest.
WithDigest(l, r, lc, rc) ==
    IF /\ l # Nil /\ r # Nil
       /\ lc \in Edited /\ rc \in Edited
       /\ ~l.dir /\ ~r.dir
       /\ r.h /\ Size[l.v] = Size[r.v] /\ Size[l.v] > 0
    THEN [l EXCEPT !.h = TRUE]
    ELSE l

-----------------------------------------------------------------------------
(* A verdict is the operation planned and the row `decide` puts into the     *)
(* prospective baseline (Nil: none).                                         *)
Verdict(op, row) == [op |-> op, row |-> row]

Either(l, r) == IF l # Nil THEN l ELSE r

EmitUpload(l)   == Verdict("upload", l)
EmitDownload(r) == Verdict("download", r)

\* With propagation off the row stays, and so does the file.
EmitDeleteRemote(r, c) == IF c.propagate THEN Verdict("deleteRemote", Nil) ELSE Verdict("noop", r)
EmitDeleteLocal(l, c)  == IF c.propagate THEN Verdict("deleteLocal", Nil) ELSE Verdict("noop", l)

\* (Slip) The remote version wins every conflict.
EmitConflictRemoteWins(l, r, c) == Verdict("download", r)

EmitConflict(l, r, c) ==
    CASE c.conflict = "skip" -> Verdict("skip", Nil)
      [] c.conflict = "newer" /\ l.t # NoTime /\ r.t # NoTime ->
            IF l.t >= r.t THEN EmitUpload(l) ELSE EmitDownload(r)
      [] OTHER -> Verdict("conflict", r)

\* (Slip) Equal sizes taken for equal bytes.
BothEditedBySize(l, r, c) ==
    IF Size[l.v] = Size[r.v] THEN Verdict("none", l) ELSE EmitConflict(l, r, c)

\* Both sides hold a file the baseline does not agree with.
BothEdited(l, r, c) ==
    IF \/ SameContent(l, r, c.compare)
       \/ Size[l.v] = Size[r.v] /\ Size[l.v] > 0 /\ SameDigest(l, r)
    THEN Verdict("none", l)
    ELSE EmitConflict(l, r, c)

DecideFile(lc, rc, l, r, c) ==
    CASE lc \in Edited /\ rc \in {"unchanged", "absent"} -> EmitUpload(l)
      [] rc \in Edited /\ lc \in {"unchanged", "absent"} -> EmitDownload(r)
      [] lc \in Edited /\ rc \in Edited -> BothEdited(l, r, c)
      [] lc = "deleted" /\ rc = "unchanged" -> EmitDeleteRemote(r, c)
      [] rc = "deleted" /\ lc = "unchanged" -> EmitDeleteLocal(l, c)
      [] lc = "deleted" /\ rc = "deleted" -> Verdict("none", Nil)
      [] lc = "deleted" /\ rc = "modified" -> EmitDownload(r)
      [] rc = "deleted" /\ lc = "modified" -> EmitUpload(l)
      [] OTHER -> Verdict("none", Either(l, r))

DecideDir(lc, rc, l, r, c) ==
    CASE lc = "created" /\ r = Nil -> Verdict("mkdirRemote", l)
      [] rc = "created" /\ l = Nil -> Verdict("mkdirLocal", r)
      [] lc = "deleted" /\ rc = "unchanged" ->
            IF c.propagate THEN Verdict("deleteRemote", Nil) ELSE Verdict("none", r)
      [] rc = "deleted" /\ lc = "unchanged" ->
            IF c.propagate THEN Verdict("deleteLocal", Nil) ELSE Verdict("none", l)
      [] OTHER -> Verdict("none", Either(l, r))

TypeClash(l, r) == l # Nil /\ r # Nil /\ l.dir # r.dir

\* The path has the kind of `le.or(re).or(be)`.
IsDir(l, r, b) == LET e == Either(Either(l, r), b) IN e # Nil /\ e.dir

Decide(lc, rc, l, r, b, c) ==
    CASE lc = "unchanged" /\ rc = "unchanged" -> Verdict("none", Either(l, r))
      [] TypeClash(l, r) /\ ~(lc = "unchanged" /\ rc = "unchanged") -> Verdict("clash", Nil)
      [] OTHER -> IF IsDir(l, r, b)
                  THEN DecideDir(lc, rc, l, r, c)
                  ELSE DecideFile(lc, rc, l, r, c)

\* (Slip) A missing local file stands for its row.
JudgeCarried(l, r, b, c) ==
    Decide(Classify(l, b, c.compare), Classify(r, b, c.compare), Either(l, b), r, b, c)

\* What a run decides for one path (plan's loop body).
Judge(l, r, b, c) ==
    LET lc == Classify(l, b, c.compare)
        rc == Classify(r, b, c.compare)
    IN  Decide(lc, rc, WithDigest(l, r, lc, rc), r, b, c)
=============================================================================
