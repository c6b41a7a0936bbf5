------------------------------ MODULE MCMerge ------------------------------
(***************************************************************************)
(* Every small input of the three-way merge, judged once and then judged   *)
(* again on what the verdict leaves behind.                                *)
(***************************************************************************)
EXTENDS Merge

CONSTANT Times  \* modification times a file may have

ASSUME TimesAssumption == Times \subseteq Nat \ {NoTime}

VARIABLES input,  \* [l, r, b, c]: local entry, remote entry, row, settings
          verdict \* what Judge made of it, Nil before

MCSize == [v \in Versions |-> IF v = 3 THEN 2 ELSE IF v = 4 THEN 0 ELSE 1]

Folder == [dir |-> TRUE, v |-> 4, t |-> NoTime, h |-> FALSE]
ASSUME FolderAssumption == Folder \in Entries

Files(times, hashed) == [dir : {FALSE}, v : Versions, t : times, h : hashed]

\* A local file always has a time and is hashed in sha1 mode only; a remote
\* listing may lack either; a row is a copy of one of them.
Locals(c)  == Files(Times, {c.compare = "sha1"}) \cup {Folder, Nil}
Remotes == Files(Times \cup {NoTime}, BOOLEAN) \cup {Folder, Nil}

Inputs == UNION {[l : Locals(c), r : Remotes, b : Remotes, c : {c}] : c \in Settings}

MergeInit == input \in Inputs /\ verdict = Nil

Evaluate == /\ verdict = Nil
            /\ verdict' = Judge(input.l, input.r, input.b, input.c)
            /\ UNCHANGED input

mergeVars == <<input, verdict>>
MergeSpec == MergeInit /\ [][Evaluate]_mergeVars

-----------------------------------------------------------------------------
Judged == verdict # Nil
FreshTime == 9  \* the mtime of a download whose listing gave none

Downloaded(r, c) ==
    [r EXCEPT !.t = IF r.t = NoTime THEN FreshTime ELSE r.t, !.h = (c.compare = "sha1")]

\* The two sides and the row once the operation has been carried out.
LocalAfter == CASE verdict.op \in {"download", "conflict"} -> Downloaded(input.r, input.c)
                [] verdict.op = "mkdirLocal" -> input.r
                [] verdict.op = "deleteLocal" -> Nil
                [] OTHER -> input.l
RemoteAfter == CASE verdict.op \in {"upload", "mkdirRemote"} -> input.l
                 [] verdict.op = "deleteRemote" -> Nil
                 [] OTHER -> input.r
RowAfter == CASE verdict.row # Nil -> verdict.row
              [] verdict.op \in {"deleteLocal", "deleteRemote"} -> Nil
              [] OTHER -> input.b

IsFile(e) == e # Nil /\ ~e.dir
Contents(S) == {e.v : e \in {x \in S : IsFile(x)}}
Surviving == Contents({LocalAfter, RemoteAfter})
             \cup IF verdict.op = "conflict" THEN {input.l.v} ELSE {}

Changed(e) == IsFile(e) /\ Classify(e, input.b, input.c.compare) \in Edited

MergeTypeOK == /\ input.c \in Settings
          /\ Judged => /\ verdict.op \in {"none", "noop", "skip", "clash", "upload", "download",
                                          "conflict", "deleteLocal", "deleteRemote",
                                          "mkdirLocal", "mkdirRemote"}
                       /\ verdict.row \in {Nil, input.l, input.r,
                                           WithDigest(input.l, input.r, "modified", "modified")}

\* A file that differs from the baseline, as far as the configured comparison can
\* see, is never replaced or removed by the verdict: its bytes are still on one of
\* the sides or in the conflict copy.  Only `conflict = newer` gives one up.
\* (decide: "delete-vs-change: never lose the surviving edit", keep-both conflicts.)
ChangedContentSurvives ==
    Judged => \A e \in {input.l, input.r} :
                \/ ~Changed(e)
                \/ e.v \in Surviving
                \/ input.c.conflict = "newer" /\ Changed(input.l) /\ Changed(input.r)

\* All the signals the mode compares by are there on every file of the input.
Comparable == \A e \in {input.l, input.r, input.b} :
                 \/ ~IsFile(e)
                 \/ IF input.c.compare = "sha1" THEN e.h ELSE e.t # NoTime

OnlyFiles == Folder \notin {input.l, input.r, input.b}

\* The row was kept or written with nothing left to transfer.
RowWithoutTransfer == verdict.op = "none" /\ verdict.row # Nil

\* The baseline row kept or written without a transfer says what both sides hold,
\* for files, when deletions propagate: this is what "the last time they agreed" means.
RowMeansAgreement ==
    Judged /\ Comparable /\ OnlyFiles /\ RowWithoutTransfer =>
        /\ IsFile(input.l) /\ IsFile(input.r)
        /\ SameContent(input.l, input.r, input.c.compare) \/ input.l.v = input.r.v

\* One run settles a path: judged again after its verdict was carried out, it needs no
\* operation, or one that moves bytes both sides already hold (the baseline refreshed
\* for equal digests keeps the local time, so the next run fetches the same bytes once
\* more).  Skipped conflicts and type clashes are left to the user.
OneRunSettles ==
    Judged /\ Comparable /\ OnlyFiles /\ verdict.op \notin {"skip", "clash"} =>
        \/ Judge(LocalAfter, RemoteAfter, RowAfter, input.c).op \in {"none", "noop"}
        \/ Contents({LocalAfter}) = Contents({RemoteAfter})

MirrorOp(op) == CASE op = "upload" -> "download"
                  [] op = "download" -> "upload"
                  [] op = "deleteLocal" -> "deleteRemote"
                  [] op = "deleteRemote" -> "deleteLocal"
                  [] op = "mkdirLocal" -> "mkdirRemote"
                  [] op = "mkdirRemote" -> "mkdirLocal"
                  [] OTHER -> op

\* Neither side is privileged: swapping local and remote swaps the verdict, except for
\* the tie of `newer`, which keeps the local version.
SidesAreSymmetric ==
    Judged => LET l == input.l r == input.r IN
        \/ IsFile(l) /\ IsFile(r) /\ (l.h # r.h \/ r.t = NoTime)
        \/ IsFile(l) /\ IsFile(r) /\ input.c.conflict = "newer" /\ l.t = r.t
        \/ Judge(r, l, input.b, input.c).op = MirrorOp(verdict.op)

\* The verdict, on every input: nothing that changed is given up, a row says what both sides
\* hold, and neither side is preferred.
MergeIsSound == ChangedContentSurvives /\ RowMeansAgreement /\ SidesAreSymmetric
=============================================================================
