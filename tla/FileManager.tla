---------------------------- MODULE FileManager ----------------------------
(***************************************************************************)
(* Shortcuts in the file manager (src/src/fileman.rs): bookmarks of the     *)
(* synced folders in a file the user's own bookmarks are in too, and two    *)
(* scripts in a folder of the user's scripts.  The window and the tray both *)
(* bring them in line with the config, one reading the file while the other *)
(* - or the file manager itself - may be writing it.                        *)
(***************************************************************************)
EXTENDS Naturals, Sequences, FiniteSets

CONSTANTS
    WindowApp, TrayApp,  \* the two that apply the config
    Spots,          \* folders someone may bookmark, the synced ones among them
    Absent,          \* folders that are not there now
    ScriptNames,     \* the two scripts
    MaxTouches       \* bounds what the user does

Appliers == {WindowApp, TrayApp}

ASSUME FileManagerAssumption == MaxTouches \in Nat /\ Absent \subseteq Spots

VARIABLES
    setting,    \* the config: whether the integration is on, and the synced folders in order
    due,      \* the tray has yet to load that config
    job,      \* of each applier: the config it is applying, how far it is and what it read
    lines,    \* the bookmarks file
    scripts,  \* each script: none, ours, an older text of ours, or the user's own
    raced,    \* history: appliers whose reading of the file is out of date
    touched,  \* history: the user edited the file or a script since it was last applied
    failures, touches

fmVars == <<setting, due, job, lines, scripts, raced, touched, failures, touches>>

NoJob == [stage |-> "idle", on |-> FALSE, folders |-> <<>>, read |-> <<>>]
Line(place, ours) == [place |-> place, ours |-> ours]
\* What of a sequence is in a set, in its order.
Keeping(s, S) ==
    LET kept[n \in 0..Len(s)] ==
            IF n = 0 THEN <<>>
            ELSE IF s[n] \in S THEN Append(kept[n - 1], s[n]) ELSE kept[n - 1]
    IN  kept[Len(s)]
Theirs(file) == Keeping(file, [place : Spots, ours : {FALSE}])
SpotsOf(file) == {file[i].place : i \in 1..Len(file)}

FileManagerInit ==
    /\ setting = [on |-> FALSE, folders |-> <<>>]
    /\ due = FALSE
    /\ job = [a \in Appliers |-> NoJob]
    /\ lines \in {<<>>} \cup {<<Line(p, FALSE)>> : p \in Spots}
    /\ scripts \in [ScriptNames -> {"none", "theirs"}]
    /\ raced = {} /\ touched = FALSE /\ failures = 0 /\ touches = 0

(***************************************************************************)
(* What to write.                                                           *)
(***************************************************************************)
\* What is wanted goes below what stands, but where a folder has a bookmark already.
AddMissing(file, desired) ==
    LET with[n \in 0..Len(desired)] ==
            IF n = 0 THEN file
            ELSE IF desired[n] \in SpotsOf(with[n - 1]) THEN with[n - 1]
                 ELSE Append(with[n - 1], Line(desired[n], TRUE))
    IN  with[Len(desired)]
\* (Slip) Only what is no longer wanted is dropped, and the user's entry with it.
MergeByPlace(existing, desired) ==
    [i \in 1..Len(desired) |-> Line(desired[i], TRUE)]
\* merge_bookmarks: theirs as they are, then ours of the folders they have none of.
MergeBookmarks(existing, desired) == AddMissing(Theirs(existing), desired)

\* desired_bookmarks
DesiredBookmarks(c) == IF c.on THEN Keeping(c.folders, Spots \ Absent) ELSE <<>>

\* sync_scripts, of one of them.
SyncScript(script, on) ==
    IF script = "theirs" THEN "theirs" ELSE IF on THEN "ours" ELSE "none"

-----------------------------------------------------------------------------
Takes(a, c) ==
    job' = [job EXCEPT ![a] = [stage |-> "begun", on |-> c.on, folders |-> c.folders,
                               read |-> <<>>]]

(* commit, and the switch of the settings: the window applies what it changed, and the *)
(* tray will see that the file is another.                                             *)
ChangeConfig(c) ==
    /\ job[WindowApp].stage = "idle" /\ c # setting
    /\ setting' = c /\ due' = TRUE
    /\ IF c.on \/ setting.on THEN Takes(WindowApp, c) ELSE UNCHANGED job
    /\ UNCHANGED <<lines, scripts, raced, touched, failures>>

(* The tray's tick finds the config changed; or it starts. *)
TrayReloads ==
    /\ due /\ job[TrayApp].stage = "idle"
    /\ due' = FALSE
    /\ Takes(TrayApp, setting)
    /\ UNCHANGED <<setting, lines, scripts, raced, touched, failures, touches>>

TrayStarts ==
    /\ job[TrayApp].stage = "idle" /\ ~due
    /\ due' = TRUE
    /\ UNCHANGED <<setting, job, lines, scripts, raced, touched, failures>>

(* sync_bookmarks: the file is read ... *)
ReadBookmarks(a) ==
    /\ job[a].stage = "begun"
    /\ job' = [job EXCEPT ![a].stage = "read", ![a].read = lines]
    /\ raced' = raced \ {a}
    /\ UNCHANGED <<setting, due, lines, scripts, touched, failures, touches>>

(* ... and replaced, unless it is as wanted already. *)
WriteBookmarks(a) ==
    LET merged == MergeBookmarks(job[a].read, DesiredBookmarks(job[a]))
    IN  /\ job[a].stage = "read"
        /\ job' = [job EXCEPT ![a].stage = "written"]
        /\ lines' = IF merged = job[a].read THEN lines ELSE merged
        /\ raced' = IF merged = job[a].read THEN raced
                    ELSE raced \cup {b \in Appliers \ {a} : job[b].stage = "read"}
        /\ UNCHANGED <<setting, due, scripts, touched, failures, touches>>

(* Neither a bookmarks file that cannot be read or written stops the scripts. *)
BookmarksFail(a) ==
    /\ job[a].stage \in {"begun", "read"}
    /\ failures < MaxTouches /\ failures' = failures + 1
    /\ job' = [job EXCEPT ![a].stage = "written"]
    /\ UNCHANGED <<setting, due, lines, scripts, raced, touched, touches>>

ApplyScripts(a) ==
    /\ job[a].stage = "written"
    /\ scripts' = [n \in ScriptNames |-> SyncScript(scripts[n], job[a].on)]
    /\ job' = [job EXCEPT ![a] = NoJob]
    /\ UNCHANGED <<setting, due, lines, raced, touched, failures, touches>>

(* The user edits the bookmarks in the file manager: adds one of their own, removes any, *)
(* gives one of ours a name of their own; or writes a script.                            *)
UserEdits(file) ==
    /\ lines' = file /\ file # lines
    /\ raced' = raced \cup {a \in Appliers : job[a].stage = "read"}
    /\ touched' = TRUE
    /\ UNCHANGED <<setting, due, job, scripts, failures>>

UserScripts(n) ==
    /\ scripts[n] # "theirs"
    /\ scripts' = [scripts EXCEPT ![n] = "theirs"]
    /\ touched' = TRUE
    /\ UNCHANGED <<setting, due, job, lines, raced, failures>>

Without(file, i) == SubSeq(file, 1, i - 1) \o SubSeq(file, i + 1, Len(file))
Edits ==
    {Append(lines, Line(p, FALSE)) : p \in Spots \ SpotsOf(lines)}
        \cup {Without(lines, i) : i \in 1..Len(lines)}
        \cup {[lines EXCEPT ![i].ours = FALSE] : i \in 1..Len(lines)}
Configs == [on : BOOLEAN, folders : {<<>>} \cup {<<p>> : p \in Spots}
                                       \cup {<<p, q>> : p, q \in Spots}]

ApplierStep ==
    \/ TrayReloads
    \/ \E a \in Appliers : ReadBookmarks(a) \/ WriteBookmarks(a) \/ ApplyScripts(a)

FileManagerNext ==
    \/ ApplierStep
    \/ \E a \in Appliers : BookmarksFail(a)
    \/ /\ touches < MaxTouches /\ touches' = touches + 1
       /\ \/ \E c \in Configs : ChangeConfig(c)
          \/ TrayStarts
          \/ \E file \in Edits : UserEdits(file)
          \/ \E n \in ScriptNames : UserScripts(n)

FileManagerSpec == FileManagerInit /\ [][FileManagerNext]_fmVars

(***************************************************************************)
(* Properties.                                                              *)
(***************************************************************************)
FileManagerTypeOK ==
    /\ setting \in Configs /\ due \in BOOLEAN
    /\ \A a \in Appliers : job[a].stage \in {"idle", "begun", "read", "written"}
    /\ scripts \in [ScriptNames -> {"none", "ours", "theirs"}]
    /\ raced \subseteq Appliers /\ touched \in BOOLEAN
    /\ failures \in 0..MaxTouches /\ touches \in 0..MaxTouches

\* Once both have applied the config, and nothing failed or was edited meanwhile, our
\* bookmarks are one for every synced folder that is there and that the user has none of, and
\* the scripts are there when the switch is on.
ShortcutsAgree ==
    (~due /\ ~touched /\ failures = 0 /\ \A a \in Appliers : job[a] = NoJob) =>
        LET wanted == {f \in SpotsOf(lines) \cup Spots :
                          \E i \in 1..Len(DesiredBookmarks(setting)) :
                              DesiredBookmarks(setting)[i] = f}
        IN  /\ {lines[i].place : i \in {j \in 1..Len(lines) : lines[j].ours}}
                   = wanted \ SpotsOf(Theirs(lines))
            /\ Cardinality(SpotsOf(lines)) = Len(lines)
            /\ \A n \in ScriptNames : scripts[n] \in {"theirs", IF setting.on THEN "ours"
                                                                ELSE "none"}

\* Only ours is ever changed: applying leaves the user's bookmarks and their order and the
\* user's scripts as they are, whatever the window, the tray and the switch do, unless the
\* file was written while it was being merged.
OnlyOursChange ==
    [][/\ \A a \in Appliers \ raced :
             WriteBookmarks(a) => Theirs(lines') = Theirs(lines)
       /\ ApplierStep => \A n \in ScriptNames : scripts[n] = "theirs" => scripts'[n] = "theirs"
      ]_fmVars

ShortcutsAreOurs == []ShortcutsAgree /\ OnlyOursChange
=============================================================================
