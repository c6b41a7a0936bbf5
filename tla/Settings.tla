------------------------------ MODULE Settings ------------------------------
(***************************************************************************)
(* The config file (src/src/config.rs): what its text means, how it is      *)
(* written back, and the three that use it - the window, which rewrites it; *)
(* the watch daemon, which reads it again before every run (watcher.rs);    *)
(* and whoever edits it by hand.  A text is a sequence of symbols: "/", "~",*)
(* "$", braces, plain letters, and "w" for a letter beyond ASCII.           *)
(***************************************************************************)
EXTENDS Naturals, Sequences

CONSTANTS
    HomeDir, Value, \* the texts of $HOME and of the environment's variable x
    DefaultRoot,    \* the text of /my-files
    LocalTexts,         \* texts a folder of this side may be named by
    RemoteFolders,        \* folders of Proton Drive the window's browser shows
    RootTexts,          \* texts the window may be given for the root of it
    HandWritten,    \* config files someone may write
    MaxEdits        \* bounds the changes of the file

ASSUME SettingsAssumption == MaxEdits \in Nat

VARIABLES
    file,    \* what the config file holds
    window,  \* the window's Config
    daemon,  \* [base, cur]: the Config the daemon started with, and the one of its last run
    saving,  \* the window is between emptying the file and writing it
    edits

setVars == <<file, window, daemon, saving, edits>>

\* A file of no text parses, and says nothing; one that does not parse says nothing either.
Emptied == [root |-> DefaultRoot, set |-> <<>>, up |-> <<>>, down |-> <<>>, pairs |-> <<>>]
Broken == [Emptied EXCEPT !.root = <<"#">>]
Illegible == [Emptied EXCEPT !.root = <<"!">>]

(***************************************************************************)
(* Names of folders.                                                        *)
(***************************************************************************)
\* Positions of what is no slash.
Solid(s) == {i \in 1..Len(s) : s[i] # "/"}
Greatest(S) == IF S = {} THEN 0 ELSE CHOOSE i \in S : \A j \in S : j <= i
Least(S) == CHOOSE i \in S : \A j \in S : i <= j
TrimEnd(s) == SubSeq(s, 1, Greatest(Solid(s)))
TrimBoth(s) == IF Solid(s) = {} THEN <<>> ELSE SubSeq(s, Least(Solid(s)), Greatest(Solid(s)))

Letters == {"x", "y"}
Lookup(name) == IF name = <<"x">> THEN Value ELSE <<>>

\* expand_vars puts every byte of a letter beyond ASCII as a letter of its own.
ReadAs(symbol) == IF symbol = "w" THEN <<"w", "w">> ELSE <<symbol>>

\* The name a "$" at position i refers to, and where it ends.
Reference(s, i) ==
    LET closes == {j \in i + 2..Len(s) : s[j] = "}"}
        stops  == {j \in i + 1..Len(s) : s[j] \notin Letters}
        end    == IF stops = {} THEN Len(s) + 1 ELSE Least(stops)
    IN  IF i < Len(s) /\ s[i + 1] = "{"
        THEN IF closes = {} THEN [name |-> <<>>, next |-> i + 1]
             ELSE [name |-> SubSeq(s, i + 2, Least(closes) - 1), next |-> Least(closes) + 1]
        ELSE [name |-> SubSeq(s, i + 1, end - 1), next |-> end]

ExpandVars(s) ==
    LET from[i \in 1..Len(s) + 1] ==
            IF i > Len(s) THEN <<>>
            ELSE LET r == Reference(s, i)
                 IN  IF s[i] # "$" THEN ReadAs(s[i]) \o from[i + 1]
                     ELSE IF r.name = <<>> THEN <<"$">> \o from[i + 1]
                     ELSE Lookup(r.name) \o from[r.next]
    IN  from[1]

Expand(s) ==
    ExpandVars(IF s = <<"~">> THEN HomeDir
               ELSE IF Len(s) > 1 /\ SubSeq(s, 1, 2) = <<"~", "/">> THEN HomeDir \o Tail(s)
               ELSE s)

\* (Slip) An absolute name is put under the root as well.
JoinUnderRoot(root, remote) == TrimEnd(root) \o <<"/">> \o TrimBoth(remote)
JoinRemote(root, remote) ==
    IF remote # <<>> /\ remote[1] = "/"
    THEN IF TrimEnd(remote) = <<>> THEN <<"/">> ELSE TrimEnd(remote)
    ELSE IF TrimBoth(remote) = <<>> THEN TrimEnd(root)
    ELSE TrimEnd(root) \o <<"/">> \o TrimBoth(remote)

\* strip_root: a name under the root goes without it, any other stays whole.
StripRoot(root, remote) ==
    LET prefix == TrimEnd(root) \o <<"/">>
    IN  IF Len(remote) >= Len(prefix) /\ SubSeq(remote, 1, Len(prefix)) = prefix
        THEN SubSeq(remote, Len(prefix) + 1, Len(remote)) ELSE remote

\* remote_join: where a new folder of the window goes.
RemoteJoin(base, rel) ==
    IF TrimBoth(rel) = <<>> THEN TrimEnd(base) ELSE TrimEnd(base) \o <<"/">> \o TrimBoth(rel)

(***************************************************************************)
(* Excludes and transfer flags.                                             *)
(***************************************************************************)
NormalizeExcludes(list) ==
    LET out[n \in 0..Len(list)] ==
            IF n = 0 THEN <<>>
            ELSE LET e == TrimBoth(list[n])
                 IN  IF e = <<>> \/ \E i \in 1..Len(out[n - 1]) : out[n - 1][i] = e
                     THEN out[n - 1] ELSE Append(out[n - 1], e)
    IN  out[Len(list)]

Split(file0, folder) == <<"-f", file0, "-d", folder>>
DefaultFlags(kind) ==
    IF kind = "upload" THEN Split("replace", "replace") ELSE Split("remove", "remove")

\* What the one old strategy is in terms of the two of today.
Renewed(kind, old) ==
    CASE old = "keep-both"                    -> Split("rename", "rename")
      [] old = "skip"                         -> Split("skip", "skip")
      [] old = "merge" /\ kind = "upload"     -> Split("create-new-revision", "merge")
      [] old = "merge" /\ kind = "download"   -> Split("rename", "merge")
      [] OTHER                                -> DefaultFlags(kind)

MigrateFlags(flags, kind) ==
    LET \* what is left of the flags from the i-th on, and the last old strategy among them
        from[i \in 1..Len(flags) + 1] ==
            IF i > Len(flags) THEN [out |-> <<>>, old |-> "none"]
            ELSE IF flags[i] = "-c" /\ i < Len(flags)
                 THEN [from[i + 2] EXCEPT !.old = IF @ = "none" THEN flags[i + 1] ELSE @]
                 ELSE [from[i + 1] EXCEPT !.out = <<flags[i]>> \o @]
        out == from[1].out
    IN  IF from[1].old = "none" THEN IF out = <<>> THEN DefaultFlags(kind) ELSE out
        ELSE IF \E i \in 1..Len(out) : out[i] \in {"-f", "-d"} THEN out
        ELSE out \o Renewed(kind, from[1].old)

(***************************************************************************)
(* The single settings: each a key with the values it may have, and one it  *)
(* has when the file is silent.                                             *)
(***************************************************************************)
Allowed ==
    [max_delete_percent |-> {0, 20, 100},       \* of 0..100
     local_delete       |-> {"trash", "remove"},
     conflict           |-> {"keep-both", "newer", "skip"},
     compare            |-> {"size", "size+mtime", "sha1"},
     update_channel     |-> {"stable", "prerelease"},
     credentials_store  |-> {"unset", "keychain", "pass", "unsafe_file"},
     theme              |-> {"system", "light", "dark", "mine", "System", "DARK"},
     notifications      |-> BOOLEAN,
     auto_sync          |-> BOOLEAN,
     poll_interval      |-> {60, 900}]
Keys == DOMAIN Allowed

Silent ==
    [max_delete_percent |-> 20, local_delete |-> "trash", conflict |-> "keep-both",
     compare |-> "size+mtime", update_channel |-> "stable", credentials_store |-> "unset",
     theme |-> "system", notifications |-> TRUE, auto_sync |-> FALSE, poll_interval |-> 900]

\* The built-in themes go by any spelling, the others by their own.
Canonical(k, v) ==
    IF k # "theme" THEN v
    ELSE CASE v = "System" -> "system" [] v = "DARK" -> "dark" [] OTHER -> v

(***************************************************************************)
(* parse_str and to_toml.                                                   *)
(***************************************************************************)
Legible(f) ==
    /\ f # Broken
    /\ \A k \in DOMAIN f.set : f.set[k] \in Allowed[k]
    /\ \A i, j \in 1..Len(f.pairs) :
          f.pairs[i].name # "" /\ (i # j => f.pairs[i].name # f.pairs[j].name)

ParseStr(f) ==
    IF ~Legible(f) THEN Illegible
    ELSE LET root == IF TrimEnd(f.root) = <<>> THEN <<"/">> ELSE TrimEnd(f.root)
         IN  [root  |-> root,
              set   |-> [k \in Keys |-> IF k \in DOMAIN f.set THEN Canonical(k, f.set[k])
                                        ELSE Silent[k]],
              up    |-> MigrateFlags(f.up, "upload"),
              down  |-> MigrateFlags(f.down, "download"),
              pairs |-> [i \in 1..Len(f.pairs) |->
                            [name    |-> f.pairs[i].name,
                             local   |-> Expand(f.pairs[i].local),
                             remote  |-> JoinRemote(root, f.pairs[i].remote),
                             exclude |-> NormalizeExcludes(f.pairs[i].exclude)]]]

ToText(c) ==
    [root  |-> c.root,
     set   |-> [k \in {n \in Keys : n # "credentials_store" \/ c.set[n] # "unset"} |->
                   c.set[k]],
     up    |-> c.up, down |-> c.down,
     pairs |-> [i \in 1..Len(c.pairs) |->
                   [c.pairs[i] EXCEPT !.remote = StripRoot(c.root, @)]]]

(***************************************************************************)
(* Those that use the file.                                                 *)
(***************************************************************************)
SettingsInit ==
    /\ file \in {f \in HandWritten : Legible(f)}
    /\ window = ParseStr(file) /\ daemon = [base |-> ParseStr(file), cur |-> ParseStr(file)]
    /\ saving = FALSE /\ edits = 0

Touched == edits < MaxEdits /\ edits' = edits + 1

(* save: the window's settings, changed by its user; write_private empties the file ... *)
SaveBegins(c) ==
    /\ ~saving /\ Touched
    /\ window' = c /\ saving' = TRUE /\ file' = Emptied
    /\ UNCHANGED daemon

ChangeSetting(k, v) == SaveBegins([window EXCEPT !.set[k] = v])
AddPair(local, remote) ==
    /\ \A i \in 1..Len(window.pairs) : window.pairs[i].name # "new"
    /\ SaveBegins([window EXCEPT
                      !.pairs = Append(@, [name |-> "new", local |-> local,
                                           remote |-> remote, exclude |-> <<>>])])
RemovePair ==
    /\ window.pairs # <<>>
    /\ SaveBegins([window EXCEPT !.pairs = Tail(@)])
\* add_remote, and the page's own "Add folder".
Browsed(local, remote) == AddPair(local, remote)
Added(local, name) == AddPair(local, RemoteJoin(window.root, name))
MoveRoot(root) == SaveBegins([window EXCEPT !.root = root])

(* ... and fills it. *)
SaveEnds ==
    /\ saving
    /\ saving' = FALSE /\ file' = ToText(window)
    /\ UNCHANGED <<window, daemon, edits>>

EditByHand(f) ==
    /\ ~saving /\ Touched
    /\ file' = f
    /\ UNCHANGED <<window, daemon, saving>>

(* The window's next launch. *)
Relaunch ==
    /\ ~saving /\ ParseStr(file) # Illegible
    /\ window' = ParseStr(file)
    /\ UNCHANGED <<file, daemon, saving, edits>>

(* reload_cfg, before a run of the daemon. *)
Reload ==
    /\ daemon' = [daemon EXCEPT !.cur = IF ParseStr(file) = Illegible THEN daemon.base
                                        ELSE ParseStr(file)]
    /\ UNCHANGED <<file, window, saving, edits>>

-----------------------------------------------------------------------------
SettingsNext ==
    \/ \E k \in Keys : \E v \in Allowed[k] : ChangeSetting(k, Canonical(k, v))
    \/ \E local \in LocalTexts, remote \in RemoteFolders : Browsed(local, remote)
    \/ \E local \in LocalTexts : Added(local, <<"y">>)
    \/ RemovePair
    \/ \E root \in RootTexts : MoveRoot(root)
    \/ SaveEnds
    \/ \E f \in HandWritten : EditByHand(f)
    \/ Relaunch \/ Reload

SettingsSpec == SettingsInit /\ [][SettingsNext]_setVars

(***************************************************************************)
(* Properties.                                                              *)
(***************************************************************************)
IsConfig(c) == DOMAIN c = {"root", "set", "up", "down", "pairs"} /\ DOMAIN c.set = Keys

SettingsTypeOK ==
    /\ IsConfig(window) /\ IsConfig(daemon.base) /\ IsConfig(daemon.cur)
    /\ saving \in BOOLEAN /\ edits \in 0..MaxEdits

\* Names that expand to themselves.
Plain(s) == (s = <<>> \/ s[1] # "~") /\ \A i \in 1..Len(s) : s[i] \notin {"$", "w"}

\* The whole of Proton Drive, under a root that is the whole of it too.
WholeDrive(c, p) == TrimEnd(c.root) = <<>> /\ p.remote \in {<<"/">>, <<>>}

\* A Config up to slashes after the name of its root.
Tidy(c) == [c EXCEPT !.root = IF TrimEnd(@) = <<>> THEN <<"/">> ELSE TrimEnd(@)]

\* What a Config is after it was saved and loaded again is what it was, for folders whose
\* names need no expanding: no option, folder, exclude or flag is lost or turned into
\* another, whether the file began as somebody's own or the window's ("round_trips", the
\* tests of config.rs).
SettingsSurvive ==
    \A c \in {window, daemon.base, daemon.cur} :
        (\A i \in 1..Len(c.pairs) : Plain(c.pairs[i].local) /\ ~WholeDrive(c, c.pairs[i]))
            => ParseStr(ToText(c)) = Tidy(c)

\* Where a folder's text has neither a leading "~" nor a "$", it is the folder's name
\* ("Expand a leading `~` and `$VAR` / `${VAR}` references", expand).
OnlyReferencesExpand ==
    file # Broken =>
        \A i \in 1..Len(file.pairs) :
            LET text == file.pairs[i].local
            IN  (text # <<>> /\ text[1] # "~" /\ \A j \in 1..Len(text) : text[j] # "$")
                    => Expand(text) = text
=============================================================================
