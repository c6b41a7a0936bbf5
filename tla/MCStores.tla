------------------------------ MODULE MCStores ------------------------------
(***************************************************************************)
(* The merge, and what the processes read, write, ask and show - the locks, *)
(* the database of a pair, the inbox of conflicts with the notices made of  *)
(* it, the config file, the bookmarks and emblems of the file manager, the  *)
(* client's answers, the commands of the terminal, the frontends' picture   *)
(* of the runs - side by side.  In these instances they share no state: a   *)
(* behaviour is one of a single part, and the others stay as they begin.    *)
(***************************************************************************)
EXTENDS MCMerge, ProcessLock, PairDatabase, Notices, MCSettings, FileManager, MCMarks, MCRemote,
        Terminal, Controller

VARIABLE part

storeVars ==
    <<part, mergeVars, vars, dbVars, noticeVars, setVars, fmVars, markVars, remoteVars, termVars,
      ctlVars>>

(***************************************************************************)
(* Parts as they begin, in one state each.                                  *)
(***************************************************************************)
FirstInput == CHOOSE i \in Inputs : TRUE
FirstRoot == CHOOSE r \in Roots : TRUE
MergeIdle == input = FirstInput /\ MergeInit
LockIdle ==
    /\ record = NoPid /\ life = [p \in Pids |-> 0] /\ prog = [p \in Pids |-> "ours"]
    /\ Init
DbIdle == dbConfig = FirstRoot /\ dbRows = NoRows /\ dbLegacy = Nowhere /\ DbInit
NoticesIdle == topic = "status" /\ NoticesInit
SettingsIdle == file = Emptied /\ SettingsInit
FileManagerIdle ==
    lines = <<>> /\ scripts = [n \in ScriptNames |-> "none"] /\ FileManagerInit
MarksIdle == up = "down" /\ MarksInit /\ news.conflicts = {}
RemoteIdle == present = {Trunk} /\ call = "walk" /\ RemoteInit

StoresInit ==
    /\ part \in {"merge", "lock", "database", "notices", "settings", "shortcuts", "marks",
                 "remote", "terminal", "runs"}
    /\ IF part = "merge" THEN MergeInit ELSE MergeIdle
    /\ IF part = "lock" THEN Init ELSE LockIdle
    /\ IF part = "database" THEN DbInit ELSE DbIdle
    /\ IF part = "notices" THEN NoticesInit ELSE NoticesIdle
    /\ IF part = "settings" THEN SettingsInit ELSE SettingsIdle
    /\ IF part = "shortcuts" THEN FileManagerInit ELSE FileManagerIdle
    /\ IF part = "marks" THEN MarksInit ELSE MarksIdle
    /\ IF part = "remote" THEN RemoteInit ELSE RemoteIdle
    /\ TermInit /\ ControllerInit

Only(p) ==
    /\ part = p /\ UNCHANGED part
    /\ p # "merge" => UNCHANGED mergeVars
    /\ p # "lock" => UNCHANGED vars
    /\ p # "database" => UNCHANGED dbVars
    /\ p # "notices" => UNCHANGED noticeVars
    /\ p # "settings" => UNCHANGED setVars
    /\ p # "shortcuts" => UNCHANGED fmVars
    /\ p # "marks" => UNCHANGED markVars
    /\ p # "remote" => UNCHANGED remoteVars
    /\ p # "terminal" => UNCHANGED termVars
    /\ p # "runs" => UNCHANGED ctlVars

StoresNext ==
    \/ Only("merge") /\ Evaluate
    \/ Only("lock") /\ Next
    \/ Only("database") /\ DbNext
    \/ Only("notices") /\ NoticesNext
    \/ Only("settings") /\ SettingsNext
    \/ Only("shortcuts") /\ FileManagerNext
    \/ Only("marks") /\ MarksNext
    \/ Only("remote") /\ RemoteNext
    \/ Only("terminal") /\ TermNext
    \/ Only("runs") /\ ControllerNext

StoresSpec == StoresInit /\ [][StoresNext]_storeVars

\* Every part keeps to its types.
StoresTypeOK ==
    /\ MergeTypeOK /\ TypeOK /\ DbTypeOK /\ NoticesTypeOK
    /\ SettingsTypeOK /\ FileManagerTypeOK /\ MarksTypeOK /\ RemoteTypeOK
    /\ TermTypeOK /\ ControllerTypeOK
=============================================================================
