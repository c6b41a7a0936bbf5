------------------------------ MODULE Terminal ------------------------------
(***************************************************************************)
(* The command line (src/src/main.rs) and the doctor's diagnosis            *)
(* (src/src/doctor.rs) over one machine: its config, the client, the        *)
(* network, the session, the folders and who may read or write what.  A     *)
(* command is one step; what a sync does to files is PairSync's.            *)
(***************************************************************************)
EXTENDS Naturals, FiniteSets

CONSTANTS
    MaxCommands, \* bounds the commands given
    MaxFaults    \* bounds what is wrong with the machine at once

ASSUME TerminalAssumption == MaxCommands \in Nat /\ MaxFaults \in Nat

VARIABLES
    machine,  \* what a command finds
    last,     \* the command just given: which, its exit status, the machine it found, and
              \* for a sync whether it could list the remote
    commands

termVars == <<machine, last, commands>>

\* What each aspect of a machine may be.  A folder has been synced before or not; a client
\* may be too old, in a folder others can change, or not even say its version; a network
\* may be reached by a proxy alone.
Aspects ==
    [config   |-> {"ok", "empty", "bad", "none"},
     program  |-> {"fine", "old", "exposed", "mute", "gone"},
     network  |-> {"up", "down", "proxied", "proxiedDown"},
     session  |-> {"in", "out", "noKeyring"},
     store    |-> {"keychain", "unsafe_file"},
     folder   |-> {"there", "gone", "file"},
     known    |-> BOOLEAN,
     fileMode |-> {"private", "readable", "writable"},
     dirMode  |-> {"private", "readable", "writable", "sticky"},
     state    |-> {"private", "readable", "writable", "sticky", "none"},
     owner    |-> {"me", "root", "other"},
     watcher  |-> {"free", "held", "stale"},
     live     |-> {"absent", "active", "failed", "enabled", "disabled", "unasked"},
     timer    |-> {"absent", "active", "failed", "enabled", "disabled"},
     entry    |-> BOOLEAN,
     gui      |-> BOOLEAN]
Names == DOMAIN Aspects

Sound ==
    [config |-> "ok", program |-> "fine", network |-> "up", session |-> "in",
     store |-> "keychain", folder |-> "there", known |-> TRUE, fileMode |-> "private",
     dirMode |-> "private", state |-> "private", owner |-> "me", watcher |-> "free",
     live |-> "absent", timer |-> "absent", entry |-> TRUE, gui |-> TRUE]

Faults(m) == {a \in Names : m[a] # Sound[a]}

IsMachine(m) == DOMAIN m = Names /\ \A a \in Names : m[a] \in Aspects[a]

TermTypeOK ==
    /\ IsMachine(machine) /\ IsMachine(last.on)
    /\ last.command \in {"none", "doctor", "sync", "watch", "init", "login", "logout"}
    /\ last.exit \in 0..2 /\ last.saw \in BOOLEAN
    /\ commands \in 0..MaxCommands

NoCommand == [command |-> "none", exit |-> 0, on |-> Sound, saw |-> FALSE]

TermInit ==
    /\ machine = Sound
    /\ last = NoCommand
    /\ commands = 0

(***************************************************************************)
(* Doctor: the level of each check, ordered so that the worst of several is *)
(* their greatest.                                                          *)
(***************************************************************************)
LevelSkip == 0
LevelOk == 1
Info == 2
Warn == 3
Fail == 4
Worst(levels) == CHOOSE l \in levels : \A k \in levels : k <= l

\* load_config: named with -c and not there is as good as broken; the other commands look on.
Loaded(m, typo) == m.config \in {"ok", "empty"} /\ ~typo

CheckConfig(m, typo) ==
    IF ~Loaded(m, typo) THEN Fail ELSE IF m.config = "empty" THEN Info ELSE LevelOk

CheckProgram(m) ==
    CASE m.program \in {"gone", "mute"}   -> Fail
      [] m.program \in {"old", "exposed"} -> Warn
      [] OTHER                            -> LevelOk

CheckNetwork(m, offline) ==
    IF offline THEN LevelSkip
    ELSE CASE m.network = "up"      -> LevelOk
           [] m.network = "down"    -> Fail
           [] OTHER                 -> Warn

\* Whether the client gets through to Proton.
Reaches(m) == m.network \in {"up", "proxied"}

\* (Slip) A listing that fails for whatever reason is not held against the session.
CredentialsUnasked(m, typo, offline) ==
    IF Loaded(m, typo) /\ ~offline /\ m.session = "in" THEN LevelOk ELSE LevelSkip
\* check_credentials: the remote root listed, if everything it takes is there.
CheckCredentials(m, typo, offline) ==
    IF \/ ~Loaded(m, typo) \/ offline \/ CheckProgram(m) = Fail
       \/ CheckNetwork(m, offline) = Fail
    THEN LevelSkip
    ELSE IF m.session # "in" THEN Fail
    ELSE IF ~Reaches(m) \/ m.store = "unsafe_file" THEN Warn ELSE LevelOk

CheckFolders(m, typo) ==
    IF ~Loaded(m, typo) THEN LevelSkip
    ELSE IF m.config = "empty" THEN Info
    ELSE CASE m.folder = "file"   -> Fail
           [] m.folder = "gone"   -> Warn
           [] OTHER               -> LevelOk

\* owner_finding, assess: what is wrong with one path, LevelOk for nothing.
OwnerFinding(owner, mustWrite) ==
    IF owner = "me" THEN LevelOk ELSE IF owner = "root" /\ ~mustWrite THEN Warn ELSE Fail
Assess(mode, owner, private, mustWrite) ==
    IF OwnerFinding(owner, mustWrite) # LevelOk THEN OwnerFinding(owner, mustWrite)
    ELSE CASE mode = "writable"                            -> Fail
           [] private /\ mode \in {"readable", "sticky"}   -> Warn
           [] OTHER                                        -> LevelOk

CheckPermissions(m, typo) ==
    LET file  == IF m.config = "none" \/ typo THEN {}
                 ELSE {Assess(m.fileMode, m.owner, TRUE, FALSE),
                       Assess(m.dirMode, m.owner, FALSE, FALSE)}
        state == IF ~Loaded(m, typo) \/ m.state = "none" THEN {}
                 ELSE {Assess(m.state, m.owner, TRUE, TRUE)}
    IN  IF file \cup state = {} THEN LevelSkip ELSE Worst(file \cup state)

CheckSystemd(m) ==
    IF m.live = "unasked" THEN LevelSkip
    ELSE CASE m.live = "absent" /\ m.timer = "absent"             -> Info
           [] {m.live, m.timer} \cap {"failed", "enabled"} # {}   -> Warn
           [] m.live = "active" /\ m.timer = "active"             -> Warn
           [] OTHER                                               -> LevelOk

CheckDaemon(m, typo) ==
    IF ~Loaded(m, typo) THEN LevelSkip ELSE IF m.watcher = "held" THEN LevelOk ELSE Info

CheckDesktop(m) ==
    CASE m.entry /\ m.gui        -> LevelOk
      [] ~m.entry /\ ~m.gui      -> Info
      [] OTHER                   -> Warn

Report(m, typo, offline) ==
    [config      |-> CheckConfig(m, typo),
     cli         |-> CheckProgram(m),
     network     |-> CheckNetwork(m, offline),
     credentials |-> CheckCredentials(m, typo, offline),
     folders     |-> CheckFolders(m, typo),
     permissions |-> CheckPermissions(m, typo),
     systemd     |-> CheckSystemd(m),
     daemon      |-> CheckDaemon(m, typo),
     desktop     |-> CheckDesktop(m)]

Levels(report) == {report[c] : c \in DOMAIN report}
HasFailures(report) == Fail \in Levels(report)

(***************************************************************************)
(* The commands.                                                            *)
(***************************************************************************)
Command(name, exit, saw) ==
    /\ commands < MaxCommands /\ commands' = commands + 1
    /\ last' = [command |-> name, exit |-> exit, on |-> machine, saw |-> saw]

\* The client lists the remote.
Lists(m) == m.program \notin {"gone", "mute"} /\ Reaches(m) /\ m.session = "in"

(* cmd_doctor; a probe of the remote that fails is an error of its own. *)
Doctor(typo, offline, probe) ==
    /\ Command("doctor",
               IF probe /\ Loaded(machine, typo) /\ ~Lists(machine) THEN 2
               ELSE IF HasFailures(Report(machine, typo, offline)) THEN 1 ELSE 0,
               FALSE)
    /\ UNCHANGED machine

\* A folder of the config that cannot be synced: it is gone although it was synced before,
\* or is no folder.
Refused(m) == m.folder = "file" \/ (m.folder = "gone" /\ m.known)

(* cmd_sync, of every pair or of one by a name the config may not know; with changes to *)
(* apply on this side or without.  A remote that cannot be listed is no error by itself.*)
Sync(unknown, changes) ==
    LET runs   == machine.config = "ok" /\ ~unknown /\ machine.program # "gone"
        passes == runs /\ ~Refused(machine)
    IN  /\ Command("sync",
                   IF machine.config \in {"bad", "none"} \/ unknown THEN 2
                   ELSE IF \/ machine.program = "gone"
                           \/ runs /\ (Refused(machine) \/ (changes /\ ~Lists(machine)))
                        THEN 1 ELSE 0,
                   passes /\ Lists(machine))
        /\ machine' = IF passes /\ Lists(machine)
                      THEN [machine EXCEPT !.folder = "there", !.known = TRUE,
                                           !.state = IF @ = "none" THEN "private" ELSE @]
                      ELSE machine

(* cmd_watch: it ends at once, or holds the lock until it is interrupted. *)
Watch(unknown) ==
    \/ /\ \/ machine.config # "ok" \/ unknown \/ machine.program = "gone"
          \/ machine.watcher = "held"
       /\ Command("watch",
                  IF machine.config \in {"ok", "empty"} /\ ~unknown /\ machine.program = "gone"
                  THEN 1 ELSE 2, FALSE)
       /\ UNCHANGED machine
    \/ /\ machine.config = "ok" /\ ~unknown /\ machine.program # "gone"
       /\ machine.watcher # "held"
       /\ Command("watch", 0, FALSE)
       /\ machine' = [machine EXCEPT !.watcher = "held",
                                     !.state = IF @ = "none" THEN "private" ELSE @,
                                     !.folder = IF @ = "gone" /\ ~machine.known THEN "there"
                                                ELSE @]

\* The starter config, of no folders yet, private to the user.
Written(m) == [m EXCEPT !.config = "empty", !.fileMode = "private"]

(* cmd_init: not over a config that is there, unless it is forced to. *)
InitConfig(force) ==
    IF machine.config # "none" /\ ~force
    THEN Command("init", 1, FALSE) /\ UNCHANGED machine
    ELSE IF machine.owner # "me"
         THEN /\ Command("init", 2, FALSE)
              /\ machine' = IF machine.config # "none" /\ machine.fileMode = "writable"
                            THEN [machine EXCEPT !.config = "empty"] ELSE machine
         ELSE Command("init", 0, FALSE) /\ machine' = Written(machine)

(* cmd_login, cmd_logout: what the client says. *)
Session(name, wanted, works) ==
    LET runs == machine.config \in {"ok", "empty"} /\ works
    IN  /\ Command(name, IF runs THEN 0 ELSE 2, FALSE)
        /\ machine' = IF runs THEN [machine EXCEPT !.session = wanted] ELSE machine

Login == Session("login", "in", machine.session # "noKeyring"
                                    /\ Lists([machine EXCEPT !.session = "in"]))
Logout == Session("logout", "out", Lists(machine))

(* Something about the machine changes. *)
Happens(a) ==
    /\ \E v \in Aspects[a] \ {machine[a]} : machine' = [machine EXCEPT ![a] = v]
    /\ Cardinality(Faults(machine')) <= MaxFaults
    /\ last' = NoCommand /\ UNCHANGED commands

-----------------------------------------------------------------------------
TermNext ==
    \/ \E typo, offline, probe \in BOOLEAN : Doctor(typo, offline, probe)
    \/ \E unknown, changes \in BOOLEAN : Sync(unknown, changes)
    \/ \E unknown \in BOOLEAN : Watch(unknown)
    \/ \E force \in BOOLEAN : InitConfig(force)
    \/ Login \/ Logout
    \/ \E a \in Names : Happens(a)

TermSpec == TermInit /\ [][TermNext]_termVars

(***************************************************************************)
(* Properties.                                                              *)
(***************************************************************************)
Diagnosis == Report(last.on, FALSE, FALSE)

\* Where a sync goes wrong or cannot see the remote, the doctor has something to say of the
\* config, the client, the network, the session or the folders of that machine; and what it
\* calls a failure there does keep a sync from seeing the remote ("Will stop syncing").
DoctorForesees ==
    last.command = "sync" =>
        /\ last.exit = 1 \/ (last.on.config = "ok" /\ ~last.saw /\ last.exit # 2) =>
              \E c \in {"cli", "network", "credentials", "folders"} : Diagnosis[c] \in {Warn, Fail}
        /\ last.saw =>
              \A c \in {"config", "cli", "network", "credentials", "folders"} :
                  Diagnosis[c] # Fail

\* The doctor finds nothing wrong with the config a successful `init` leaves behind, however
\* loose the file it replaced was.
InitIsPrivate ==
    last.command = "init" /\ last.exit = 0 =>
        /\ Assess(machine.fileMode, machine.owner, TRUE, FALSE) = LevelOk
        /\ Report(machine, FALSE, FALSE).config # Fail

\* The terminal's answers agree with each other.
TerminalAgrees == DoctorForesees /\ InitIsPrivate
=============================================================================
