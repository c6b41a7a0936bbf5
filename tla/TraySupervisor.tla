--------------------------- MODULE TraySupervisor ---------------------------
(***************************************************************************)
(* Tray mode: the supervisor (`--tray`) that holds the tray lock, the tray  *)
(* it runs as a child and starts again after a crash, and the window that   *)
(* looks whether there is one (src/src/tray_policy.rs, module supervisor    *)
(* and poll_daemon of src/src/bin/gui.rs).  The lock itself is ProcessLock's.*)
(* Time is counted in ticks; how long a pause lasts is left open.           *)
(***************************************************************************)
EXTENDS Naturals, Sequences, FiniteSets

CONSTANTS
    Supervisors,   \* the supervisor processes ever started
    Nobody,
    MaxRestarts,   \* MAX_RESTARTS_IN_WINDOW
    RestartWindow, \* RESTART_WINDOW, in ticks
    MaxSpawns,     \* MAX_WINDOW_SPAWN_ATTEMPTS
    MaxTime        \* bounds the ticks

ASSUME TrayAssumption ==
    /\ Nobody \notin Supervisors
    /\ MaxRestarts \in Nat /\ RestartWindow \in Nat /\ MaxSpawns \in Nat /\ MaxTime \in Nat

VARIABLES
    super,     \* of each supervisor: how far it is
    told,      \* STOP: it was sent SIGTERM or SIGINT
    forwards,  \* CHILD: its handler knows whom to pass a signal on to
    kid,       \* its child: how far it is
    restarts,  \* RestartLog
    restarted, \* history: every restart it decided on
    trayLock,  \* who holds the tray lock
    desktop,   \* the display session's socket is there
    window,    \* the open window: starts made, and how long ago the last was
    tries,     \* history: starts made since it last saw a tray, or was told to retry
    time

trayVars == <<super, told, forwards, kid, restarts, restarted, trayLock, desktop, window,
              tries, time>>

\* A child is forked, asks for a signal at its parent's death, looks whether the parent is
\* still there, becomes another program, and as that looks who holds the tray lock.
KidStages == {"none", "forked", "armed", "vetted", "loaded", "running", "quit", "crashed"}
SuperStages == {"new", "top", "spawning", "publishing", "rechecking", "waiting", "returned",
                "deciding", "pausing", "over", "gaveUp"}
Waits == {"never", "starting", "soon", "due"}

TrayTypeOK ==
    /\ super \in [Supervisors -> SuperStages]
    /\ told \in [Supervisors -> BOOLEAN] /\ forwards \in [Supervisors -> BOOLEAN]
    /\ kid \in [Supervisors -> KidStages]
    /\ restarts \in [Supervisors -> Seq(0..MaxTime)]
    /\ restarted \in [Supervisors -> Seq(0..MaxTime)]
    /\ trayLock \in Supervisors \cup {Nobody}
    /\ desktop \in BOOLEAN
    /\ window \in [attempts : 0..MaxSpawns, since : Waits]
    /\ tries \in 0..(MaxSpawns + 1) /\ time \in 0..MaxTime

TrayInit ==
    /\ super = [s \in Supervisors |-> "new"]
    /\ told = [s \in Supervisors |-> FALSE] /\ forwards = [s \in Supervisors |-> FALSE]
    /\ kid = [s \in Supervisors |-> "none"]
    /\ restarts = [s \in Supervisors |-> <<>>] /\ restarted = [s \in Supervisors |-> <<>>]
    /\ trayLock = Nobody /\ desktop = TRUE
    /\ window = [attempts |-> 0, since |-> "never"] /\ tries = 0
    /\ time = 0

On(s) == super[s] \notin {"new", "over", "gaveUp"}
AtStage(s, stage) == super[s] = stage
To(s, stage) == super' = [super EXCEPT ![s] = stage]
Becoming(s, stage) == kid' = [kid EXCEPT ![s] = stage]
Logs == <<restarts, restarted>>
Process == <<told, forwards, Logs>>
Desktop == <<desktop, window, tries, time>>

(***************************************************************************)
(* supervisor::run and tray_policy::supervise.                              *)
(***************************************************************************)
(* `--tray`: the first takes the lock; one that finds it taken has nothing to do. *)
Launched(s) ==
    /\ AtStage(s, "new") /\ trayLock = Nobody
    /\ To(s, "top") /\ trayLock' = s

\* The process is gone, and the lock with it.
Finish(s, why) ==
    /\ To(s, why)
    /\ trayLock' = Nobody
    /\ told' = [told EXCEPT ![s] = FALSE] /\ forwards' = [forwards EXCEPT ![s] = FALSE]
    /\ restarts' = [restarts EXCEPT ![s] = <<>>] /\ restarted' = [restarted EXCEPT ![s] = <<>>]

LaunchTray(s) ==
    /\ Launched(s)
    /\ UNCHANGED <<kid, Process, Desktop>>

(* The head of the loop. *)
LoopTop(s) ==
    /\ AtStage(s, "top")
    /\ \/ /\ told[s] \/ ~desktop
          /\ Finish(s, "over") /\ UNCHANGED kid
       \/ /\ ~told[s] /\ desktop
          /\ \/ To(s, "spawning") /\ Becoming(s, "forked")
             \* It cannot be started at all: counts as a crash.
             \/ To(s, "deciding") /\ Becoming(s, "crashed")
          /\ UNCHANGED <<Process, trayLock>>
    /\ UNCHANGED Desktop

(* spawn returns once the child is another program. *)
Spawned(s) ==
    /\ AtStage(s, "spawning")
    /\ kid[s] \in {"loaded", "running", "quit", "crashed"}
    /\ To(s, "publishing")
    /\ UNCHANGED <<kid, Process, trayLock, Desktop>>

(* wait_child: the handler learns of the child, ... *)
PublishPid(s) ==
    /\ AtStage(s, "publishing")
    /\ forwards' = [forwards EXCEPT ![s] = TRUE]
    /\ To(s, "rechecking")
    /\ UNCHANGED <<told, kid, Logs, trayLock, Desktop>>

\* What SIGTERM does to the child: as the tray it dies of it.
Terminated(k) == IF k \in {"loaded", "running"} THEN "crashed" ELSE k

\* (Slip) A stop that came before the handler knew is forgotten.
StopSeenNever(s) == FALSE
StopSeen(s) == told[s]

(* ... a stop that came before had nobody to go to, ... *)
RecheckStop(s) ==
    /\ AtStage(s, "rechecking")
    /\ IF StopSeen(s) THEN Becoming(s, Terminated(kid[s])) ELSE UNCHANGED kid
    /\ To(s, "waiting")
    /\ UNCHANGED <<told, forwards, Logs, trayLock, Desktop>>

(* ... and the child ends. *)
Wait(s) ==
    /\ AtStage(s, "waiting") /\ kid[s] \in {"quit", "crashed"}
    /\ forwards' = [forwards EXCEPT ![s] = FALSE]
    /\ To(s, "returned")
    /\ UNCHANGED <<told, kid, Logs, trayLock, Desktop>>

(* Told to stop while it ran, a child that ended did as it was asked. *)
Returned(s) ==
    /\ AtStage(s, "returned")
    /\ IF told[s]
       THEN Finish(s, "over") /\ Becoming(s, "none")
       ELSE To(s, "deciding") /\ UNCHANGED <<kid, Process, trayLock>>
    /\ UNCHANGED Desktop

\* RestartLog::count keeps the restarts of the last window, in their order.
Lately(log) ==
    LET young == {i \in DOMAIN log : time - log[i] < RestartWindow}
        Nth(k) == CHOOSE i \in young : Cardinality({j \in young : j <= i}) = k
    IN  [k \in 1..Cardinality(young) |-> log[Nth(k)]]

\* (Slip) The restart being decided is not counted.
CapReachedLate(n) == n > MaxRestarts
CapReached(n) == n >= MaxRestarts

(* supervisor_action. *)
DecideRestart(s) ==
    LET lately == Lately(restarts[s]) IN
    /\ AtStage(s, "deciding")
    /\ Becoming(s, "none")
    /\ \/ kid[s] = "quit" /\ Finish(s, "over")
       \/ kid[s] # "quit" /\ ~desktop /\ Finish(s, "over")
       \/ /\ kid[s] # "quit" /\ desktop /\ CapReached(Len(lately))
          /\ Finish(s, "gaveUp")
       \/ /\ kid[s] # "quit" /\ desktop /\ ~CapReached(Len(lately))
          /\ restarts' = [restarts EXCEPT ![s] = Append(lately, time)]
          /\ restarted' = [restarted EXCEPT ![s] = Append(@, time)]
          /\ To(s, "pausing")
          /\ UNCHANGED <<told, forwards, trayLock>>
    /\ UNCHANGED Desktop

Pause(s) ==
    /\ AtStage(s, "pausing")
    /\ IF told[s] THEN Finish(s, "over") ELSE To(s, "top") /\ UNCHANGED <<Process, trayLock>>
    /\ UNCHANGED <<kid, Desktop>>

(***************************************************************************)
(* The child: spawn_child's pre_exec, and the beginning of run_daemon.      *)
(***************************************************************************)
(* prctl(PR_SET_PDEATHSIG). *)
Arm(s) ==
    /\ kid[s] = "forked" /\ Becoming(s, "armed")
    /\ UNCHANGED <<super, Process, trayLock, Desktop>>

(* getppid: a parent that died before could send no signal. *)
Vet(s) ==
    /\ kid[s] = "armed" /\ Becoming(s, IF On(s) THEN "vetted" ELSE "none")
    /\ UNCHANGED <<super, Process, trayLock, Desktop>>

Exec(s) ==
    /\ kid[s] = "vetted" /\ Becoming(s, "loaded")
    /\ UNCHANGED <<super, Process, trayLock, Desktop>>

\* (Slip) The tray runs whoever started it.
FosteredAlways(s) == TRUE
\* The holder of the tray lock is the child's parent.
Fostered(s) == On(s) /\ trayLock = s

CheckParent(s) ==
    /\ kid[s] = "loaded"
    /\ Becoming(s, IF Fostered(s) THEN "running" ELSE IF On(s) THEN "crashed" ELSE "none")
    /\ UNCHANGED <<super, Process, trayLock, Desktop>>

(* The tray's Quit, or anything else that ends it. *)
TrayEnds(s) ==
    /\ kid[s] = "running"
    /\ \E end \in {"quit", "crashed"} : Becoming(s, end)
    /\ UNCHANGED <<super, Process, trayLock, Desktop>>

(***************************************************************************)
(* Signals, sessions and time.                                              *)
(***************************************************************************)
(* on_signal. *)
AskToStop(s) ==
    /\ On(s) /\ ~told[s]
    /\ told' = [told EXCEPT ![s] = TRUE]
    /\ IF forwards[s] THEN Becoming(s, Terminated(kid[s])) ELSE UNCHANGED kid
    /\ UNCHANGED <<super, forwards, Logs, trayLock, Desktop>>

(* Killed outright.  The kernel signals a child that asked for it; until it is another   *)
(* program the child still has the supervisor's handler, which only takes a note.        *)
KillSupervisor(s) ==
    /\ On(s)
    /\ Finish(s, "over")
    /\ Becoming(s, IF kid[s] \in {"forked", "armed", "vetted"} THEN kid[s] ELSE "none")
    /\ UNCHANGED Desktop

LogOut ==
    /\ desktop /\ desktop' = FALSE
    /\ UNCHANGED <<super, told, forwards, kid, Logs, trayLock, window, tries, time>>

TrayTick ==
    /\ time < MaxTime /\ time' = time + 1
    /\ UNCHANGED <<super, told, forwards, kid, Logs, trayLock, desktop, window, tries>>

(***************************************************************************)
(* poll_daemon of an open window: window_liveness on what it finds.         *)
(***************************************************************************)
NoSupervisor == UNCHANGED <<super, trayLock>>

(* There is one. *)
SeeAlive ==
    /\ trayLock # Nobody /\ window.attempts # 0
    /\ window' = [window EXCEPT !.attempts = 0] /\ tries' = 0
    /\ NoSupervisor

\* (Slip) The start about to be made is not counted.
TriesLeftLate(n) == n <= MaxSpawns
TriesLeft(n) == n < MaxSpawns

(* None, nor one on its way, and a start can be judged: another one.  Otherwise the window *)
(* only says how it is: restarting, or after its last start that it could not be started.  *)
Respawn ==
    /\ trayLock = Nobody /\ window.since \in {"never", "due"} /\ TriesLeft(window.attempts)
    /\ window' = [attempts |-> window.attempts + 1, since |-> "starting"]
    /\ tries' = tries + 1
    /\ \/ \E s \in Supervisors : Launched(s)
       \/ NoSupervisor \* it does not come up

(* The time since the window's last start goes by. *)
WaitOn ==
    /\ \/ window.since = "starting" /\ window' = [window EXCEPT !.since = "soon"]
       \/ window.since = "soon" /\ window' = [window EXCEPT !.since = "due"]
    /\ UNCHANGED tries /\ NoSupervisor

(* The user asks to try again. *)
Retry ==
    /\ trayLock = Nobody /\ window.since = "due" /\ ~TriesLeft(window.attempts)
    /\ window' = [attempts |-> 0, since |-> "never"] /\ tries' = 0
    /\ NoSupervisor

PollDaemon ==
    /\ SeeAlive \/ Respawn \/ WaitOn \/ Retry
    /\ UNCHANGED <<kid, Process, desktop, time>>

-----------------------------------------------------------------------------
SuperviseStep(s) ==
    \/ LoopTop(s) \/ Spawned(s) \/ PublishPid(s) \/ RecheckStop(s) \/ Wait(s) \/ Returned(s)
    \/ DecideRestart(s) \/ Pause(s)
KidStep(s) == Arm(s) \/ Vet(s) \/ Exec(s) \/ CheckParent(s)

TrayNext ==
    \/ \E s \in Supervisors :
           LaunchTray(s) \/ SuperviseStep(s) \/ KidStep(s) \/ TrayEnds(s)
               \/ AskToStop(s) \/ KillSupervisor(s)
    \/ LogOut \/ TrayTick \/ PollDaemon

\* The processes are scheduled; a tray need never end.
TrayFairness == \A s \in Supervisors : WF_trayVars(SuperviseStep(s)) /\ WF_trayVars(KidStep(s))

TraySpec == TrayInit /\ [][TrayNext]_trayVars /\ TrayFairness

(***************************************************************************)
(* Properties.                                                              *)
(***************************************************************************)
\* A tray runs only under the supervisor that holds the lock, whenever that one dies between
\* the fork and the tray's first look: "a tray with no supervisor would hold no lock and
\* nothing would ever restart it", and so there are never two.
TrayHasSupervisor == \A s \in Supervisors : kid[s] = "running" => trayLock = s

\* Told to stop, the supervisor and its tray stop, whatever it was doing at that instant: a
\* signal that comes before the handler knows of the child is passed on after.
StopIsObeyed == []<>(\A s \in Supervisors : told[s] => ~On(s))

Within1(log, i, j) == log[j] - log[i] < RestartWindow
\* A tray that dies at once is not started for ever: never more restarts in one window than
\* the cap ("Restarts allowed inside RESTART_WINDOW; the next one stops the supervisor").
RestartsAreCapped ==
    \A s \in Supervisors : \A i \in 1..Len(restarted[s]) :
        i + MaxRestarts <= Len(restarted[s]) => ~Within1(restarted[s], i, i + MaxRestarts)

\* The supervisor gives up only on a tray that keeps dying: "a tray that crashes once a day
\* is restarted every time".
GivesUpOnlyInALoop ==
    [][\A s \in Supervisors : super'[s] = "gaveUp" /\ super[s] # "gaveUp" =>
           Cardinality({i \in DOMAIN restarted[s] : time - restarted[s][i] < RestartWindow})
               >= MaxRestarts
      ]_trayVars

\* An open window does not keep starting trays that do not come up.
WindowStopsTrying == tries <= MaxSpawns

\* Trays are started again neither too often nor too seldom, by the supervisor and the window.
RestartPolicy == [](RestartsAreCapped /\ WindowStopsTrying) /\ GivesUpOnlyInALoop
=============================================================================
