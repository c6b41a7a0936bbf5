------------------------------ MODULE Watchers ------------------------------
(***************************************************************************)
(* Who watches, with which settings: the Controller's start_watch and       *)
(* stop_watch, the window's Auto sync switch, the tray's tick that adopts a *)
(* changed config file and starts its watcher again, and watch.lock between *)
(* them (src/src/service.rs, src/src/bin/gui.rs, src/src/watcher.rs).  What *)
(* a watcher does once it has the lock is WatchLoop's, how the lock is held *)
(* ProcessLock's.                                                           *)
(***************************************************************************)
EXTENDS Naturals, FiniteSets

CONSTANTS
    Tray, Window, \* the two frontends with a Controller of their own
    Watches,      \* the threads of start_watch, in all processes
    Elsewhere,    \* the watcher of another process: `watch` on a terminal
    Vacant,
    MaxSaves      \* bounds the writes of the config

Hosts == {Tray, Window}

ASSUME WatchersAssumption ==
    /\ Tray # Window /\ Vacant # Elsewhere /\ {Vacant, Elsewhere} \cap Watches = {}
    /\ IsFiniteSet(Watches) /\ MaxSaves \in Nat

VARIABLES
    disk,      \* the config file: how often it was written, whether it says Auto sync, and
               \* whether a writer has emptied it and not filled it yet
    writer,    \* the window's frame that changed its settings has still to save them
    settings,  \* the settings the tray adopted, by the version of the file
    auto,      \* of each frontend: its settings say Auto sync
    tick,      \* how far the tray is
    seen,      \* last_mtime
    pending,   \* pending_restart
    slot,      \* Controller::watch_stop
    shown,     \* AppState::watching
    watch,     \* of each thread: how far it is, whose it is, whether it was told to stop,
               \* and the settings it was started with
    watchLock  \* who holds watch.lock

watchersVars == <<disk, writer, settings, auto, tick, seen, pending, slot, shown, watch,
                  watchLock>>

\* A version of the file: an emptied file is one as well, with no folder in it.
FileVersions == 0..(2 * MaxSaves)
Unstarted == [stage |-> "new", host |-> Tray, told |-> FALSE, with |-> 0]
WatchStages == {"new", "spawned", "watching", "leaving", "gone"}

WatchersTypeOK ==
    /\ disk \in [version : FileVersions, auto : BOOLEAN, empty : BOOLEAN]
    /\ writer \in BOOLEAN
    /\ settings \in FileVersions /\ auto \in [Hosts -> BOOLEAN]
    /\ tick \in {"down", "read", "config", "resume"}
    /\ seen \in FileVersions /\ pending \in BOOLEAN
    /\ slot \in [Hosts -> Watches \cup {Vacant}] /\ shown \in [Hosts -> BOOLEAN]
    /\ watch \in [Watches -> [stage : WatchStages, host : Hosts, told : BOOLEAN,
                              with : FileVersions]]
    /\ watchLock \in Watches \cup {Elsewhere, Vacant}

WatchersInit ==
    /\ disk \in [version : {0}, auto : BOOLEAN, empty : {FALSE}]
    /\ writer = FALSE
    /\ settings = 0 /\ auto = [h \in Hosts |-> disk.auto]
    /\ tick = "down" /\ seen = 0 /\ pending = FALSE
    /\ slot = [h \in Hosts |-> Vacant] /\ shown = [h \in Hosts |-> FALSE]
    /\ watch = [w \in Watches |-> Unstarted]
    /\ watchLock = Vacant

File == <<disk, writer>>
Chosen == <<settings, auto>>
TrayState == <<tick, seen, pending>>
Watching == <<slot, shown, watch>>

Stage(w, from, to) == watch[w].stage = from /\ watch' = [watch EXCEPT ![w].stage = to]
\* A thread of h that has not come to its end.
Lives(w, h) == watch[w].host = h /\ watch[w].stage \in {"spawned", "watching"}

\* The thread w is free to be started: none before had it, or none that a slot remembers.
Unused(w) ==
    \/ watch[w].stage = "new"
    \/ watch[w].stage = "gone" /\ \A h \in Hosts : slot[h] # w

(***************************************************************************)
(* The Controller.                                                          *)
(***************************************************************************)
(* start_watch with the settings numbered v: nothing while the slot is taken. *)
StartWatch(h, v) ==
    IF slot[h] # Vacant
    THEN UNCHANGED Watching
    ELSE \E w \in Watches :
            /\ Unused(w)
            /\ watch' = [watch EXCEPT ![w] =
                            [stage |-> "spawned", host |-> h, told |-> FALSE, with |-> v]]
            /\ slot' = [slot EXCEPT ![h] = w]
            /\ shown' = [shown EXCEPT ![h] = TRUE]

\* (Slip) The slot is given up and its watcher not told.
ForgetWatch(h) ==
    /\ slot' = [slot EXCEPT ![h] = Vacant]
    /\ shown' = [shown EXCEPT ![h] = FALSE]
    /\ UNCHANGED watch

(* stop_watch. *)
StopWatch(h) ==
    /\ slot' = [slot EXCEPT ![h] = Vacant]
    /\ shown' = [shown EXCEPT ![h] = FALSE]
    /\ watch' = [w \in Watches |-> IF w = slot[h] THEN [watch[w] EXCEPT !.told = TRUE]
                                   ELSE watch[w]]

(***************************************************************************)
(* start_watch's thread.                                                    *)
(***************************************************************************)
(* DaemonLock::acquire; the loop comes to look at its flag later. *)
TakeWatchLock(w) ==
    /\ watchLock = Vacant
    /\ Stage(w, "spawned", "watching")
    /\ watchLock' = w
    /\ UNCHANGED <<File, Chosen, TrayState, slot, shown>>

(* It is held, or its file cannot be opened. *)
WatchRefused(w) ==
    /\ Stage(w, "spawned", "leaving")
    /\ UNCHANGED <<File, Chosen, TrayState, slot, shown, watchLock>>

(* The loop sees the flag, or fails to watch the folders: the lock is let go. *)
LeaveWatch(w) ==
    /\ Stage(w, "watching", "leaving")
    /\ watchLock' = Vacant
    /\ UNCHANGED <<File, Chosen, TrayState, slot, shown>>

\* (Slip) A thread that has the lock no longer looks at its flag.
LooksBefore(w) ==
    /\ watch[w].told /\ Stage(w, "spawned", "leaving")
    /\ UNCHANGED <<File, Chosen, TrayState, slot, shown, watchLock>>

WatchToldToStop(w) == watch[w].told /\ LeaveWatch(w)

(* The end of the thread: the slot keeps its flag. *)
EndWatch(w) ==
    /\ Stage(w, "leaving", "gone")
    /\ shown' = [shown EXCEPT ![watch[w].host] = FALSE]
    /\ UNCHANGED <<File, Chosen, TrayState, slot, watchLock>>

(* A watcher of another process comes and goes. *)
WatchElsewhere ==
    /\ \/ watchLock = Vacant /\ watchLock' = Elsewhere
       \/ watchLock = Elsewhere /\ watchLock' = Vacant
    /\ UNCHANGED <<File, Chosen, TrayState, Watching>>

(***************************************************************************)
(* The window that is not in tray mode.                                     *)
(***************************************************************************)
(* App::new: Auto sync that was on is resumed. *)
OpenWindow ==
    /\ auto[Window] /\ ~writer
    /\ \A w \in Watches : watch[w].host = Window => Unused(w)
    /\ StartWatch(Window, 0)
    /\ UNCHANGED <<File, Chosen, TrayState, watchLock>>

(* footer_auto: the switch shows AppState::watching.  Either click leaves settings to save. *)
SwitchOff ==
    /\ shown[Window] /\ ~writer
    /\ disk.version + 2 \in FileVersions
    /\ StopWatch(Window)
    /\ auto' = [auto EXCEPT ![Window] = FALSE]
    /\ writer' = TRUE
    /\ UNCHANGED <<disk, settings, TrayState, watchLock>>

(* Any other setting, and the switch of a window in tray mode, is only saved. *)
EditSettings ==
    /\ ~writer
    /\ disk.version + 2 \in FileVersions
    /\ \/ UNCHANGED auto
       \/ /\ \A w \in Watches : watch[w].host = Window => Unused(w)
          /\ auto' = [auto EXCEPT ![Window] = ~@]
    /\ writer' = TRUE
    /\ UNCHANGED <<disk, settings, TrayState, Watching, watchLock>>

SwitchOn ==
    /\ ~shown[Window] /\ ~writer
    /\ disk.version + 2 \in FileVersions
    /\ StartWatch(Window, 0)
    /\ auto' = [auto EXCEPT ![Window] = TRUE]
    /\ writer' = TRUE
    /\ UNCHANGED <<disk, settings, TrayState, watchLock>>

(* save_silent and config::save: the file is emptied, ... *)
SaveOpens ==
    /\ writer /\ ~disk.empty
    /\ disk' = [version |-> disk.version + 1, auto |-> FALSE, empty |-> TRUE]
    /\ UNCHANGED <<writer, Chosen, TrayState, Watching, watchLock>>

(* ... and filled. *)
SaveWrites ==
    /\ writer /\ disk.empty
    /\ disk' = [version |-> disk.version + 1, auto |-> auto[Window], empty |-> FALSE]
    /\ writer' = FALSE
    /\ UNCHANGED <<Chosen, TrayState, Watching, watchLock>>

(***************************************************************************)
(* The tray.                                                                *)
(***************************************************************************)
(* run_tray_child: the config is read and Auto sync resumed, ... *)
TrayStarts ==
    /\ tick = "down" /\ ~disk.empty
    /\ settings' = disk.version
    /\ auto' = [auto EXCEPT ![Tray] = disk.auto]
    /\ IF disk.auto
       THEN StartWatch(Tray, disk.version)
       ELSE UNCHANGED Watching
    /\ tick' = "read"
    /\ UNCHANGED <<File, seen, pending, watchLock>>

(* ... and only once the desktop parts stand is the file's time looked at. *)
TrayTicks ==
    /\ tick = "read"
    /\ tick' = "config"
    /\ seen' = disk.version
    /\ UNCHANGED <<File, Chosen, pending, Watching, watchLock>>

(* A tick: the file is as it was, ... *)
NothingChanged ==
    /\ tick = "config" /\ seen = disk.version
    /\ pending
    /\ tick' = "resume"
    /\ UNCHANGED <<File, Chosen, seen, pending, Watching, watchLock>>

(* ... or it changed: commit_config, stop_watch.  A file found emptied is a config with *)
(* no folders.                                                                          *)
AdoptConfig ==
    /\ tick = "config" /\ seen # disk.version
    /\ seen' = disk.version
    /\ settings' = disk.version
    /\ auto' = [auto EXCEPT ![Tray] = disk.auto]
    /\ StopWatch(Tray)
    /\ pending' = TRUE /\ tick' = "resume"
    /\ UNCHANGED <<File, watchLock>>

(* The file does not parse: it is not looked at again until it changes. *)
AdoptNothing ==
    /\ tick = "config" /\ seen # disk.version
    /\ seen' = disk.version
    /\ tick' = "resume"
    /\ UNCHANGED <<File, Chosen, pending, Watching, watchLock>>

(* The rest of the tick: once nobody holds watch.lock, the watcher is started again. *)
ResumeWatch ==
    /\ tick = "resume"
    /\ IF pending /\ watchLock = Vacant
       THEN /\ pending' = FALSE
            /\ IF auto[Tray] THEN StartWatch(Tray, settings)
               ELSE UNCHANGED Watching
       ELSE UNCHANGED <<pending, Watching>>
    /\ tick' = "config"
    /\ UNCHANGED <<File, Chosen, seen, watchLock>>

(* Quit: the watcher is told, and the process ends with its threads. *)
TrayQuits ==
    /\ tick \notin {"down", "read"}
    /\ tick' = "down" /\ seen' = 0 /\ pending' = FALSE
    /\ slot' = [slot EXCEPT ![Tray] = Vacant] /\ shown' = [shown EXCEPT ![Tray] = FALSE]
    /\ watch' = [w \in Watches |-> IF watch[w].host = Tray /\ watch[w].stage # "new"
                                   THEN [watch[w] EXCEPT !.stage = "gone", !.told = TRUE]
                                   ELSE watch[w]]
    /\ watchLock' = IF watchLock \in Watches /\ watch[watchLock].host = Tray THEN Vacant
                    ELSE watchLock
    /\ UNCHANGED <<File, Chosen>>

-----------------------------------------------------------------------------
WatchThread(w) == TakeWatchLock(w) \/ WatchRefused(w) \/ WatchToldToStop(w) \/ EndWatch(w)
TrayTurn == TrayTicks \/ NothingChanged \/ AdoptConfig \/ ResumeWatch

WatchersNext ==
    \/ \E w \in Watches : WatchThread(w) \/ LeaveWatch(w)
    \/ WatchElsewhere
    \/ OpenWindow \/ SwitchOff \/ SwitchOn \/ EditSettings \/ SaveOpens \/ SaveWrites
    \/ TrayStarts \/ TrayTurn \/ AdoptNothing \/ TrayQuits

\* Threads run and the tray's timer fires; a watcher elsewhere need not end, nor a file
\* parse.
WatchersFairness ==
    /\ \A w \in Watches : WF_watchersVars(WatchThread(w))
    /\ WF_watchersVars(TrayTurn)

WatchersSpec == WatchersInit /\ [][WatchersNext]_watchersVars /\ WatchersFairness

(***************************************************************************)
(* Properties.                                                              *)
(***************************************************************************)
\* A watcher nobody has told to stop is the one its Controller can stop, and in the tray it
\* was started with the settings the tray last adopted; however quickly settings are saved.
NoStrayWatcher ==
    \A h \in Hosts, w \in Watches :
        Lives(w, h) /\ ~watch[w].told =>
            slot[h] = w /\ (h = Tray => watch[w].with = settings)

\* "watching" is only shown while a watcher lives that has not been told to stop.
WatchingIsBacked == \A h \in Hosts : shown[h] => \E w \in Watches : slot[h] = w /\ ~watch[w].told
                                                     /\ watch[w].stage # "gone"

\* The switch and the settings rule over the threads.
TheLatestWatches == NoStrayWatcher /\ WatchingIsBacked

\* A change of the file the tray has still to look at is adopted in the end, unless the file
\* does not parse, and every watcher with other settings comes to its end.
OldSettingsEnd ==
    tick \in {"config", "resume"} /\ seen # disk.version
        ~> \/ tick = "down"
           \/ /\ seen = disk.version
              /\ settings = seen => \A w \in Watches : Lives(w, Tray) => watch[w].with = settings
=============================================================================
