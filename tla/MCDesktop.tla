------------------------------ MODULE MCDesktop ------------------------------
(***************************************************************************)
(* What has to go on by itself, side by side: the tray with its supervisor, *)
(* the watchers the frontends start, the loop of one of them, and transfers *)
(* held to a bandwidth.  In these instances they share no state: a          *)
(* behaviour is one of a single part, and the others stay as they begin.    *)
(***************************************************************************)
EXTENDS TraySupervisor, Watchers, Pacing, MCWatchLoop

VARIABLE part

desktopVars == <<part, trayVars, watchersVars, pacingVars, vars>>

WatchersIdle == disk = [version |-> 0, auto |-> TRUE, empty |-> FALSE] /\ WatchersInit
LoopIdle == signal = FALSE /\ session = "open" /\ unseen = {} /\ Init

DesktopInit ==
    /\ part \in {"tray", "watchers", "transfers", "loop"}
    /\ TrayInit /\ PacingInit
    /\ IF part = "watchers" THEN WatchersInit ELSE WatchersIdle
    /\ IF part = "loop" THEN Init ELSE LoopIdle

Only(p) ==
    /\ part = p /\ UNCHANGED part
    /\ p # "tray" => UNCHANGED trayVars
    /\ p # "watchers" => UNCHANGED watchersVars
    /\ p # "transfers" => UNCHANGED pacingVars
    /\ p # "loop" => UNCHANGED vars

DesktopNext ==
    \/ Only("tray") /\ TrayNext
    \/ Only("watchers") /\ WatchersNext
    \/ Only("transfers") /\ PacingNext
    \/ Only("loop") /\ Next

\* The parts' fairness, asked of the part that is at work.
DesktopFairness ==
    /\ \A s \in Supervisors : /\ WF_trayVars(part = "tray" /\ SuperviseStep(s))
                              /\ WF_trayVars(part = "tray" /\ KidStep(s))
    /\ \A w \in Watches : WF_watchersVars(part = "watchers" /\ WatchThread(w))
    /\ WF_watchersVars(part = "watchers" /\ TrayTurn)
    /\ WF_vars(part = "loop" /\ Loop)
    /\ WF_vars(part = "loop" /\ Tick)
    /\ \A f \in Folders : WF_vars(part = "loop" /\ Deliver(f))

DesktopSpec == DesktopInit /\ [][DesktopNext]_desktopVars /\ DesktopFairness

\* Every part keeps to its types.
DesktopTypeOK == TrayTypeOK /\ WatchersTypeOK /\ PacingTypeOK /\ TypeOK
=============================================================================
