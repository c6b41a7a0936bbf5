---------------------------- MODULE FolderMarks ----------------------------
(***************************************************************************)
(* How the tray process tells of the sync's state: the sentence of its menu *)
(* and the snapshot it publishes for the window (src/src/service.rs), and   *)
(* the emblems on the folders in the file manager (src/src/emblems.rs),     *)
(* which a thread of its own keeps in step, a process per path, and takes   *)
(* down when they are switched off or the tray quits.                       *)
(***************************************************************************)
EXTENDS Naturals, Sequences, FiniteSets

CONSTANTS
    PairRoots,     \* the pairs, each its local folder
    Within,        \* the paths in them
    FoldersTo,     \* of each path: the folders from its pair's root down to it, the root first
    LeftOut,       \* excluded folders that exist
    Unmarkable,    \* paths that are gone, or where no emblem can be kept
    PathOrder,     \* all paths, as they are sorted
    MaxMarked,     \* MAX_PATHS
    Budget,        \* emblems set or cleared in one round
    MaxNews,       \* bounds what changes
    MaxDeaths,     \* bounds the ends of the process
    MaxEvents      \* bounds both taken together

Marked == PairRoots \cup Within
FoldersOver(p) == {FoldersTo[p][i] : i \in 1..Len(FoldersTo[p])}
Place(p) == CHOOSE i \in 1..Len(PathOrder) : PathOrder[i] = p

\* A path has its pair's root first, and is sorted after the folders over it.
ASSUME MarksAssumption ==
    /\ {MaxMarked, Budget, MaxNews, MaxDeaths, MaxEvents} \subseteq Nat
    /\ IsFiniteSet(Marked) /\ PairRoots \cap Within = {} /\ LeftOut \subseteq Within
    /\ Cardinality(PairRoots) <= MaxMarked
    /\ FoldersTo \in [Within -> Seq(Marked) \ {<<>>}]
    /\ \A p \in Within :
          /\ FoldersTo[p][1] \in PairRoots
          /\ \A q \in FoldersOver(p) :
                /\ Place(q) < Place(p)
                /\ q = FoldersTo[p][1] \/ (q \in Within /\ FoldersTo[q][1] = FoldersTo[p][1])
    /\ \A p \in Marked : \E i \in 1..Len(PathOrder) : PathOrder[i] = p

VARIABLES
    news,      \* AppState and the database: what there is to tell
    published, \* status.json
    applied, failed, store, \* Emblems: what it set, what it could not, and its file
    emblem,    \* the emblem each path carries
    round,     \* the update at work: what it wants, what it may still do, whether it did any
    up,        \* "up", "quitting", "down"
    stray,     \* history: paths whose emblem is not what anybody remembers
    newsCount, deathCount

Counts == <<newsCount, deathCount>>
markVars == <<news, published, applied, failed, store, emblem, round, up, stray, Counts>>

None == [p \in {} |-> 0]
NoRound == [busy |-> FALSE, last |-> FALSE, want |-> None, left |-> 0, did |-> FALSE]

\* The paths that are no folders.
FilesIn ==
    {p \in Within \ LeftOut : \A q \in Within : \A i \in 1..Len(FoldersTo[q]) : FoldersTo[q][i] # p}

(***************************************************************************)
(* AppState.  A pair is idle, for ever so far or since a pass of an earlier *)
(* process ("passed"), at work, in step or in error; deletions of it may be *)
(* held back, and files of it waiting to be tried again.                    *)
(***************************************************************************)
PairStates ==
    {s \in [phase : {"idle", "passed", "scanning", "syncing", "synced", "error"},
            held : BOOLEAN, retrying : BOOLEAN] : s.held => s.phase \notin {"idle", "passed"}}
Sessions == {"in", "signedOut", "noKeyring"}
Quiet == [phase |-> "synced", held |-> FALSE, retrying |-> FALSE]

(* overall: the most urgent of it all. *)
Failing(n) == {r \in PairRoots : n.pair[r].phase = "error" \/ n.pair[r].retrying}
Phased(n, phases) == {r \in PairRoots : n.pair[r].phase \in phases}
Overall(n) ==
    CASE n.session = "signedOut"                                      -> "signedOut"
      [] n.session = "noKeyring"                                      -> "noKeyring"
      [] n.session = "in" /\ Failing(n) # {}                          -> "error"
      [] n.session = "in" /\ Failing(n) = {}
            /\ (n.busy \/ Phased(n, {"scanning", "syncing"}) # {})    -> "syncing"
      [] OTHER -> IF ~n.watching THEN "paused"
                  ELSE IF Phased(n, {"synced", "passed"}) = PairRoots THEN "synced"
                  ELSE "syncing"

(* status_line: what the tray says of it. *)
StatusLine(n) ==
    CASE Overall(n) = "error" ->
            IF \A r \in Failing(n) : n.pair[r].held THEN "held back"
            ELSE IF Cardinality(Failing(n)) > 1 THEN "problems"
            ELSE IF \E r \in Failing(n) : n.pair[r].phase = "error" THEN "failed"
            ELSE "retrying"
      [] Overall(n) = "syncing" ->
            IF Phased(n, {"syncing"}) # {} THEN "syncing"
            ELSE IF Phased(n, {"scanning"}) # {} THEN "scanning" ELSE "starting"
      [] OTHER -> Overall(n)

(***************************************************************************)
(* desired: what each path should carry, by urgency.                        *)
(***************************************************************************)
Synced == 0
Excluded == 1
Syncing == 2
Pending == 3
Conflict == 4
Offline == 5
Error == 6

Icon(status) ==
    CASE status \in {Syncing, Pending}  -> "synchronizing"
      [] status \in {Conflict, Offline} -> "important"
      [] status = Synced                -> "default"
      [] status = Excluded              -> "readonly"
      [] status = Error                 -> "unreadable"

RootOf(p) == IF p \in PairRoots THEN p ELSE FoldersTo[p][1]
\* (Slip) A folder does not show what is deeper than its own files.
OwnFiles == [p \in Marked |-> {q \in Within : q = p \/ FoldersTo[q][Len(FoldersTo[q])] = p}]
\* A path and all that is below it.
Reach == [p \in Marked |-> {q \in Within : q = p \/ p \in FoldersOver(q)}]

\* The most urgent of what a path has to show: a root its pair's state as well.
Status(n, p) ==
    CASE p \in PairRoots /\ n.pair[p].phase = "error"                      -> Error
      [] p \in PairRoots /\ n.pair[p].phase # "error" /\ n.session # "in"  -> Offline
      [] OTHER ->
            IF n.conflicts \cap Reach[p] # {} THEN Conflict
            ELSE IF n.waiting \cap Reach[p] # {} THEN Pending
            ELSE IF p \in Within THEN Excluded
            ELSE IF n.pair[p].phase \in {"scanning", "syncing"} THEN Syncing
            ELSE Synced

\* The paths that have something to show.
Telling(n) ==
    {p \in Marked : /\ RootOf(p) \in n.mounted
                    /\ \/ p \in PairRoots \cup LeftOut
                       \/ (n.conflicts \cup n.waiting) \cap Reach[p] # {}}

\* The roots first, then the most urgent, and otherwise by name.
Before(n, p, q) ==
    \/ p \in PairRoots /\ q \notin PairRoots
    \/ /\ p \in PairRoots <=> q \in PairRoots
       /\ Status(n, p) > Status(n, q) \/ (Status(n, p) = Status(n, q) /\ Place(p) < Place(q))

Desired(n) ==
    LET all == Telling(n)
        cut == IF Cardinality(all) <= MaxMarked THEN all
               ELSE {p \in all : Cardinality({q \in all : Before(n, q, p)}) < MaxMarked}
    IN  [p \in cut |-> Status(n, p)]

-----------------------------------------------------------------------------
MarksInit ==
    /\ \E c \in SUBSET FilesIn :
          news = [pair |-> [r \in PairRoots |-> Quiet], session |-> "in", watching |-> TRUE,
                  busy |-> FALSE, conflicts |-> c, waiting |-> {}, mounted |-> PairRoots,
                  on |-> TRUE]
    /\ published = news
    /\ applied = None /\ failed = {} /\ store = None
    /\ emblem = [p \in Marked |-> "none"]
    /\ round = NoRound /\ up \in {"up", "down"}
    /\ stray = {} /\ newsCount = 0 /\ deathCount = 0

TellTale == <<applied, failed, store, emblem, round, up, stray>>

Eventful == newsCount + deathCount < MaxEvents

(* Something to tell happens; the switch of the settings counts as one. *)
NewsComes(n) ==
    /\ Eventful /\ newsCount < MaxNews /\ newsCount' = newsCount + 1
    /\ news' = n /\ n # news
    /\ UNCHANGED <<published, deathCount, TellTale>>

(* publish_status, on the tray's tick. *)
Publish ==
    /\ up = "up" /\ published # news
    /\ published' = news
    /\ UNCHANGED <<news, Counts, TellTale>>

Wanted == IF up = "up" /\ news.on THEN Desired(news) ELSE None
NeedsClearing(want) == DOMAIN applied \ DOMAIN want
NeedsSetting(want) ==
    {p \in DOMAIN want : ~(p \in DOMAIN applied /\ applied[p] = want[p])
                            /\ <<p, want[p]>> \notin failed}

(* The worker wakes, or is asked to stop: a round of Emblems::update begins. *)
RoundBegins ==
    /\ up # "down" /\ ~round.busy
    /\ LET want == Wanted
       IN  /\ NeedsClearing(want) \cup NeedsSetting(want) # {} \/ up = "quitting"
           /\ round' = [busy |-> TRUE, last |-> up = "quitting", want |-> want, did |-> FALSE,
                        left |-> IF up = "quitting" THEN Cardinality(Marked) ELSE Budget]
    /\ UNCHANGED <<news, published, applied, failed, store, emblem, up, stray, Counts>>

Spend == round' = [round EXCEPT !.left = @ - 1, !.did = TRUE]
\* The paths are taken as they are sorted.
IsFirst(p, paths) == p \in paths /\ \A q \in paths : Place(p) <= Place(q)
CanCarry(p) == RootOf(p) \in news.mounted /\ p \notin Unmarkable

(* An emblem nobody wants is cleared; it is forgotten even where that fails. *)
ClearOne(p) ==
    /\ round.busy /\ round.left > 0
    /\ IsFirst(p, NeedsClearing(round.want))
    /\ Spend
    /\ applied' = [q \in DOMAIN applied \ {p} |-> applied[q]]
    /\ emblem' = IF CanCarry(p) THEN [emblem EXCEPT ![p] = "none"] ELSE emblem
    /\ stray' = IF emblem'[p] # "none" THEN stray \cup {p} ELSE stray \ {p}
    /\ UNCHANGED <<news, published, failed, store, up, Counts>>

SetOne(p) ==
    /\ round.busy /\ round.left > 0
    /\ NeedsClearing(round.want) = {} /\ IsFirst(p, NeedsSetting(round.want))
    /\ Spend
    /\ IF CanCarry(p)
       THEN /\ applied' = [q \in DOMAIN applied \cup {p} |->
                              IF q = p THEN round.want[p] ELSE applied[q]]
            /\ emblem' = [emblem EXCEPT ![p] = Icon(round.want[p])]
            /\ stray' = stray \ {p} /\ UNCHANGED failed
       ELSE failed' = failed \cup {<<p, round.want[p]>>} /\ UNCHANGED <<applied, emblem, stray>>
    /\ UNCHANGED <<news, published, store, up, Counts>>

\* Failures count only as long as the same is wanted.
FailedIsTrimmed ==
    failed' = {f \in failed : f[1] \in DOMAIN round.want /\ round.want[f[1]] = f[2]}

(* The round is over: what was set is saved, if anything was. *)
RoundEnds ==
    /\ round.busy
    /\ round.left = 0 \/ NeedsClearing(round.want) \cup NeedsSetting(round.want) = {}
    /\ round' = NoRound
    /\ FailedIsTrimmed
    /\ store' = IF round.did THEN applied ELSE store
    /\ up' = IF round.last THEN "down" ELSE up
    /\ UNCHANGED <<news, published, applied, emblem, stray, Counts>>

Quit ==
    /\ up = "up" /\ up' = "quitting"
    /\ Eventful /\ deathCount < MaxDeaths /\ deathCount' = deathCount + 1
    /\ UNCHANGED <<news, published, applied, failed, store, emblem, round, stray, newsCount>>

\* What the file says of a path's emblem.
Saved(p) == IF p \in DOMAIN store THEN Icon(store[p]) ELSE "none"

(* The process dies; what the file does not say of its emblems nobody remembers. *)
TrayDies ==
    /\ up # "down"
    /\ Eventful /\ deathCount < MaxDeaths /\ deathCount' = deathCount + 1
    /\ up' = "down" /\ round' = NoRound
    /\ stray' = stray \cup {p \in Marked : emblem[p] # Saved(p)}
    /\ UNCHANGED <<news, published, applied, failed, store, emblem, newsCount>>

(* Emblems::load *)
Launch ==
    /\ up = "down" /\ up' = "up"
    /\ applied' = store /\ failed' = {}
    /\ UNCHANGED <<news, published, store, emblem, round, stray, Counts>>

-----------------------------------------------------------------------------
WorkerStep ==
    RoundBegins \/ RoundEnds \/ \E p \in Marked : ClearOne(p) \/ SetOne(p)

NextNews ==
    {[news EXCEPT !.pair[r] = s] : r \in PairRoots, s \in PairStates}
        \cup {[news EXCEPT !.session = s] : s \in Sessions}
        \cup {[news EXCEPT !.watching = ~@], [news EXCEPT !.busy = ~@], [news EXCEPT !.on = ~@]}
        \cup {[news EXCEPT !.conflicts = c] : c \in SUBSET FilesIn}
        \cup {[news EXCEPT !.waiting = w] : w \in SUBSET FilesIn}
        \cup {[news EXCEPT !.mounted = m] : m \in SUBSET PairRoots}

MarksNext ==
    \/ \E n \in NextNews : NewsComes(n)
    \/ Publish \/ WorkerStep
    \/ Quit \/ TrayDies \/ Launch

MarksSpec == MarksInit /\ [][MarksNext]_markVars

(***************************************************************************)
(* Properties.                                                              *)
(***************************************************************************)
MarksTypeOK ==
    /\ DOMAIN applied \cup DOMAIN store \subseteq Marked
    /\ failed \subseteq Marked \X (Synced..Error)
    /\ round.left \in 0..Budget + Cardinality(Marked)
    /\ up \in {"up", "quitting", "down"} /\ stray \subseteq Marked
    /\ newsCount \in 0..MaxNews /\ deathCount \in 0..MaxDeaths

\* The emblems are those wanted, but for the ones nobody remembers and those that could not
\* be set.
NotSet(p, status) == p \in stray \/ <<p, status>> \in failed
InStep ==
    LET want == Wanted
    IN  \A p \in Marked \ stray :
            IF p \in DOMAIN want THEN NotSet(p, want[p]) \/ emblem[p] = Icon(want[p])
            ELSE emblem[p] = "none"

\* Whatever is still marked is in the file, for the next launch to clear.
Remembered == \A p \in Marked : emblem[p] # "none" => p \in stray \cup DOMAIN store

\* From the root down, every folder on the way to a conflict says so, if it could be marked.
Findable ==
    \A p \in Within \ stray :
        news.on /\ p \in news.conflicts /\ emblem[p] = Icon(Conflict) =>
            \A q \in FoldersOver(p) :
                NotSet(q, Status(news, q)) \/ emblem[q] \in {Icon(Conflict), Icon(Error)}

\* The tray's sentence and the emblems of the roots, which are made of the same state: it
\* does not say that all is well where they say otherwise.
Unanimous ==
    StatusLine(news) = "synced" =>
        \A r \in news.mounted : Status(news, r) \in {Synced, Pending, Conflict}

\* Nothing is left to do: no round at work or due, and the window was told the latest.
AtRest ==
    /\ ~round.busy /\ published = news /\ up # "quitting"
    /\ up = "up" => NeedsClearing(Wanted) \cup NeedsSetting(Wanted) = {}

\* Whenever the worker has nothing left to do, whatever came while it was at work, was killed
\* or failed: the emblems are in step, every conflict can be found from the top, and the
\* tray's sentence and the roots agree; with the tray gone, no emblem is left that its file
\* does not name, but for those of a process that was killed in a round.
MarksSettle ==
    AtRest => /\ up = "up" => InStep /\ Findable /\ Unanimous
              /\ up = "down" => Remembered
=============================================================================
