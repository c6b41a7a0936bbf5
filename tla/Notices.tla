------------------------------- MODULE Notices -------------------------------
(***************************************************************************)
(* What the tray announces on the desktop (src/src/notify.rs, NoticeFeed in *)
(* src/src/bin/gui.rs) and the inbox of conflicts it reads                  *)
(* (src/src/stats.rs), which several processes write.  Once a second the    *)
(* tray looks at the overall status, at the deletions held back and at the  *)
(* conflicts recorded since it last looked.  The three share no state, so a *)
(* behaviour here is about one of them.  Times are seconds, scaled down.    *)
(***************************************************************************)
EXTENDS Naturals, FiniteSets

CONSTANTS
    Topics,         \* which of "status", "held" and "conflicts" the behaviours are about
    ErrorGrace, ErrorCooldown, KeyringGrace, HeldCooldown,
    ConflictBatch, ConflictCooldown,
    PollLimit,      \* conflicts read at a time
    Folders,        \* pairs that may have deletions held back
    Clashing,       \* files in conflict
    Recorders,      \* processes that record conflicts
    MaxConflicts, MaxSeconds  \* bounds

ASSUME NoticesAssumption ==
    /\ Topics \subseteq {"status", "held", "conflicts"}
    /\ {ErrorGrace, ErrorCooldown, KeyringGrace, HeldCooldown, ConflictBatch, ConflictCooldown,
        MaxConflicts, MaxSeconds} \subseteq Nat
    /\ PollLimit \in Nat \ {0} /\ IsFiniteSet(Clashing) /\ IsFiniteSet(Recorders)

VARIABLES
    topic,
    second,      \* the clock, as it was at the last look
    status,      \* OverallStatus, held deletions apart
    prev,       \* Notifier::prev
    problem,     \* Notifier: error_since, error_notified, last_error_notice and the two of
                 \* the keyring
    lasted,      \* history: looks that have found this status, without a break
    spoken,      \* history: the last notice of each kind, and whether this episode was told
    heldBack,    \* deletions held back in each pair
    toldHeld,    \* Notifier::told_held
    foundNone,   \* history: pairs that held nothing back at the last look
    inbox,       \* the conflicts table; nth tells the conflicts apart in their order
    lastId,      \* sqlite_sequence: conflicts ever inserted
    recorder,    \* record_conflict: the file each process has looked up and not yet inserted
    feed,        \* NoticeFeed::last_conflict_id and Notifier's batch
    announced,   \* history: how often each conflict was announced
    unread       \* history: conflicts recorded since the tray began, and not pruned unread

noticeVars == <<topic, second, status, prev, problem, lasted, spoken, heldBack, toldHeld, foundNone,
                inbox, lastId, recorder, feed, announced, unread>>

statusVars == <<status, prev, problem, lasted, spoken>>
heldVars == <<heldBack, toldHeld, foundNone>>
inboxVars == <<inbox, lastId, recorder>>
feedVars == <<feed, announced, unread>>

Never == MaxSeconds + 1
Instants == 0..Never
Kinds == {"error", "keyring", "signedOut"}
Statuses == {"fine"} \cup Kinds
NoProblem == [since |-> Never, told |-> FALSE, last |-> Never, locked |-> Never, asked |-> FALSE]
Ids == 1..MaxConflicts
Nothing == [count |-> 0, at |-> Never]
Untold == [read |-> 0, batch |-> {}, since |-> Never, last |-> Never]

NoticesTypeOK ==
    /\ topic \in Topics /\ second \in 0..MaxSeconds
    /\ status \in Statuses /\ prev \in Statuses
    /\ problem \in [since : Instants, told : BOOLEAN, last : Instants, locked : Instants,
                    asked : BOOLEAN]
    /\ lasted \in 0..MaxSeconds
    /\ spoken \in [Kinds -> [at : Instants, episode : BOOLEAN]]
    /\ heldBack \in [Folders -> 0..2]
    /\ toldHeld \in [Folders -> [count : 0..2, at : Instants]]
    /\ foundNone \subseteq Folders
    /\ inbox \subseteq [id : Ids, nth : Ids, file : Clashing, skipped : BOOLEAN, open : BOOLEAN]
    /\ lastId \in 0..MaxConflicts
    /\ recorder \in [Recorders -> SUBSET Clashing]
    /\ feed \in [read : 0..MaxConflicts, batch : SUBSET Ids, since : Instants, last : Instants]
    /\ announced \in [Ids -> 0..2] /\ unread \subseteq Ids

NoticesInit ==
    /\ topic \in Topics
    /\ second = 0
    /\ status = "fine" /\ prev = "fine"
    /\ problem = NoProblem
    /\ lasted = 0
    /\ spoken = [k \in Kinds |-> [at |-> Never, episode |-> FALSE]]
    /\ heldBack = [p \in Folders |-> 0]
    /\ toldHeld = [p \in Folders |-> Nothing]
    /\ foundNone = Folders
    /\ inbox = {} /\ lastId = 0
    /\ recorder = [r \in Recorders |-> {}]
    /\ feed = Untold
    /\ announced = [i \in Ids |-> 0]
    /\ unread = {}

\* So long has gone by since a time that need not have been yet.
Past(t, gap, now) == t = Never \/ now - t >= gap

(***************************************************************************)
(* The look, once a second: NoticeFeed::poll.                               *)
(***************************************************************************)
ErrorBegan(now) == IF problem.since = Never THEN now ELSE problem.since
LockedSince(now) == IF problem.locked = Never THEN now ELSE problem.locked

\* (Slip) An error that was told of before needs no wait.
ErrorIsNewsAgain(now) == ~problem.told /\ now - ErrorBegan(now) >= ErrorGrace
ErrorIsNews(now) == /\ ~problem.told
                    /\ now - ErrorBegan(now) >= ErrorGrace
                    /\ Past(problem.last, ErrorCooldown, now)
KeyringIsNews(now) == ~problem.asked /\ now - LockedSince(now) >= KeyringGrace

(* tick: the status. *)
LookAtStatus(now) ==
    LET news == [error |-> status = "error" /\ ErrorIsNews(now),
                 keyring |-> status = "keyring" /\ KeyringIsNews(now),
                 signedOut |-> status = "signedOut" /\ prev # "signedOut"] IN
    /\ problem' = [since |-> IF status = "error" THEN ErrorBegan(now) ELSE Never,
                   told |-> status = "error" /\ (problem.told \/ news["error"]),
                   last |-> IF news["error"] THEN now ELSE problem.last,
                   locked |-> IF status = "keyring" THEN LockedSince(now) ELSE Never,
                   asked |-> status = "keyring" /\ (problem.asked \/ news["keyring"])]
    /\ spoken' = [k \in Kinds |->
                     [at |-> IF news[k] THEN now ELSE spoken[k].at,
                      episode |-> status = k /\ (news[k] \/ spoken[k].episode)]]
    /\ prev' = status
    /\ lasted' = IF prev = status THEN lasted + 1 ELSE 0
    /\ UNCHANGED <<status, heldVars, inboxVars, feedVars>>

HeldIsNews(p, now) ==
    /\ heldBack[p] # 0
    /\ \/ toldHeld[p] = Nothing
       \/ toldHeld[p].count # heldBack[p] /\ now - toldHeld[p].at >= HeldCooldown

\* A pair that holds nothing back any more is forgotten.
Forgotten(p) == heldBack[p] = 0

(* held. *)
LookAtHeld(now) ==
    /\ toldHeld' = [p \in Folders |->
                       IF Forgotten(p) THEN Nothing
                       ELSE IF HeldIsNews(p, now) THEN [count |-> heldBack[p], at |-> now]
                       ELSE toldHeld[p]]
    /\ foundNone' = {p \in Folders : heldBack[p] = 0}
    /\ UNCHANGED <<heldBack, statusVars, inboxVars, feedVars>>

(* conflicts_since: the oldest of those not read yet. *)
News == {c \in inbox : c.id > feed.read}
Read == {c \in News : Cardinality({e \in News : e.id < c.id}) < PollLimit}
Newest(rows) == IF rows = {} THEN 0 ELSE CHOOSE i \in {c.id : c \in rows} :
                                                 \A c \in rows : c.id <= i

ReadUpTo == IF Read = {} THEN feed.read ELSE Newest(Read)

(* conflicts_since and tick: the conflicts. *)
LookAtConflicts(now) ==
    LET batch == feed.batch \cup {c.nth : c \in Read}
        since == IF feed.batch = {} /\ Read # {} THEN now ELSE feed.since
        tell == /\ since # Never /\ now - since >= ConflictBatch
                /\ Past(feed.last, ConflictCooldown, now) IN
    /\ feed' = [read |-> ReadUpTo,
                batch |-> IF tell THEN {} ELSE batch,
                since |-> IF tell THEN Never ELSE since,
                last |-> IF tell THEN now ELSE feed.last]
    /\ announced' = [i \in Ids |-> announced[i] + IF tell /\ i \in batch THEN 1 ELSE 0]
    /\ UNCHANGED <<unread, statusVars, heldVars, inboxVars>>

Look ==
    /\ second < MaxSeconds
    /\ second' = second + 1
    /\ \/ topic = "status" /\ LookAtStatus(second')
       \/ topic = "held" /\ LookAtHeld(second')
       \/ topic = "conflicts" /\ LookAtConflicts(second')

(***************************************************************************)
(* What is looked at: the frontends' state, ...                             *)
(***************************************************************************)
StatusTurns ==
    /\ topic = "status"
    /\ status' \in Statuses \ {status}
    /\ UNCHANGED <<second, prev, problem, lasted, spoken, heldVars, inboxVars, feedVars>>

HoldTurns ==
    /\ topic = "held"
    /\ \E p \in Folders : \E n \in (0..2) \ {heldBack[p]} :
           heldBack' = [heldBack EXCEPT ![p] = n]
    /\ UNCHANGED <<second, toldHeld, foundNone, statusVars, inboxVars, feedVars>>

(***************************************************************************)
(* ... and the inbox.                                                       *)
(***************************************************************************)
OpenSkips(f) == {c \in inbox : c.file = f /\ c.skipped /\ c.open}

\* (Slip) A rowid without AUTOINCREMENT: one more than the highest there is.
NextIdPlain == Newest(inbox) + 1
\* AUTOINCREMENT: an id is never given twice.
NextId == lastId + 1

Insert(f, skipped) ==
    /\ lastId < MaxConflicts
    /\ inbox' = inbox \cup {[id |-> NextId, nth |-> lastId + 1, file |-> f, skipped |-> skipped,
                              open |-> TRUE]}
    /\ lastId' = lastId + 1
    /\ unread' = unread \cup {lastId + 1}

InboxOnly == UNCHANGED <<second, statusVars, heldVars, feed, announced>>

(* record_conflict of one that was settled. *)
RecordSettled(f) ==
    /\ topic = "conflicts"
    /\ Insert(f, FALSE)
    /\ UNCHANGED recorder /\ InboxOnly

NoneOpen(f) == OpenSkips(f) = {}

(* record_conflict of a skipped one: unless one is open for the file - each process has *)
(* a connection of its own, and the two statements are not one transaction.             *)
LookUp(r, f) ==
    /\ topic = "conflicts"
    /\ recorder[r] = {}
    /\ NoneOpen(f)
    /\ recorder' = [recorder EXCEPT ![r] = {f}]
    /\ UNCHANGED <<inbox, lastId, unread>> /\ InboxOnly

RecordSkipped(r) ==
    /\ \E f \in recorder[r] : Insert(f, TRUE)
    /\ recorder' = [recorder EXCEPT ![r] = {}]
    /\ InboxOnly

(* dismiss_conflict and dismiss_all_conflicts of the window, and a commit that settles *)
(* the skipped conflict of a file.                                                     *)
DismissConflicts ==
    /\ topic = "conflicts"
    /\ \E which \in (SUBSET {c \in inbox : c.open}) \ {{}} :
          inbox' = (inbox \ which) \cup {[c EXCEPT !.open = FALSE] : c \in which}
    /\ UNCHANGED <<lastId, recorder, unread>> /\ InboxOnly

(* prune_conflicts, at the start of a window or a tray, and forget_pair: rows go. *)
PruneConflicts ==
    /\ topic = "conflicts"
    /\ \E gone \in (SUBSET {c \in inbox : ~c.open}) \ {{}} :
          /\ inbox' = inbox \ gone
          /\ unread' = unread \ {c.nth : c \in gone \cap News}
    /\ UNCHANGED <<lastId, recorder>> /\ InboxOnly

(* The tray starts anew: NoticeFeed::new begins behind the newest conflict there is. *)
StartFeed ==
    /\ topic = "conflicts"
    /\ feed # Untold
    /\ feed' = [Untold EXCEPT !.read = Newest(inbox)]
    /\ unread' = {}
    /\ UNCHANGED <<second, announced, statusVars, heldVars, inboxVars>>

-----------------------------------------------------------------------------
NoticesNext ==
    /\ \/ Look
       \/ StatusTurns \/ HoldTurns
       \/ \E f \in Clashing : RecordSettled(f) \/ \E r \in Recorders : LookUp(r, f)
       \/ \E r \in Recorders : RecordSkipped(r)
       \/ DismissConflicts \/ PruneConflicts \/ StartFeed
    /\ UNCHANGED topic

NoticesSpec == NoticesInit /\ [][NoticesNext]_noticeVars

(***************************************************************************)
(* Properties.                                                              *)
(***************************************************************************)
\* A problem that lasts is told, at the latest when the pause since the last notice is
\* over, and however often the status turned before; a keyring out of reach likewise, and
\* the end of the session at once.
LastingProblemIsTold ==
    /\ prev = "error" /\ lasted >= ErrorGrace + ErrorCooldown => spoken["error"].episode
    /\ prev = "keyring" /\ lasted >= KeyringGrace => spoken["keyring"].episode
    /\ prev = "signedOut" => spoken["signedOut"].episode

\* A problem that comes and goes is not told at every turn: two notices of it are a pause
\* apart ("Minimum gap between two sync-problem notifications").
ProblemsAreSpaced ==
    [][LET was == spoken["error"].at IN
       spoken'["error"].at # was /\ was # Never => spoken'["error"].at - was >= ErrorCooldown
      ]_noticeVars

\* Deletions held back are told of at the first look that finds them, though others were
\* held and settled before; while they stay, only in another number and after a pause.
HeldIsTold ==
    [][\A p \in Folders : second' # second /\ topic = "held" /\ heldBack[p] # 0 =>
          IF p \in foundNone THEN toldHeld'[p] = [count |-> heldBack[p], at |-> second']
          ELSE toldHeld'[p] # toldHeld[p] =>
                   /\ toldHeld'[p].count # toldHeld[p].count
                   /\ second' - toldHeld[p].at >= HeldCooldown]_noticeVars

\* Every conflict recorded while the tray runs is read, though rows are pruned and more come
\* at once than one look takes, and none is announced twice, though the tray starts again.
ConflictsAreToldOnce ==
    /\ \A i \in Ids : announced[i] <= 1
    /\ \A i \in unread :
          announced[i] = 1 \/ i \in feed.batch \/ \E c \in News : c.nth = i

\* A file nobody decides on does not fill the inbox: one open entry, and at worst one more
\* for every process that looked while none was open.
OpenEntriesDoNotPile ==
    \A f \in Clashing : Cardinality(OpenSkips(f)) <= Cardinality(Recorders)

\* What the tray is there to say is said, once: lasting problems and new conflicts.
NewsIsTold == LastingProblemIsTold /\ ConflictsAreToldOnce /\ OpenEntriesDoNotPile

\* And no more often than the pauses allow, over problems that come and go and deletions
\* that are held, settled and held again.
NoticesArePaced == ProblemsAreSpaced /\ HeldIsTold
=============================================================================
