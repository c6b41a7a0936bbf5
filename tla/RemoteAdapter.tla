--------------------------- MODULE RemoteAdapter ---------------------------
(***************************************************************************)
(* ProtonCli (src/src/protoncli.rs): one process of the Proton Drive client *)
(* for every call, its answers told apart by what it prints, and the calls  *)
(* that take several of them - the walk of a remote tree by threads, the    *)
(* pool of downloads, a rename into another folder - while others change    *)
(* the remote and the session comes and goes.  One behaviour is one call.   *)
(***************************************************************************)
EXTENDS Naturals, FiniteSets

CONSTANTS
    Nodes, Trunk,   \* what may be on the remote, and the folder of the pair
    Above,          \* of each node the folder it is in
    Branch,         \* the nodes that are folders
    Skipped,        \* what the pair excludes
    Odd,            \* nodes whose name cannot be read or cannot be a file's
    Callers,        \* the threads of the walk, or of the pool
    NoNode,
    Retries,        \* how often the walk and the pool repeat a failed call
    MaxStirs        \* bounds what others do during the call

Anywhere == Nodes \cup {Trunk}
Leaves == Nodes \ Branch
\* A node and the folders over it, up to the trunk: the least set with the node that has,
\* of each of its own, the folder.
Rising(s) == \A n \in s \cap Nodes : Above[n] \in s
Path[n \in Anywhere] ==
    {m \in Anywhere : \A s \in SUBSET Anywhere : n \in s /\ Rising(s) => m \in s}

ASSUME RemoteAssumption ==
    /\ Trunk \notin Nodes /\ NoNode \notin Nodes \cup {Trunk}
    /\ Branch \subseteq Nodes /\ Above \in [Nodes -> Branch \cup {Trunk}]
    /\ \A n \in Nodes : Trunk \in Path[n]
    /\ Skipped \subseteq Nodes /\ Odd \subseteq Nodes
    /\ IsFiniteSet(Nodes) /\ Retries \in Nat /\ MaxStirs \in Nat

VARIABLES
    present,     \* what is on the remote
    absentOnce,  \* history: what was missing from it at some moment of the call
    presentOnce, \* history: and what was on it
    session,     \* whether the client can use its session
    call, stage, \* which call is made, and how far it is
    caller,      \* of each thread: its node, and the repetitions so far
    todo,        \* the queue: the frontier of the walk, the jobs of the pool, the folder to make
    nextLevel,   \* the folders the walk found on this level
    scan,        \* TreeScan
    reports,     \* of a job: what on_done was told of it, if anything
    dropped,     \* cancel
    place,       \* where the file to rename is
    answer,      \* what the call returned
    stirs

remoteVars == <<present, absentOnce, presentOnce, session, call, stage, caller, todo, nextLevel,
                scan, reports, dropped, place, answer, stirs>>

\* Trees: no node without its folder.
RemoteTrees == {s \in SUBSET Anywhere : \A n \in s : Path[n] \subseteq s}
Idle == [node |-> NoNode, repeats |-> 0]
NoScan == [entries |-> {}, failed |-> {}, rootMissing |-> FALSE]
FilePlaces == {"from", "between", "to", "trashed"}

RemoteTypeOK ==
    /\ present \in RemoteTrees
    /\ absentOnce \subseteq Anywhere /\ presentOnce \subseteq Anywhere
    /\ session \in {"in", "out", "noKeyring"}
    /\ call \in {"walk", "pool", "rename", "create"}
    /\ stage \in {"first", "second", "done"}
    /\ caller \in [Callers -> [node : Anywhere \cup {NoNode}, repeats : 0..Retries]]
    /\ todo \subseteq Anywhere /\ nextLevel \subseteq Branch
    /\ scan \in [entries : SUBSET Nodes, failed : SUBSET Anywhere, rootMissing : BOOLEAN]
    /\ reports \in [Leaves -> SUBSET {"ok", "error"}]
    /\ dropped \in BOOLEAN /\ place \in FilePlaces /\ answer \in {"none", "ok", "error"}
    /\ stirs \in 0..MaxStirs

RemoteInit ==
    /\ present \in RemoteTrees
    /\ absentOnce = Anywhere \ present /\ presentOnce = present
    /\ session = "in"
    /\ call \in {"walk", "pool", "rename", "create"} /\ stage = "first"
    /\ caller = [c \in Callers |-> Idle]
    /\ CASE call = "walk" -> todo = {Trunk}
         [] call = "pool" -> todo = Leaves
         [] call = "rename" -> todo = {}
         [] call = "create" -> \E n \in Branch : todo = {n}
    /\ nextLevel = {} /\ scan = NoScan
    /\ reports = [f \in Leaves |-> {}]
    /\ dropped = FALSE /\ place = "from" /\ answer = "none"
    /\ stirs = 0

World == <<present, absentOnce, presentOnce, session, stirs>>
Queue == <<caller, todo, nextLevel>>
During(name, at) == call = name /\ stage = at /\ UNCHANGED call

(***************************************************************************)
(* What the client prints.  A session it cannot load ends in the words of a *)
(* file that is missing.                                                    *)
(***************************************************************************)
SessionSays ==
    CASE session = "out"       -> {{"login"}}
      [] session = "noKeyring" -> {{"keyring", "missing"}}
      [] OTHER                 -> {}

\* session_problem.
SessionProblem(said) == said \cap {"login", "keyring"} # {}

\* probe_dir, of a call that failed.
Probe(said) == IF "missing" \in said /\ ~SessionProblem(said) THEN "notFound" ELSE "error"

\* probe_dir, run_with: a network that fails, a client that is killed after its time, a
\* listing that does not parse are all an error.  For a moment the remote may not find
\* what is there.
Probes(n) ==
    {"error"} \cup {Probe(said) : said \in SessionSays}
              \cup (IF session # "in" THEN {}
                    ELSE {Probe({"missing"})} \cup (IF n \in present THEN {"listed"} ELSE {}))

\* parse_list: a node whose name cannot be read is listed under another, or not at all.
Listing(n) == {m \in present : m # Trunk /\ Above[m] = n} \ Odd

(***************************************************************************)
(* list_tree.                                                               *)
(***************************************************************************)
Turn(c) == caller[c] = Idle
Done(c) == caller' = [caller EXCEPT ![c] = Idle]

TakeNode(c) ==
    /\ stage = "first" /\ call \in {"walk", "pool"}
    /\ Turn(c)
    \* A pool that was cancelled takes no further job.
    /\ call = "pool" => ~dropped
    /\ \E n \in todo :
          /\ todo' = todo \ {n}
          /\ caller' = [caller EXCEPT ![c] = [node |-> n, repeats |-> 0]]
    /\ UNCHANGED <<World, call, stage, nextLevel, scan, reports, dropped, place, answer>>

\* An error with a repetition left.
Repeat(c) ==
    /\ caller[c].repeats < Retries
    /\ caller' = [caller EXCEPT ![c].repeats = @ + 1]

ListRepeated(c) ==
    /\ During("walk", "first") /\ ~Turn(c)
    /\ "error" \in Probes(caller[c].node)
    /\ Repeat(c)
    /\ UNCHANGED <<World, stage, todo, nextLevel, scan, reports, dropped, place, answer>>

Listed(c) ==
    /\ During("walk", "first") /\ ~Turn(c)
    /\ "listed" \in Probes(caller[c].node)
    /\ LET found == Listing(caller[c].node) \ Skipped
       IN  /\ scan' = [scan EXCEPT !.entries = @ \cup found]
           /\ nextLevel' = nextLevel \cup (found \cap Branch)
    /\ Done(c)
    /\ UNCHANGED <<World, stage, todo, reports, dropped, place, answer>>

\* (Slip) A folder that is not found lists as empty.
NotFoundIsEmpty(n, why) == IF why = "notFound" THEN {} ELSE {n}
\* A folder that cannot be listed, or is no longer found, is one the walk knows nothing of.
Unlisted(n, why) == {n}

(* No listing: the folder of the pair not found, or an error the last time. *)
NotListed(c) ==
    /\ During("walk", "first") /\ ~Turn(c)
    /\ \E why \in Probes(caller[c].node) \ {"listed"} :
          /\ why = "error" => caller[c].repeats = Retries
          /\ IF why = "notFound" /\ caller[c].node = Trunk
             THEN scan' = [scan EXCEPT !.rootMissing = TRUE]
             ELSE scan' = [scan EXCEPT !.failed = @ \cup Unlisted(caller[c].node, why)]
    /\ Done(c)
    /\ UNCHANGED <<World, stage, todo, nextLevel, reports, dropped, place, answer>>

(* The threads of a level are joined before the next one is begun. *)
NextLevel ==
    /\ During("walk", "first")
    /\ todo = {} /\ \A c \in Callers : Turn(c)
    /\ IF nextLevel # {} THEN UNCHANGED <<stage, answer>> ELSE stage' = "done" /\ answer' = "ok"
    /\ todo' = nextLevel /\ nextLevel' = {}
    /\ UNCHANGED <<World, caller, scan, reports, dropped, place>>

(***************************************************************************)
(* download_many.                                                           *)
(***************************************************************************)
Tell(f, what) == reports' = [reports EXCEPT ![f] = @ \cup {what}]

DownloadRepeated(c) ==
    /\ During("pool", "first") /\ ~Turn(c)
    /\ Repeat(c)
    /\ UNCHANGED <<World, stage, todo, nextLevel, scan, reports, dropped, place, answer>>

DownloadArrives(c) ==
    /\ During("pool", "first") /\ ~Turn(c)
    /\ session = "in" /\ caller[c].node \in present
    /\ Tell(caller[c].node, "ok")
    /\ Done(c)
    /\ UNCHANGED <<World, stage, todo, nextLevel, scan, dropped, place, answer>>

DownloadFails(c) ==
    /\ During("pool", "first") /\ ~Turn(c) /\ caller[c].repeats = Retries
    /\ Tell(caller[c].node, "error")
    /\ Done(c)
    /\ UNCHANGED <<World, stage, todo, nextLevel, scan, dropped, place, answer>>

PoolOver ==
    /\ During("pool", "first")
    /\ dropped \/ todo = {}
    /\ \A c \in Callers : Turn(c)
    /\ stage' = "done" /\ answer' = "ok"
    /\ UNCHANGED <<World, Queue, scan, reports, dropped, place>>

CancelPool ==
    /\ During("pool", "first") /\ ~dropped
    /\ dropped' = TRUE
    /\ UNCHANGED <<World, stage, Queue, scan, reports, place, answer>>

(***************************************************************************)
(* rename and create_folder.                                                *)
(***************************************************************************)
Returned(what) == stage' = "done" /\ answer' = what

\* A step of the client takes the file from one place to the next, or does not; killed
\* after its time it may have done so and is taken to have failed.
Steps(from, to) ==
    \/ place = from /\ session = "in" /\ place' = to
    \/ UNCHANGED place
Succeeds(from, to) == place = from /\ session = "in" /\ place' = to

(* rename within a folder: one step; the first of two into another, unless the name stays. *)
RenameFirst ==
    /\ During("rename", "first")
    /\ \/ Succeeds("from", "to") /\ Returned("ok")
       \/ Steps("from", "to") /\ Returned("error")
       \/ Succeeds("from", "between") /\ stage' = "second" /\ UNCHANGED answer
       \/ Steps("from", "between") /\ Returned("error")
    /\ UNCHANGED <<World, Queue, scan, reports, dropped>>

RenameSecond ==
    /\ During("rename", "second")
    /\ \/ Succeeds("between", "to") /\ Returned("ok")
       \/ Steps("between", "to") /\ Returned("error")
    /\ UNCHANGED <<World, Queue, scan, reports, dropped>>

\* What the client may print of a folder it has not created: it is there, its parent is
\* not, or something else.
CreateSays(n) ==
    {{}} \cup SessionSays
         \cup (IF n \in present THEN {{"exist"}} ELSE {})
         \cup (IF Above[n] \notin present THEN {{"missing"}, {"missing", "exist"}} ELSE {})

(* create_folder. *)
CreateFolder(n) ==
    /\ During("create", "first") /\ n \in todo
    /\ \/ /\ session = "in" /\ Above[n] \in present /\ n \notin present
          /\ present' = present \cup {n} /\ presentOnce' = presentOnce \cup {n}
          /\ Returned("ok")
       \/ /\ \E said \in CreateSays(n) :
                Returned(IF "exist" \in said THEN "ok" ELSE "error")
          /\ UNCHANGED <<present, presentOnce>>
    /\ UNCHANGED <<absentOnce, session, stirs, Queue, scan, reports, dropped, place>>

(***************************************************************************)
(* Everybody else.                                                          *)
(***************************************************************************)
(* Others trash or add nodes, or the file being renamed. *)
Stir ==
    /\ stage # "done" /\ stirs < MaxStirs
    /\ stirs' = stirs + 1
    /\ \/ /\ \E n \in Anywhere :
                present' \in {present \ {m \in present : n \in Path[m]}, present \cup Path[n]}
          /\ absentOnce' = absentOnce \cup (Anywhere \ present')
          /\ presentOnce' = presentOnce \cup present'
          /\ UNCHANGED place
       \/ /\ call = "rename" /\ place' = "trashed"
          /\ UNCHANGED <<present, absentOnce, presentOnce>>
    /\ UNCHANGED <<session, call, stage, Queue, scan, reports, dropped, answer>>

(* The session ends, the keyring locks, or it is there again. *)
SessionTurns ==
    /\ stage # "done" /\ stirs < MaxStirs
    /\ stirs' = stirs + 1
    /\ session' \in {"in", "out", "noKeyring"} \ {session}
    /\ UNCHANGED <<present, absentOnce, presentOnce, call, stage, Queue, scan, reports, dropped,
                   place, answer>>

-----------------------------------------------------------------------------
RemoteNext ==
    \/ \E c \in Callers :
           \/ TakeNode(c) \/ ListRepeated(c) \/ Listed(c) \/ NotListed(c)
           \/ DownloadRepeated(c) \/ DownloadArrives(c) \/ DownloadFails(c)
    \/ NextLevel \/ PoolOver \/ CancelPool
    \/ RenameFirst \/ RenameSecond \/ \E n \in Branch : CreateFolder(n)
    \/ Stir \/ SessionTurns

RemoteSpec == RemoteInit /\ [][RemoteNext]_remoteVars

(***************************************************************************)
(* Properties.                                                              *)
(***************************************************************************)
\* What a walk leaves out, although it neither failed on a folder above it nor found the
\* pair's folder missing, was missing from the remote at some moment of the walk - a lost
\* session, a network that fails or a folder that goes never pass for a deletion - and what
\* it lists was there.  Excluded nodes, and nodes without a readable name, are apart.
ScanIsHonest ==
    call = "walk" /\ stage = "done" =>
        /\ scan.entries \subseteq presentOnce
        /\ ~scan.rootMissing =>
              \A n \in Nodes \ scan.entries :
                  \/ n \in absentOnce
                  \/ Path[n] \cap (scan.failed \cup Skipped \cup Odd) # {}

\* Every download the pool started ends in one report, that of a success only if the file
\* was there; only a cancelled pool leaves some out.
PoolTellsAll ==
    /\ \A f \in Leaves : /\ Cardinality(reports[f]) <= 1
                         /\ "ok" \in reports[f] => f \in presentOnce
    /\ call = "pool" /\ stage = "done" =>
          \A f \in Leaves : reports[f] = {} => dropped /\ f \in todo

\* A rename answered with success took the file all the way.
RenameIsWhole == call = "rename" /\ answer = "ok" => place \in {"to", "trashed"}

\* The answers the engine plans and records by are true of the remote.
AnswersAreTrue == ScanIsHonest /\ PoolTellsAll /\ RenameIsWhole
=============================================================================
