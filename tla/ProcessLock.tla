----------------------------- MODULE ProcessLock -----------------------------
(***************************************************************************)
(* One single-instance lock of src/process_lock.rs: a kernel file lock for *)
(* holding it and a record inside the file for saying who does, through    *)
(* crashes, reboots and process numbers handed to other programs.          *)
(***************************************************************************)
EXTENDS Naturals

CONSTANTS Pids,      \* process numbers, reused
          NoPid,
          Torn,      \* a record that two writers garbled
          Locks,     \* whether the filesystem takes file locks
          MaxStarts, \* bound on the processes started in one boot
          MaxBoots   \* bound on the boots

ASSUME LockAssumption ==
    /\ NoPid \notin Pids /\ Locks \in BOOLEAN
    /\ MaxStarts \in Nat \ {0} /\ MaxBoots \in Nat \ {0}
    /\ Torn # NoPid
    /\ \A r \in [pid : Pids, start : 0..MaxStarts, boot : 0..MaxBoots] : r \notin {NoPid, Torn}

VARIABLES
    boot, tick, \* which boot this is, and processes started in it
    life,       \* when the process with a number started; 0 when there is none
    prog,       \* whether that process is one of this app's programs
    at,         \* where it is with the lock
    owner,      \* the kernel's: who holds the file lock
    record      \* what the file says

vars == <<boot, tick, life, prog, at, owner, record>>

Boots == 1..MaxBoots
Ticks == 1..MaxStarts
Stages == {"out", "locked", "vacant", "blank", "holding", "closing", "legacy"}
\* A record of this version; one of an older version is a bare number.
Records == [pid : Pids, start : Ticks, boot : Boots]
Bare(p) == [pid |-> p, start |-> 0, boot |-> 0]

Alive(p) == life[p] # 0

\* record_for: the record names the process that has this number now.
Recorded(p) == Alive(p) /\ record = [pid |-> p, start |-> life[p], boot |-> boot]
\* legacy_holder_alive: the most a bare number can be checked for.
LegacyHolder(p) == Alive(p) /\ prog[p] = "ours" /\ record = Bare(p)
\* inspect, holder: the record names a live holder.
Held == \E p \in Pids : Recorded(p) \/ LegacyHolder(p)

\* An older version may be running and holding, or have left its number behind.
Init ==
    /\ boot = 1 /\ tick = 1 /\ owner = NoPid
    /\ \E p \in Pids :
         /\ life \in {[q \in Pids |-> 0], [q \in Pids |-> IF q = p THEN 1 ELSE 0]}
         /\ record \in {NoPid, Bare(p)}
         /\ \E g \in {"ours", "other"} : prog = [q \in Pids |-> g]
         /\ at = [q \in Pids |-> IF LegacyHolder(q) THEN "legacy" ELSE "out"]

Goto(p, from, to) == Alive(p) /\ at[p] = from /\ at' = [at EXCEPT ![p] = to]

\* A process starts under a free number.
Start(p, g) ==
    /\ ~Alive(p) /\ tick < MaxStarts
    /\ tick' = tick + 1
    /\ life' = [life EXCEPT ![p] = tick + 1]
    /\ prog' = [prog EXCEPT ![p] = g]
    /\ UNCHANGED <<boot, at, owner, record>>

\* (Slip) The file lock is not asked for.
OpenOnly(p) ==
    /\ prog[p] = "ours"
    /\ Goto(p, "out", "locked")
    /\ UNCHANGED <<boot, tick, life, prog, owner, record>>

\* acquire: the file lock, where there is one.  While another process owns it the
\* answer is AcquireError::Held and nothing changes.
TryLock(p) ==
    /\ prog[p] = "ours" /\ owner = NoPid
    /\ Goto(p, "out", "locked")
    /\ owner' = IF Locks THEN p ELSE NoPid
    /\ UNCHANGED <<boot, tick, life, prog, record>>

Released(p) == IF owner = p THEN NoPid ELSE owner

\* The record names a live holder that took no file lock: Held, too.
RefusedByRecord(p) ==
    /\ Held
    /\ Goto(p, "locked", "out")
    /\ owner' = Released(p)
    /\ UNCHANGED <<boot, tick, life, prog, record>>

FindVacant(p) ==
    /\ ~Held
    /\ Goto(p, "locked", "vacant")
    /\ UNCHANGED <<boot, tick, life, prog, owner, record>>

\* The process's identity cannot be read, or the file cannot be written.
AcquireFails(p) ==
    /\ Goto(p, "vacant", "out") \/ Goto(p, "blank", "out")
    /\ owner' = Released(p)
    /\ UNCHANGED <<boot, tick, life, prog, record>>

Clear(p) ==
    /\ Goto(p, "vacant", "blank")
    /\ record' = NoPid
    /\ UNCHANGED <<boot, tick, life, prog, owner>>

\* Two that write at once, where nothing locks, write over each other's bytes.
WriteRecord(p) ==
    /\ Goto(p, "blank", "holding")
    /\ \/ record' = [pid |-> p, start |-> life[p], boot |-> boot]
       \/ record # NoPid /\ record' = Torn
    /\ UNCHANGED <<boot, tick, life, prog, owner>>

\* (Slip) The record is left as it is.
DropKeepingRecord(p) ==
    /\ Goto(p, "holding", "closing")
    /\ UNCHANGED <<boot, tick, life, prog, owner, record>>

\* Drop: the record first, ...
DropRecord(p) ==
    /\ Goto(p, "holding", "closing")
    /\ record' = NoPid
    /\ UNCHANGED <<boot, tick, life, prog, owner>>

\* ... then the file lock, as the file is closed.
DropLock(p) ==
    /\ Goto(p, "closing", "out")
    /\ owner' = Released(p)
    /\ UNCHANGED <<boot, tick, life, prog, record>>

\* However a process ends, the kernel drops its lock; the record stays.
Die(p) ==
    /\ Alive(p)
    /\ life' = [life EXCEPT ![p] = 0]
    /\ at' = [at EXCEPT ![p] = "out"]
    /\ owner' = Released(p)
    /\ UNCHANGED <<boot, tick, prog, record>>

Reboot ==
    /\ boot < MaxBoots
    /\ boot' = boot + 1 /\ tick' = 1
    /\ life' = [p \in Pids |-> 0] /\ at' = [p \in Pids |-> "out"]
    /\ owner' = NoPid
    /\ UNCHANGED <<prog, record>>

Acquire(p) == \/ TryLock(p) \/ RefusedByRecord(p) \/ FindVacant(p)
              \/ AcquireFails(p) \/ Clear(p) \/ WriteRecord(p)
Next == \/ Reboot
        \/ \E p \in Pids : \/ \E g \in {"ours", "other"} : Start(p, g)
                           \/ Acquire(p) \/ DropRecord(p) \/ DropLock(p) \/ Die(p)

Spec == Init /\ [][Next]_vars

-----------------------------------------------------------------------------
TypeOK == /\ boot \in Boots /\ tick \in Ticks
          /\ life \in [Pids -> 0..MaxStarts] /\ prog \in [Pids -> {"ours", "other"}]
          /\ at \in [Pids -> Stages]
          /\ owner \in Pids \cup {NoPid} /\ (owner # NoPid => at[owner] # "out")
          /\ record \in Records \cup {Bare(p) : p \in Pids} \cup {NoPid, Torn}

Holders == {p \in Pids : at[p] \in {"holding", "legacy"}}

\* Two processes never both hold it, whatever instant they start at, and none takes over
\* from a running older version that locks nothing ("two processes starting at the same
\* instant can't both win it").
MutualExclusion == Locks => \A p, q \in Holders : p = q

\* Whoever only looks finds the holder: while a process holds, the record names it.
HolderVisible == Locks => \A p \in Pids : at[p] = "holding" => Recorded(p)

\* And finds nobody else: a record that passes for live names a process that holds the
\* lock, never one that was given the number of a holder that is gone.
RecordNamesHolder == \A p \in Pids : Recorded(p) => at[p] = "holding"

\* The lock cannot go stale: a process is turned away only while another one that is
\* alive is taking it, holding it or letting go of it - or, with a record of an older
\* version, while its number belongs to a program of ours.
TurnedAway(p) == (at[p] = "out" /\ owner # NoPid) \/ (at[p] = "locked" /\ Held)
RefusedOnlyByLive ==
    \A p \in Pids : TurnedAway(p) =>
        \E q \in Pids : Alive(q) /\ ((q # p /\ at[q] # "out") \/ LegacyHolder(q))

\* What a caller of acquire and holder may count on, all in all.
LockIsSound == MutualExclusion /\ HolderVisible /\ RecordNamesHolder /\ RefusedOnlyByLive

\* Where files can be locked, the file lock and the record in the file together behave as
\* one lock with one holder and one name: nobody takes it while another holds, and the
\* name comes and goes in the same step as the holder, through crashes and reboots.
Single == INSTANCE SingleInstance WITH
    Processes <- Pids, Nobody <- NoPid,
    holder <- IF Holders = {} THEN NoPid ELSE CHOOSE p \in Holders : TRUE,
    shown <- IF \E p \in Pids : Recorded(p) THEN CHOOSE p \in Pids : Recorded(p) ELSE NoPid
OneInstance == Single!OneAtATime
=============================================================================
