---------------------------- MODULE StoresProofs ----------------------------
(***************************************************************************)
(* What holds of that which processes read, write, ask and show: the lock,  *)
(* the client's answers, the terminal and the emblems, for any processes,   *)
(* trees, pairs and paths.                                                  *)
(***************************************************************************)
EXTENDS MCStores, ApplicationProofs, MergeProofs

(***************************************************************************)
(* The single-instance lock, for any number of starts and boots.            *)
(***************************************************************************)
\* Only the living take part.
InsideAreAlive == \A p \in Pids : at[p] # "out" => Alive(p)

\* No process started after the last one, and no record is from the future.
PastOnly ==
    /\ \A p \in Pids : life[p] <= tick
    /\ record \in Records => /\ record.boot <= boot
                             /\ record.boot = boot => record.start <= tick

\* With file locks, whoever is past the lock owns it, and its cleared record stays clear.
OwnerInside ==
    Locks => \A p \in Pids :
        /\ at[p] \in {"locked", "vacant", "blank", "holding", "closing"} => owner = p
        /\ at[p] = "blank" => record = NoPid

\* While an older version holds, its number is in the file and nobody passes it.
LegacyRespected ==
    \A p \in Pids : at[p] = "legacy" =>
        /\ prog[p] = "ours" /\ record = Bare(p)
        /\ \A q \in Pids : at[q] \in {"out", "locked", "legacy"}

IInv == /\ TypeOK /\ InsideAreAlive /\ PastOnly /\ OwnerInside /\ LegacyRespected
        /\ RecordNamesHolder /\ HolderVisible

\* A record of this version, a bare number, no record and a garbled one are told apart.
LEMMA RecordsDiffer ==
    /\ NoPid \notin Records /\ Torn \notin Records /\ Torn # NoPid /\ NoPid \notin Pids
    /\ \A p \in Pids : Bare(p) \notin Records /\ Bare(p) # NoPid /\ Bare(p) # Torn
    /\ \A p, q \in Pids : Bare(p) = Bare(q) => p = q
<1>1. /\ Torn # NoPid /\ NoPid \notin Pids
      /\ \A r \in [pid : Pids, start : 0..MaxStarts, boot : 0..MaxBoots] : r \notin {NoPid, Torn}
  BY LockAssumption
<1>2. Records \subseteq [pid : Pids, start : 0..MaxStarts, boot : 0..MaxBoots]
  BY LockAssumption DEF Records, Ticks, Boots
<1>3. \A p \in Pids : Bare(p) \in [pid : Pids, start : 0..MaxStarts, boot : 0..MaxBoots]
  BY LockAssumption DEF Bare
<1>4. \A p \in Pids : Bare(p) \notin Records
  BY DEF Bare, Records, Ticks
<1>5. \A p, q \in Pids : Bare(p) = Bare(q) => p = q
  BY DEF Bare
<1> QED
  BY <1>1, <1>2, <1>3, <1>4, <1>5

LEMMA InitEstablishes == Init => IInv
<1> SUFFICES ASSUME Init PROVE IInv
  OBVIOUS
<1>1. PICK n \in Pids :
         /\ life \in {[q \in Pids |-> 0], [q \in Pids |-> IF q = n THEN 1 ELSE 0]}
         /\ record \in {NoPid, Bare(n)}
         /\ \E g \in {"ours", "other"} : prog = [q \in Pids |-> g]
         /\ at = [q \in Pids |-> IF LegacyHolder(q) THEN "legacy" ELSE "out"]
  BY DEF Init
<1>2. boot = 1 /\ tick = 1 /\ owner = NoPid
  BY DEF Init
<1>3. \A p \in Pids : at[p] = "legacy" \/ at[p] = "out"
  BY <1>1
<1>4. \A p \in Pids : at[p] = "legacy" => Alive(p) /\ prog[p] = "ours" /\ record = Bare(p)
  BY <1>1 DEF LegacyHolder
<1>5. TypeOK
  BY <1>1, <1>2, LockAssumption DEF TypeOK, Boots, Ticks, Stages
<1>6. InsideAreAlive /\ LegacyRespected /\ OwnerInside /\ HolderVisible
  BY <1>3, <1>4 DEF InsideAreAlive, LegacyRespected, OwnerInside, HolderVisible
<1>7. record \notin Records
  BY <1>1, RecordsDiffer
<1>8. PastOnly
  BY <1>1, <1>2, <1>7 DEF PastOnly
<1>9. RecordNamesHolder
  <2> SUFFICES ASSUME NEW p \in Pids, Recorded(p) PROVE FALSE
    BY DEF RecordNamesHolder
  <2> QED
    BY <1>2, <1>5, <1>7 DEF Recorded, Alive, TypeOK, Records, Boots, Ticks
<1> QED
  BY <1>5, <1>6, <1>8, <1>9 DEF IInv

\* Every step preserves the invariant.
LEMMA StepPreserves == IInv /\ [Next]_vars => IInv'
<1> SUFFICES ASSUME IInv, [Next]_vars PROVE IInv'
  OBVIOUS
<1> USE LockAssumption, RecordsDiffer
        DEF IInv, TypeOK, InsideAreAlive, PastOnly, OwnerInside, LegacyRespected,
            RecordNamesHolder, HolderVisible, Alive, Recorded, Records, Boots, Ticks, Stages
<1>1. CASE UNCHANGED vars
  BY <1>1 DEF vars
<1>2. CASE Reboot
  BY <1>2 DEF Reboot
<1>3. ASSUME NEW p \in Pids, NEW g \in {"ours", "other"}, Start(p, g) PROVE IInv'
  <2>1. TypeOK'
    BY <1>3 DEF Start
  <2>2. InsideAreAlive'
    BY <1>3 DEF Start
  <2>3. PastOnly'
    BY <1>3 DEF Start
  <2>4. OwnerInside'
    BY <1>3 DEF Start
  <2>5. LegacyRespected'
    BY <1>3 DEF Start
  <2>6. RecordNamesHolder'
    BY <1>3 DEF Start
  <2>7. HolderVisible'
    BY <1>3 DEF Start
  <2> QED
    BY <2>1, <2>2, <2>3, <2>4, <2>5, <2>6, <2>7 DEF IInv
<1>4. ASSUME NEW p \in Pids, TryLock(p) PROVE IInv'
  <2>1. TypeOK'
    BY <1>4 DEF TryLock, Goto
  <2>2. InsideAreAlive'
    BY <1>4 DEF TryLock, Goto
  <2>3. PastOnly'
    BY <1>4 DEF TryLock, Goto
  <2>4. OwnerInside'
    BY <1>4 DEF TryLock, Goto
  <2>5. LegacyRespected'
    BY <1>4 DEF TryLock, Goto
  <2>6. RecordNamesHolder'
    BY <1>4 DEF TryLock, Goto
  <2>7. HolderVisible'
    BY <1>4 DEF TryLock, Goto
  <2> QED
    BY <2>1, <2>2, <2>3, <2>4, <2>5, <2>6, <2>7 DEF IInv
<1>5. ASSUME NEW p \in Pids, RefusedByRecord(p) PROVE IInv'
  <2>1. TypeOK'
    BY <1>5 DEF RefusedByRecord, Goto, Released
  <2>2. InsideAreAlive'
    BY <1>5 DEF RefusedByRecord, Goto, Released
  <2>3. PastOnly'
    BY <1>5 DEF RefusedByRecord, Goto, Released
  <2>4. OwnerInside'
    BY <1>5 DEF RefusedByRecord, Goto, Released
  <2>5. LegacyRespected'
    BY <1>5 DEF RefusedByRecord, Goto, Released
  <2>6. RecordNamesHolder'
    BY <1>5 DEF RefusedByRecord, Goto, Released
  <2>7. HolderVisible'
    BY <1>5 DEF RefusedByRecord, Goto, Released
  <2> QED
    BY <2>1, <2>2, <2>3, <2>4, <2>5, <2>6, <2>7 DEF IInv
<1>6. ASSUME NEW p \in Pids, FindVacant(p) PROVE IInv'
  <2>1. TypeOK'
    BY <1>6 DEF FindVacant, Goto
  <2>2. InsideAreAlive'
    BY <1>6 DEF FindVacant, Goto
  <2>3. PastOnly'
    BY <1>6 DEF FindVacant, Goto
  <2>4. OwnerInside'
    BY <1>6 DEF FindVacant, Goto
  <2>5. LegacyRespected'
    <3>1. \A q \in Pids : at[q] # "legacy"
      BY <1>6 DEF FindVacant, Held, LegacyHolder
    <3> QED
      BY <1>6, <3>1 DEF FindVacant, Goto
  <2>6. RecordNamesHolder'
    BY <1>6 DEF FindVacant, Goto
  <2>7. HolderVisible'
    BY <1>6 DEF FindVacant, Goto
  <2> QED
    BY <2>1, <2>2, <2>3, <2>4, <2>5, <2>6, <2>7 DEF IInv
<1>7. ASSUME NEW p \in Pids, AcquireFails(p) PROVE IInv'
  <2>1. TypeOK'
    BY <1>7 DEF AcquireFails, Goto, Released
  <2>2. InsideAreAlive'
    BY <1>7 DEF AcquireFails, Goto, Released
  <2>3. PastOnly'
    BY <1>7 DEF AcquireFails, Goto, Released
  <2>4. OwnerInside'
    BY <1>7 DEF AcquireFails, Goto, Released
  <2>5. LegacyRespected'
    BY <1>7 DEF AcquireFails, Goto, Released
  <2>6. RecordNamesHolder'
    BY <1>7 DEF AcquireFails, Goto, Released
  <2>7. HolderVisible'
    BY <1>7 DEF AcquireFails, Goto, Released
  <2> QED
    BY <2>1, <2>2, <2>3, <2>4, <2>5, <2>6, <2>7 DEF IInv
<1>8. ASSUME NEW p \in Pids, Clear(p) PROVE IInv'
  <2>1. TypeOK'
    BY <1>8 DEF Clear, Goto
  <2>2. InsideAreAlive'
    BY <1>8 DEF Clear, Goto
  <2>3. PastOnly'
    BY <1>8 DEF Clear, Goto
  <2>4. OwnerInside'
    BY <1>8 DEF Clear, Goto
  <2>5. LegacyRespected'
    BY <1>8 DEF Clear, Goto
  <2>6. RecordNamesHolder'
    BY <1>8 DEF Clear, Goto
  <2>7. HolderVisible'
    BY <1>8 DEF Clear, Goto
  <2> QED
    BY <2>1, <2>2, <2>3, <2>4, <2>5, <2>6, <2>7 DEF IInv
<1>9. ASSUME NEW p \in Pids, WriteRecord(p) PROVE IInv'
  <2>1. TypeOK'
    BY <1>9 DEF WriteRecord, Goto
  <2>2. InsideAreAlive'
    BY <1>9 DEF WriteRecord, Goto
  <2>3. PastOnly'
    BY <1>9 DEF WriteRecord, Goto
  <2>4. OwnerInside'
    BY <1>9 DEF WriteRecord, Goto
  <2>5. LegacyRespected'
    BY <1>9 DEF WriteRecord, Goto
  <2>6. RecordNamesHolder'
    BY <1>9 DEF WriteRecord, Goto
  <2>7. HolderVisible'
    BY <1>9 DEF WriteRecord, Goto
  <2> QED
    BY <2>1, <2>2, <2>3, <2>4, <2>5, <2>6, <2>7 DEF IInv
<1>10. ASSUME NEW p \in Pids, DropRecord(p) PROVE IInv'
  <2>1. TypeOK'
    BY <1>10 DEF DropRecord, Goto
  <2>2. InsideAreAlive'
    BY <1>10 DEF DropRecord, Goto
  <2>3. PastOnly'
    BY <1>10 DEF DropRecord, Goto
  <2>4. OwnerInside'
    BY <1>10 DEF DropRecord, Goto
  <2>5. LegacyRespected'
    BY <1>10 DEF DropRecord, Goto
  <2>6. RecordNamesHolder'
    BY <1>10 DEF DropRecord, Goto
  <2>7. HolderVisible'
    BY <1>10 DEF DropRecord, Goto
  <2> QED
    BY <2>1, <2>2, <2>3, <2>4, <2>5, <2>6, <2>7 DEF IInv
<1>11. ASSUME NEW p \in Pids, DropLock(p) PROVE IInv'
  <2>1. TypeOK'
    BY <1>11 DEF DropLock, Goto, Released
  <2>2. InsideAreAlive'
    BY <1>11 DEF DropLock, Goto, Released
  <2>3. PastOnly'
    BY <1>11 DEF DropLock, Goto, Released
  <2>4. OwnerInside'
    BY <1>11 DEF DropLock, Goto, Released
  <2>5. LegacyRespected'
    BY <1>11 DEF DropLock, Goto, Released
  <2>6. RecordNamesHolder'
    BY <1>11 DEF DropLock, Goto, Released
  <2>7. HolderVisible'
    BY <1>11 DEF DropLock, Goto, Released
  <2> QED
    BY <2>1, <2>2, <2>3, <2>4, <2>5, <2>6, <2>7 DEF IInv
<1>12. ASSUME NEW p \in Pids, Die(p) PROVE IInv'
  <2>1. TypeOK'
    BY <1>12 DEF Die, Released
  <2>2. InsideAreAlive'
    BY <1>12 DEF Die, Released
  <2>3. PastOnly'
    BY <1>12 DEF Die, Released
  <2>4. OwnerInside'
    BY <1>12 DEF Die, Released
  <2>5. LegacyRespected'
    BY <1>12 DEF Die, Released
  <2>6. RecordNamesHolder'
    BY <1>12 DEF Die, Released
  <2>7. HolderVisible'
    BY <1>12 DEF Die, Released
  <2> QED
    BY <2>1, <2>2, <2>3, <2>4, <2>5, <2>6, <2>7 DEF IInv
<1> HIDE DEF IInv, TypeOK, InsideAreAlive, PastOnly, OwnerInside, LegacyRespected,
             RecordNamesHolder, HolderVisible, Alive, Recorded, Records, Boots, Ticks, Stages
<1>13. ASSUME NEW p \in Pids, Acquire(p) PROVE IInv'
  BY <1>4, <1>5, <1>6, <1>7, <1>8, <1>9, <1>13 DEF Acquire
<1>14. QED
  BY <1>1, <1>2, <1>3, <1>10, <1>11, <1>12, <1>13 DEF Next

LEMMA Invariance == Spec => []IInv
  BY InitEstablishes, StepPreserves, PTL DEF Spec

\* The typing of the lock, with the kernel's owner always a process that is inside.
THEOREM TypeCorrect == Spec => []TypeOK
<1>1. IInv => TypeOK
  BY DEF IInv
<1> QED
  BY <1>1, Invariance, PTL

\* Two holders are one.
LEMMA HoldersAgree == IInv => MutualExclusion
<1> SUFFICES ASSUME IInv, Locks, NEW p \in Holders, NEW q \in Holders PROVE p = q
  BY DEF MutualExclusion
<1>1. CASE at[p] = "legacy" /\ at[q] = "legacy"
  BY <1>1, RecordsDiffer DEF IInv, LegacyRespected, Holders
<1>2. CASE at[p] = "holding" /\ at[q] = "holding"
  BY <1>2 DEF IInv, OwnerInside, Holders
<1>3. CASE at[p] # at[q]
  BY <1>3 DEF IInv, LegacyRespected, Holders
<1> QED
  BY <1>1, <1>2, <1>3 DEF Holders

\* Two processes never both hold the lock, and none passes a running older version.
THEOREM AtMostOneHolder == Spec => []MutualExclusion
  BY HoldersAgree, Invariance, PTL

\* The holder is always on record.
THEOREM HolderIsOnRecord == Spec => []HolderVisible
<1>1. IInv => HolderVisible
  BY DEF IInv
<1> QED
  BY <1>1, Invariance, PTL

\* A record that passes for live names a holder, however numbers are reused and whether
\* or not the filesystem locks.
THEOREM RecordIsNeverMisread == Spec => []RecordNamesHolder
<1>1. IInv => RecordNamesHolder
  BY DEF IInv
<1> QED
  BY <1>1, Invariance, PTL

\* A lock cannot go stale.
THEOREM NeverStale == Spec => []RefusedOnlyByLive
<1>1. IInv => RefusedOnlyByLive
  <2> SUFFICES ASSUME IInv, NEW p \in Pids, TurnedAway(p)
               PROVE \E q \in Pids : Alive(q) /\ ((q # p /\ at[q] # "out") \/ LegacyHolder(q))
    BY DEF RefusedOnlyByLive
  <2>1. CASE at[p] = "out" /\ owner # NoPid
    <3>1. owner \in Pids /\ at[owner] # "out"
      BY <2>1 DEF IInv, TypeOK
    <3> QED
      BY <2>1, <3>1 DEF IInv, InsideAreAlive
  <2>2. CASE at[p] = "locked" /\ Held
    <3>1. PICK q \in Pids : Recorded(q) \/ LegacyHolder(q)
      BY <2>2 DEF Held
    <3> QED
      BY <2>2, <3>1 DEF IInv, RecordNamesHolder, Recorded, LegacyHolder
  <2> QED
    BY <2>1, <2>2 DEF TurnedAway
<1> QED
  BY <1>1, Invariance, PTL

\* All of it together: the lock can be relied on, for any number of processes and boots.
THEOREM TheLockIsSound == Spec => []LockIsSound
<1>1. MutualExclusion /\ HolderVisible /\ RecordNamesHolder /\ RefusedOnlyByLive => LockIsSound
  BY DEF LockIsSound
<1> QED
  BY <1>1, AtMostOneHolder, HolderIsOnRecord, RecordIsNeverMisread, NeverStale, PTL

-----------------------------------------------------------------------------
\* The two states the abstract lock is made of, by name.
Holding == IF Holders = {} THEN NoPid ELSE CHOOSE p \in Holders : TRUE
OnRecord == IF \E p \in Pids : Recorded(p) THEN CHOOSE p \in Pids : Recorded(p) ELSE NoPid

\* With file locks the choice is none: there is one holder, and the record is its own.
OneToName ==
    /\ \A p \in Holders : Holding = p
    /\ Holders = {} => Holding = NoPid
    /\ \A p \in Pids : at[p] = "holding" => OnRecord = p
    /\ (\A p \in Pids : at[p] # "holding") => OnRecord = NoPid

LEMMA HolderIsUnique == IInv /\ Locks => OneToName
<1> SUFFICES ASSUME IInv, Locks PROVE OneToName
  OBVIOUS
<1>1. \A p, q \in Holders : p = q
  BY HoldersAgree DEF MutualExclusion
<1>2. \A p, q \in Pids : Recorded(p) /\ Recorded(q) => p = q
  BY DEF Recorded
<1>3. \A p \in Pids : at[p] = "holding" <=> Recorded(p)
  BY DEF IInv, RecordNamesHolder, HolderVisible
<1>4. \A p \in Holders : Holding = p
  BY <1>1 DEF Holding
<1>5. \A p \in Pids : at[p] = "holding" => OnRecord = p
  BY <1>2, <1>3 DEF OnRecord
<1> QED
  BY <1>3, <1>4, <1>5 DEF Holding, OnRecord, OneToName

\* The refinement, with its two expressions by name.
LEMMA Mapped ==
    /\ Single!Init <=> Holding \in Pids \cup {NoPid} /\ OnRecord = NoPid
    /\ Single!Leave <=> Holding # NoPid /\ Holding' = NoPid /\ OnRecord' = NoPid
    /\ \A p \in Pids :
         Single!Take(p) <=> Holding = NoPid /\ Holding' = p /\ OnRecord' = p
    /\ Single!Next <=> Single!Leave \/ \E p \in Pids : Single!Take(p)
  BY DEF Single!Init, Single!Leave, Single!Take, Single!Next, Holding, OnRecord

\* A step in which the same processes hold, and the same stages count, is none of the lock.
LEMMA SameHolders ==
    ASSUME OneToName, OneToName',
           \A p \in Pids : /\ at'[p] = "holding" <=> at[p] = "holding"
                           /\ at'[p] = "legacy" <=> at[p] = "legacy"
    PROVE  UNCHANGED <<Holding, OnRecord>>
<1>1. Holders' = Holders
  BY DEF Holders
<1>2. Holding' = Holding
  BY <1>1 DEF OneToName
<1>3. OnRecord' = OnRecord
  BY DEF OneToName
<1> QED
  BY <1>2, <1>3

\* The holder goes: nobody is left.
LEMMA HolderLeaves ==
    ASSUME IInv, OneToName, OneToName', NEW p \in Holders,
           \A q \in Pids : at'[q] \in {"holding", "legacy"} => q # p /\ at'[q] = at[q]
    PROVE  Single!Leave
<1>1. Holding = p /\ p # NoPid
  BY RecordsDiffer DEF OneToName, Holders
<1>2. Holders' = {}
  BY <1>1 DEF OneToName, Holders
<1>3. Holding' = NoPid /\ OnRecord' = NoPid
  BY <1>2 DEF OneToName, Holders
<1> QED
  BY <1>1, <1>3, Mapped

LEMMA StepIsOfOneLock ==
    IInv /\ IInv' /\ OneToName /\ OneToName' /\ Locks /\ [Next]_vars
        => Single!Next \/ UNCHANGED <<Holding, OnRecord>>
<1> SUFFICES ASSUME IInv, IInv', OneToName, OneToName', Locks, [Next]_vars
             PROVE  Single!Next \/ UNCHANGED <<Holding, OnRecord>>
  OBVIOUS
<1>0. at \in [Pids -> Stages]
  BY DEF IInv, TypeOK
<1>1. CASE UNCHANGED vars
  BY <1>1, SameHolders DEF vars
<1>2. CASE Reboot
  <2>1. \A q \in Pids : at'[q] = "out"
    BY <1>2 DEF Reboot
  <2>2. CASE Holders = {}
    BY <2>1, <2>2, SameHolders DEF Holders
  <2>3. CASE Holders # {}
    <3>1. PICK p \in Holders : TRUE
      BY <2>3
    <3> QED
      BY <2>1, <3>1, HolderLeaves, Mapped
  <2> QED
    BY <2>2, <2>3
<1>3. ASSUME NEW p \in Pids, NEW g \in {"ours", "other"}, Start(p, g)
      PROVE  UNCHANGED <<Holding, OnRecord>>
  BY <1>3, SameHolders DEF Start
<1>4. ASSUME NEW p \in Pids, TryLock(p) \/ RefusedByRecord(p) \/ FindVacant(p)
                             \/ AcquireFails(p) \/ Clear(p) \/ DropLock(p)
      PROVE  UNCHANGED <<Holding, OnRecord>>
  <2>1. \E from \in {"out", "locked", "vacant", "blank", "closing"},
            to \in {"out", "locked", "vacant", "blank"} : Goto(p, from, to)
    BY <1>4 DEF TryLock, RefusedByRecord, FindVacant, AcquireFails, Clear, DropLock
  <2> QED
    BY <1>0, <2>1, SameHolders DEF Goto
<1>5. ASSUME NEW p \in Pids, WriteRecord(p) PROVE Single!Next
  <2>1. at[p] = "blank" /\ at' = [at EXCEPT ![p] = "holding"]
    BY <1>5 DEF WriteRecord, Goto
  <2>2. p \in Holders' /\ Holding' = p /\ OnRecord' = p
    BY <1>0, <2>1 DEF Holders, OneToName
  <2>3. Holders = {}
    BY <2>1 DEF Holders, IInv, OwnerInside, LegacyRespected
  <2>4. Holding = NoPid
    BY <2>3 DEF OneToName
  <2> QED
    BY <2>2, <2>4, Mapped
<1>6. ASSUME NEW p \in Pids, DropRecord(p) PROVE Single!Next
  <2>1. at[p] = "holding" /\ at' = [at EXCEPT ![p] = "closing"] /\ p \in Holders
    BY <1>6 DEF DropRecord, Goto, Holders
  <2> QED
    BY <1>0, <2>1, HolderLeaves, Mapped
<1>7. ASSUME NEW p \in Pids, Die(p) PROVE Single!Next \/ UNCHANGED <<Holding, OnRecord>>
  <2>1. at' = [at EXCEPT ![p] = "out"]
    BY <1>7 DEF Die
  <2>2. CASE p \in Holders
    BY <1>0, <2>1, <2>2, HolderLeaves, Mapped
  <2>3. CASE p \notin Holders
    BY <1>0, <2>1, <2>3, SameHolders DEF Holders
  <2> QED
    BY <2>2, <2>3
<1> QED
  BY <1>1, <1>2, <1>3, <1>4, <1>5, <1>6, <1>7 DEF Next, Acquire

\* Before the first step nobody but an older version holds, and no record is a live one.
LEMMA StartsAsOneLock == Init /\ IInv /\ OneToName => Single!Init
<1> SUFFICES ASSUME Init, IInv, OneToName PROVE Single!Init
  OBVIOUS
<1>1. \A p \in Pids : at[p] \in {"out", "legacy"}
  BY DEF Init
<1>2. OnRecord = NoPid
  BY <1>1 DEF OneToName
<1>3. Holding \in Pids \cup {NoPid}
  BY DEF OneToName, Holders
<1> QED
  BY <1>2, <1>3, Mapped

\* Where files can be locked, the lock and the record together implement one lock with one
\* holder and one name, for any number of processes, starts and boots.
THEOREM BehavesAsOneLock == Spec /\ []Locks => OneInstance
<1>1. Spec => []IInv
  BY Invariance
<1>2. IInv /\ Locks => OneToName
  BY HolderIsUnique
<1>3. Init /\ IInv /\ OneToName => Single!Init
  BY StartsAsOneLock
<1>4. IInv /\ IInv' /\ OneToName /\ OneToName' /\ Locks /\ [Next]_vars
        => [Single!Next]_<<Holding, OnRecord>>
  BY StepIsOfOneLock
<1>5. Single!Init /\ [][Single!Next]_<<Holding, OnRecord>> => OneInstance
  BY DEF OneInstance, Single!OneAtATime, Holding, OnRecord
<1> QED
  BY <1>1, <1>2, <1>3, <1>4, <1>5, PTL DEF Spec

(***************************************************************************)
(* The client's calls.                                                      *)
(***************************************************************************)
\* The way up from a node has the node and its folders.
LEMMA PathRises ==
  ASSUME NEW n \in Anywhere
  PROVE  /\ Path[n] \subseteq Anywhere /\ n \in Path[n] /\ Rising(Path[n])
         /\ \A s \in SUBSET Anywhere : n \in s /\ Rising(s) => Path[n] \subseteq s
         /\ \A m \in Path[n] : Path[m] \subseteq Path[n]
<1>1. \A k \in Anywhere :
         Path[k] = {m \in Anywhere : \A s \in SUBSET Anywhere : k \in s /\ Rising(s) => m \in s}
  BY DEF Path
<1>2. Path[n] \subseteq Anywhere /\ n \in Path[n]
  BY <1>1
<1>3. ASSUME NEW k \in Path[n] \cap Nodes
      PROVE  Above[k] \in Path[n]
  <2>1. Above[k] \in Anywhere
    BY <1>2, RemoteAssumption DEF Anywhere
  <2>2. ASSUME NEW s \in SUBSET Anywhere, n \in s, Rising(s)
        PROVE  Above[k] \in s
    <3>1. k \in s
      BY <1>1, <2>2
    <3> QED BY <3>1, <2>2 DEF Rising
  <2> QED BY <1>1, <2>1, <2>2
<1>4. Rising(Path[n])
  BY <1>3 DEF Rising
<1>5. \A s \in SUBSET Anywhere : n \in s /\ Rising(s) => Path[n] \subseteq s
  BY <1>1
<1>6. \A m \in Path[n] : Path[m] \subseteq Path[n]
  BY <1>1, <1>2, <1>4
<1> QED BY <1>2, <1>4, <1>5, <1>6

\* What is said of the call whatever it is: every thread has a node or nothing, what is
\* missing now has been missing and what is there has been there, and what was ever missing
\* was missed with all below it.
HasNode(c) == caller[c] # Idle
Ahead == todo \cup nextLevel \cup {caller[c].node : c \in Callers}

ThreadsTyped ==
    /\ caller \in [Callers -> [node : Anywhere \cup {NoNode}, repeats : 0..Retries]]
    /\ \A c \in Callers : HasNode(c) => caller[c].node \in Anywhere

Witnessed ==
    /\ Anywhere \ present \subseteq absentOnce /\ present \subseteq presentOnce
    /\ \A n \in Anywhere : Path[n] \cap absentOnce # {} => n \in absentOnce

\* A folder the walk has come to is still to be listed, was not listed, or all that is in it
\* was found, but for what was missing at some moment, is excluded or cannot be read.
Explained(d) ==
    \/ d \in Ahead \cup scan.failed
    \/ d = Trunk /\ scan.rootMissing
    \/ \A n \in Nodes : Above[n] = d => n \in scan.entries \cup absentOnce \cup Skipped \cup Odd
WalkInv ==
    call = "walk" =>
        /\ scan.entries \subseteq presentOnce
        /\ \A d \in (scan.entries \cap Branch) \cup {Trunk} : Explained(d)
        /\ stage = "done" => Ahead \subseteq {NoNode}

\* A job of the pool waits, is a thread's alone, or was reported once.
JobOf(f) ==
    /\ \A c, d \in Callers : caller[c].node = f /\ caller[d].node = f => c = d
    /\ f \in todo => \A c \in Callers : caller[c].node # f
    /\ \/ reports[f] = {} /\ (f \in todo \/ \E c \in Callers : caller[c].node = f)
       \/ /\ reports[f] \in {{"ok"}, {"error"}}
          /\ f \notin todo /\ \A c \in Callers : caller[c].node # f
PoolInv ==
    /\ call = "pool" =>
          /\ todo \subseteq Leaves /\ \A c \in Callers : HasNode(c) => caller[c].node \in Leaves
          /\ \A f \in Leaves : JobOf(f)
          /\ stage = "done" => (\A c \in Callers : ~HasNode(c)) /\ (dropped \/ todo = {})
    /\ call # "pool" => \A f \in Leaves : reports[f] = {}
    /\ \A f \in Leaves : "ok" \in reports[f] => f \in presentOnce

RenameInv ==
    answer = "ok" => stage = "done" /\ (call = "rename" => place \in {"to", "trashed"})

RemoteInv ==
    /\ RemoteTypeOK /\ ThreadsTyped /\ Witnessed
    /\ WalkInv /\ PoolInv /\ RenameInv

-----------------------------------------------------------------------------
LEMMA RemoteFacts ==
  /\ Branch \subseteq Nodes /\ Leaves \subseteq Anywhere /\ Branch \subseteq Anywhere
  /\ Nodes \subseteq Anywhere /\ Trunk \in Anywhere /\ NoNode \notin Anywhere /\ Trunk \notin Nodes
  /\ Leaves \cap Branch = {} /\ Leaves \subseteq Nodes
  /\ Retries \in Nat /\ MaxStirs \in Nat
  /\ \A n \in Nodes : Above[n] \in Branch \cup {Trunk} /\ Above[n] \in Anywhere
  /\ Idle \in [node : Anywhere \cup {NoNode}, repeats : 0..Retries] /\ Idle.node = NoNode
  BY RemoteAssumption DEF Anywhere, Leaves, Idle

\* What is left of what there is when a node goes with all below it, and what there is with a
\* node and its folders, are trees; and so is a tree with a node whose folder is in it.
LEMMA TreesStayTrees ==
  ASSUME NEW s \in RemoteTrees, NEW n \in Anywhere
  PROVE  /\ s \ {m \in s : n \in Path[m]} \in RemoteTrees
         /\ s \cup Path[n] \in RemoteTrees
         /\ n \in Nodes /\ Above[n] \in s => s \cup {n} \in RemoteTrees
<1>1. s \subseteq Anywhere /\ \A m \in s : Path[m] \subseteq s
  BY DEF RemoteTrees
<1>2. Path[n] \subseteq Anywhere /\ n \in Path[n] /\ \A m \in Path[n] : Path[m] \subseteq Path[n]
  BY PathRises
<1>3. ASSUME NEW m \in s, n \notin Path[m], NEW k \in Path[m]
      PROVE  k \in s /\ n \notin Path[k]
  BY <1>1, <1>3, PathRises
<1>4. s \ {m \in s : n \in Path[m]} \in RemoteTrees
  BY <1>1, <1>3 DEF RemoteTrees
<1>5. s \cup Path[n] \in RemoteTrees
  BY <1>1, <1>2 DEF RemoteTrees
<1>6. ASSUME n \in Nodes, Above[n] \in s
      PROVE  s \cup {n} \in RemoteTrees
  <2>1. Rising({n} \cup Path[Above[n]])
    <3>1. Above[n] \in Anywhere /\ Rising(Path[Above[n]]) /\ Above[n] \in Path[Above[n]]
      BY <1>1, <1>6, PathRises
    <3> QED BY <3>1 DEF Rising
  <2>2. {n} \cup Path[Above[n]] \subseteq Anywhere
    BY <1>1, <1>6, PathRises
  <2>3. Path[n] \subseteq {n} \cup Path[Above[n]]
    BY <2>1, <2>2, PathRises
  <2> QED BY <1>1, <1>6, <2>3 DEF RemoteTrees
<1> QED BY <1>4, <1>5, <1>6

LEMMA RemoteInitHolds == RemoteInit => RemoteInv
<1> SUFFICES ASSUME RemoteInit PROVE RemoteInv
  OBVIOUS
<1>a. /\ present \in RemoteTrees /\ absentOnce = Anywhere \ present /\ presentOnce = present
      /\ session = "in" /\ call \in {"walk", "pool", "rename", "create"} /\ stage = "first"
      /\ caller = [c \in Callers |-> Idle] /\ nextLevel = {} /\ scan = NoScan
      /\ reports = [f \in Leaves |-> {}]
      /\ dropped = FALSE /\ place = "from" /\ answer = "none" /\ stirs = 0
  BY DEF RemoteInit
<1>b. /\ call = "walk" => todo = {Trunk}
      /\ call = "pool" => todo = Leaves
      /\ call = "rename" => todo = {}
      /\ call = "create" => todo \subseteq Branch
  BY DEF RemoteInit
<1>c. todo \subseteq Anywhere
  BY <1>a, <1>b, RemoteFacts
<1>d. present \subseteq Anywhere /\ \A n \in present : Path[n] \subseteq present
  BY <1>a DEF RemoteTrees
<1>1. RemoteTypeOK
  <2>1. scan \in [entries : SUBSET Nodes, failed : SUBSET Anywhere, rootMissing : BOOLEAN]
    BY <1>a DEF NoScan
  <2>2. stirs \in 0..MaxStirs
    BY <1>a, RemoteFacts
  <2> QED BY <1>a, <1>c, <1>d, <2>1, <2>2, RemoteFacts DEF RemoteTypeOK, FilePlaces
<1>2. ThreadsTyped
  BY <1>a, RemoteFacts DEF ThreadsTyped, HasNode
<1>3. Witnessed
  BY <1>a, <1>d DEF Witnessed
<1>4. WalkInv
  <2>1. scan.entries = {} /\ scan.failed = {}
    BY <1>a DEF NoScan
  <2> QED BY <1>a, <1>b, <2>1 DEF WalkInv, Explained, Ahead
<1>5. PoolInv
  <2>1. \A c \in Callers : caller[c].node = NoNode /\ ~HasNode(c)
    BY <1>a, RemoteFacts DEF HasNode
  <2>2. \A f \in Leaves : reports[f] = {}
    BY <1>a
  <2> QED BY <1>a, <1>b, <2>1, <2>2, RemoteFacts DEF PoolInv, JobOf
<1>6. RenameInv
  BY <1>a DEF RenameInv
<1> QED BY <1>1, <1>2, <1>3, <1>4, <1>5, <1>6 DEF RemoteInv

-----------------------------------------------------------------------------
\* What a thread takes up or sets down, in the records of all of them.
LEMMA CallerChanges ==
  ASSUME ThreadsTyped, NEW c \in Callers,
         NEW x \in [node : Anywhere \cup {NoNode}, repeats : 0..Retries],
         x # Idle => x.node \in Anywhere,
         caller' = [caller EXCEPT ![c] = x]
  PROVE  /\ ThreadsTyped' /\ caller'[c] = x /\ \A d \in Callers \ {c} : caller'[d] = caller[d]
         /\ \A n : n \in Ahead => n \in todo \/ n \in nextLevel \/ n = caller[c].node
                                     \/ \E d \in Callers \ {c} : n = caller'[d].node
  BY DEF ThreadsTyped, HasNode, Ahead

\* As long as nothing is taken off the ways of the walk and its findings stay, what it has
\* come to stays explained.
LEMMA WalkGoesOn ==
  ASSUME RemoteInv, call' = call,
         call = "walk" =>
             /\ stage' # "done"
             /\ scan' = scan
             /\ \A n \in Ahead \cap Anywhere : n \in Ahead',
         absentOnce \subseteq absentOnce', presentOnce \subseteq presentOnce'
  PROVE  WalkInv'
<1> SUFFICES ASSUME call = "walk" PROVE WalkInv'
  BY DEF WalkInv
<1>1. scan' = scan /\ stage' # "done" /\ scan.entries \subseteq presentOnce'
  BY DEF RemoteInv, WalkInv
<1>2. ASSUME NEW d \in (scan.entries \cap Branch) \cup {Trunk}
      PROVE  Explained(d)'
  <2>1. Explained(d) /\ d \in Anywhere
    BY RemoteFacts DEF RemoteInv, WalkInv
  <2> QED BY <1>1, <2>1 DEF Explained
<1> QED BY <1>1, <1>2 DEF WalkInv

LEMMA TakeNodeKeeps ==
  ASSUME RemoteInv, NEW c \in Callers, TakeNode(c)
  PROVE  RemoteInv'
<1>1. PICK n \in todo : /\ todo' = todo \ {n}
                        /\ caller' = [caller EXCEPT ![c] = [node |-> n, repeats |-> 0]]
  BY DEF TakeNode
<1>a. /\ stage = "first" /\ call \in {"walk", "pool"} /\ caller[c] = Idle
      /\ call' = call /\ stage' = stage /\ nextLevel' = nextLevel /\ scan' = scan
      /\ reports' = reports /\ dropped' = dropped /\ place' = place /\ answer' = answer
      /\ present' = present /\ absentOnce' = absentOnce /\ presentOnce' = presentOnce
      /\ session' = session /\ stirs' = stirs
  BY DEF TakeNode, World, Turn
<1>b. RemoteTypeOK /\ ThreadsTyped /\ n \in Anywhere
  BY DEF RemoteInv, RemoteTypeOK
<1> DEFINE x == [node |-> n, repeats |-> 0]
<1>c. /\ x \in [node : Anywhere \cup {NoNode}, repeats : 0..Retries]
      /\ x # Idle => x.node \in Anywhere
      /\ x.node = n /\ x # Idle
  BY <1>b, RemoteFacts
<1>d. caller' = [caller EXCEPT ![c] = x]
  BY <1>1
<1> HIDE DEF x
<1>e. /\ ThreadsTyped' /\ caller'[c] = x /\ \A d \in Callers \ {c} : caller'[d] = caller[d]
      /\ \A m : m \in Ahead => m \in todo \/ m \in nextLevel \/ m = caller[c].node
                                     \/ \E d \in Callers \ {c} : m = caller'[d].node
  BY <1>b, <1>c, <1>d, CallerChanges
<1>2. RemoteTypeOK'
  <2>1. caller' \in [Callers -> [node : Anywhere \cup {NoNode}, repeats : 0..Retries]]
    BY <1>e DEF ThreadsTyped
  <2> QED BY <1>a, <1>b, <1>1, <2>1 DEF RemoteTypeOK
<1>3. Witnessed'
  BY <1>a DEF RemoteInv, Witnessed
<1>4. WalkInv'
  <2>1. \A m \in Ahead \cap Anywhere : m \in Ahead'
    BY <1>1, <1>a, <1>c, <1>e, RemoteFacts DEF Ahead
  <2> QED BY <1>a, <2>1, WalkGoesOn
<1>5. PoolInv'
  <2>1. CASE call # "pool"
    BY <2>1, <1>a DEF RemoteInv, PoolInv
  <2>2. CASE call = "pool"
    <3>1. /\ todo \subseteq Leaves /\ \A d \in Callers : HasNode(d) => caller[d].node \in Leaves
          /\ \A f \in Leaves : JobOf(f)
          /\ \A f \in Leaves : "ok" \in reports[f] => f \in presentOnce
      BY <2>2 DEF RemoteInv, PoolInv
    <3>2. /\ todo' \subseteq Leaves /\ \A d \in Callers : HasNode(d)' => caller'[d].node \in Leaves
      BY <1>1, <1>c, <1>e, <3>1 DEF HasNode
    <3>3. ASSUME NEW f \in Leaves
          PROVE  JobOf(f)'
      <4>1. JobOf(f) /\ caller[c].node # f /\ n \in todo
        BY <3>1, <1>a, <1>1, RemoteFacts
      <4>2. CASE f = n
        <5>1. \A d \in Callers : caller[d].node # f
          BY <4>1, <4>2 DEF JobOf
        <5>2. \A d \in Callers : caller'[d].node = f <=> d = c
          BY <5>1, <1>c, <1>e, <4>2
        <5>3. reports[f] = {} /\ f \notin todo'
          BY <4>1, <4>2, <1>1 DEF JobOf
        <5> QED BY <5>2, <5>3, <1>a DEF JobOf
      <4>3. CASE f # n
        <5>1. \A d \in Callers : caller'[d].node = f <=> caller[d].node = f
          BY <1>c, <1>e, <4>1, <4>3
        <5>2. f \in todo' <=> f \in todo
          BY <1>1, <4>3
        <5> QED BY <4>1, <5>1, <5>2, <1>a DEF JobOf
      <4> QED BY <4>2, <4>3
    <3> QED BY <2>2, <1>a, <3>1, <3>2, <3>3 DEF PoolInv
  <2> QED BY <2>1, <2>2
<1>6. RenameInv'
  BY <1>a DEF RemoteInv, RenameInv
<1> QED BY <1>e, <1>2, <1>3, <1>4, <1>5, <1>6 DEF RemoteInv

LEMMA RepeatKeeps ==
  ASSUME RemoteInv, NEW c \in Callers, ListRepeated(c) \/ DownloadRepeated(c)
  PROVE  RemoteInv'
<1>a. /\ call' = call /\ stage' = stage /\ stage = "first" /\ todo' = todo
      /\ nextLevel' = nextLevel /\ scan' = scan
      /\ reports' = reports /\ dropped' = dropped /\ place' = place /\ answer' = answer
      /\ present' = present /\ absentOnce' = absentOnce /\ presentOnce' = presentOnce
      /\ session' = session /\ stirs' = stirs
  BY DEF ListRepeated, DownloadRepeated, World, During
<1>1. /\ HasNode(c) /\ caller[c].repeats < Retries
      /\ caller' = [caller EXCEPT ![c].repeats = @ + 1]
  BY DEF ListRepeated, DownloadRepeated, Turn, Repeat, HasNode
<1>b. RemoteTypeOK /\ ThreadsTyped
  BY DEF RemoteInv
<1> DEFINE x == [node |-> caller[c].node, repeats |-> caller[c].repeats + 1]
<1>c. /\ caller[c] \in [node : Anywhere \cup {NoNode}, repeats : 0..Retries]
      /\ caller[c].node \in Anywhere
  BY <1>1, <1>b DEF ThreadsTyped
<1>d. /\ x \in [node : Anywhere \cup {NoNode}, repeats : 0..Retries]
      /\ x.node = caller[c].node /\ x # Idle
  <2>1. caller[c].repeats \in 0..Retries /\ caller[c].repeats + 1 \in 0..Retries
    BY <1>1, <1>c, RemoteFacts
  <2>2. x.node = caller[c].node /\ x # Idle
    BY <1>c, RemoteFacts
  <2> QED BY <2>1, <2>2, <1>c
<1>e. caller' = [caller EXCEPT ![c] = x]
  <2>1. [caller[c] EXCEPT !.repeats = @ + 1] = x
    BY <1>c
  <2> HIDE DEF x
  <2> QED BY <1>1, <2>1
<1> HIDE DEF x
<1>f. /\ ThreadsTyped' /\ caller'[c] = x /\ \A d \in Callers \ {c} : caller'[d] = caller[d]
      /\ \A m : m \in Ahead => m \in todo \/ m \in nextLevel \/ m = caller[c].node
                                     \/ \E d \in Callers \ {c} : m = caller'[d].node
  BY <1>b, <1>c, <1>d, <1>e, CallerChanges
<1>g. \A d \in Callers : caller'[d].node = caller[d].node /\ (HasNode(d)' <=> HasNode(d))
  BY <1>1, <1>d, <1>f DEF HasNode
<1>2. RemoteTypeOK'
  <2>1. caller' \in [Callers -> [node : Anywhere \cup {NoNode}, repeats : 0..Retries]]
    BY <1>f DEF ThreadsTyped
  <2> QED BY <1>a, <1>b, <2>1 DEF RemoteTypeOK
<1>3. Witnessed'
  BY <1>a DEF RemoteInv, Witnessed
<1>4. WalkInv'
  <2>1. Ahead' = Ahead
    BY <1>a, <1>g DEF Ahead
  <2> QED BY <1>a, <2>1, WalkGoesOn
<1>5. PoolInv'
  <2>1. \A f \in Leaves : JobOf(f) => JobOf(f)'
    BY <1>a, <1>g DEF JobOf
  <2> QED BY <1>a, <1>g, <2>1 DEF RemoteInv, PoolInv
<1>6. RenameInv'
  BY <1>a DEF RemoteInv, RenameInv
<1> QED BY <1>f, <1>2, <1>3, <1>4, <1>5, <1>6 DEF RemoteInv

LEMMA DownloadKeeps ==
  ASSUME RemoteInv, NEW c \in Callers, DownloadArrives(c) \/ DownloadFails(c)
  PROVE  RemoteInv'
<1>a. /\ call = "pool" /\ call' = call /\ stage' = stage /\ stage = "first" /\ todo' = todo
      /\ nextLevel' = nextLevel /\ scan' = scan
      /\ dropped' = dropped /\ place' = place /\ answer' = answer
      /\ present' = present /\ absentOnce' = absentOnce /\ presentOnce' = presentOnce
      /\ session' = session /\ stirs' = stirs
  BY DEF DownloadArrives, DownloadFails, World, During
<1> DEFINE f == caller[c].node
<1>1. PICK what \in {"ok", "error"} : /\ reports' = [reports EXCEPT ![f] = @ \cup {what}]
                                      /\ what = "ok" => f \in present
  BY DEF DownloadArrives, DownloadFails, Tell
<1>2. HasNode(c) /\ caller' = [caller EXCEPT ![c] = Idle]
  BY DEF DownloadArrives, DownloadFails, Turn, Done, HasNode
<1>b. RemoteTypeOK /\ ThreadsTyped /\ Witnessed
  BY DEF RemoteInv
<1>c. /\ todo \subseteq Leaves /\ \A d \in Callers : HasNode(d) => caller[d].node \in Leaves
      /\ \A g \in Leaves : JobOf(g)
      /\ \A g \in Leaves : "ok" \in reports[g] => g \in presentOnce
  BY <1>a DEF RemoteInv, PoolInv
<1>d. f \in Leaves
  BY <1>2, <1>c
<1>e. /\ ThreadsTyped' /\ caller'[c] = Idle /\ \A d \in Callers \ {c} : caller'[d] = caller[d]
  BY <1>b, <1>2, RemoteFacts, CallerChanges
<1>f. \A g \in Leaves : reports'[g] = IF g = f THEN reports[g] \cup {what} ELSE reports[g]
  BY <1>1, <1>b, <1>d DEF RemoteTypeOK
<1>g. /\ reports[f] = {} /\ f \notin todo
      /\ \A d \in Callers : caller[d].node = f => d = c
  BY <1>c, <1>d DEF JobOf
<1>3. RemoteTypeOK'
  <2>1. reports' \in [Leaves -> SUBSET {"ok", "error"}]
    BY <1>1, <1>b, <1>d DEF RemoteTypeOK
  <2>2. caller' \in [Callers -> [node : Anywhere \cup {NoNode}, repeats : 0..Retries]]
    BY <1>e DEF ThreadsTyped
  <2> QED BY <1>a, <1>b, <2>1, <2>2 DEF RemoteTypeOK
<1>4. Witnessed'
  BY <1>a, <1>b DEF Witnessed
<1>5. WalkInv'
  BY <1>a DEF WalkInv
<1>6. PoolInv'
  <2>1. ASSUME NEW g \in Leaves
        PROVE  JobOf(g)'
    <3>1. CASE g = f
      <4>1. reports'[g] = {what}
        BY <1>f, <1>g, <3>1
      <4>2. \A d \in Callers : caller'[d].node # g
        BY <1>e, <1>g, <1>d, <3>1, RemoteFacts
      <4> QED BY <4>1, <4>2, <1>a, <1>g, <3>1 DEF JobOf
    <3>2. CASE g # f
      <4>1. \A d \in Callers : caller'[d].node = g <=> caller[d].node = g
        BY <1>e, <3>2, RemoteFacts
      <4>2. reports'[g] = reports[g] /\ JobOf(g)
        BY <1>c, <1>f, <3>2
      <4> QED BY <4>1, <4>2, <1>a DEF JobOf
    <3> QED BY <3>1, <3>2
  <2>2. \A g \in Leaves : "ok" \in reports'[g] => g \in presentOnce'
    BY <1>1, <1>a, <1>b, <1>c, <1>f DEF Witnessed
  <2>3. \A d \in Callers : HasNode(d)' => caller'[d].node \in Leaves
    BY <1>c, <1>e DEF HasNode
  <2> QED BY <2>1, <2>2, <2>3, <1>a, <1>c DEF PoolInv
<1>7. RenameInv'
  BY <1>a DEF RemoteInv, RenameInv
<1> QED BY <1>e, <1>3, <1>4, <1>5, <1>6, <1>7 DEF RemoteInv

LEMMA PoolEndsKeep ==
  ASSUME RemoteInv, PoolOver \/ CancelPool
  PROVE  RemoteInv'
<1>a. /\ call = "pool" /\ call' = call /\ stage = "first" /\ todo' = todo
      /\ caller' = caller /\ nextLevel' = nextLevel /\ scan' = scan /\ reports' = reports
      /\ place' = place /\ dropped' \in BOOLEAN
      /\ present' = present /\ absentOnce' = absentOnce /\ presentOnce' = presentOnce
      /\ session' = session /\ stirs' = stirs
      /\ \/ stage' = stage /\ answer' = answer
         \/ /\ stage' = "done" /\ answer' = "ok" /\ dropped' = dropped
            /\ dropped \/ todo = {}
            /\ \A c \in Callers : ~HasNode(c)
  BY DEF PoolOver, CancelPool, World, Queue, During, Turn, HasNode, RemoteInv, RemoteTypeOK
<1>1. RemoteTypeOK'
  BY <1>a DEF RemoteInv, RemoteTypeOK
<1>2. ThreadsTyped' /\ Witnessed' /\ WalkInv'
  BY <1>a DEF RemoteInv, ThreadsTyped, HasNode, Witnessed, WalkInv
<1>3. PoolInv'
  <2>1. \A f \in Leaves : JobOf(f) => JobOf(f)'
    BY <1>a DEF JobOf
  <2> QED BY <1>a, <2>1 DEF RemoteInv, PoolInv, HasNode
<1>4. RenameInv'
  BY <1>a DEF RemoteInv, RenameInv
<1> QED BY <1>1, <1>2, <1>3, <1>4 DEF RemoteInv

\* A folder is listed: all that is in it now is found, or is excluded or cannot be read.
LEMMA ListedKeeps ==
  ASSUME RemoteInv, NEW c \in Callers, Listed(c)
  PROVE  RemoteInv'
<1> DEFINE d == caller[c].node
           found == Listing(d) \ Skipped
<1>a. /\ call = "walk" /\ call' = call /\ stage' = stage /\ stage = "first" /\ todo' = todo
      /\ reports' = reports /\ dropped' = dropped /\ place' = place /\ answer' = answer
      /\ present' = present /\ absentOnce' = absentOnce /\ presentOnce' = presentOnce
      /\ session' = session /\ stirs' = stirs
  BY DEF Listed, World, During
<1>1. /\ HasNode(c) /\ caller' = [caller EXCEPT ![c] = Idle]
      /\ scan' = [scan EXCEPT !.entries = @ \cup found]
      /\ nextLevel' = nextLevel \cup (found \cap Branch)
  BY DEF Listed, Turn, Done, HasNode
<1>b. RemoteTypeOK /\ ThreadsTyped /\ Witnessed /\ WalkInv
  BY DEF RemoteInv
<1>c. /\ found \subseteq Nodes /\ found \subseteq present
      /\ \A n \in Nodes : Above[n] = d => n \in found \cup absentOnce \cup Skipped \cup Odd
  BY <1>b, RemoteFacts DEF Listing, RemoteTypeOK, RemoteTrees, Anywhere, Witnessed
<1>d. /\ ThreadsTyped' /\ caller'[c] = Idle /\ \A e \in Callers \ {c} : caller'[e] = caller[e]
      /\ \A m : m \in Ahead => m \in todo \/ m \in nextLevel \/ m = d
                                     \/ \E e \in Callers \ {c} : m = caller'[e].node
  BY <1>b, <1>1, RemoteFacts, CallerChanges
<1>e. /\ scan \in [entries : SUBSET Nodes, failed : SUBSET Anywhere, rootMissing : BOOLEAN]
      /\ nextLevel \subseteq Branch
  BY <1>b DEF RemoteTypeOK
<1> HIDE DEF found
<1>f. /\ scan'.entries = scan.entries \cup found /\ scan'.failed = scan.failed
      /\ scan'.rootMissing = scan.rootMissing
      /\ scan' \in [entries : SUBSET Nodes, failed : SUBSET Anywhere, rootMissing : BOOLEAN]
  BY <1>1, <1>c, <1>e
<1>2. RemoteTypeOK'
  <2>1. caller' \in [Callers -> [node : Anywhere \cup {NoNode}, repeats : 0..Retries]]
    BY <1>d DEF ThreadsTyped
  <2>2. nextLevel' \subseteq Branch
    BY <1>1, <1>e
  <2> QED BY <1>a, <1>b, <1>f, <2>1, <2>2 DEF RemoteTypeOK
<1>3. Witnessed'
  BY <1>a, <1>b DEF Witnessed
<1>4. WalkInv'
  <2>1. /\ scan.entries \subseteq presentOnce /\ present \subseteq presentOnce
        /\ \A e \in (scan.entries \cap Branch) \cup {Trunk} : Explained(e)
    BY <1>a, <1>b DEF WalkInv, Witnessed
  <2>2. ASSUME NEW e \in Ahead, e # d
        PROVE  e \in Ahead'
    BY <1>1, <1>a, <1>d, <2>2 DEF Ahead
  <2>3. ASSUME NEW e \in found \cap Branch
        PROVE  e \in Ahead'
    BY <1>1 DEF Ahead
  <2>4. ASSUME NEW e \in (scan'.entries \cap Branch) \cup {Trunk}
        PROVE  Explained(e)'
    <3>1. CASE e = d
      BY <3>1, <1>a, <1>c, <1>f DEF Explained
    <3>2. CASE e # d /\ e \in found
      BY <2>3, <2>4, <3>2, <1>c, RemoteFacts DEF Explained
    <3>3. CASE e # d /\ e \notin found
      <4>1. Explained(e)
        BY <2>1, <2>4, <3>3, <1>f
      <4> QED BY <4>1, <2>2, <3>3, <1>a, <1>f DEF Explained
    <3> QED BY <3>1, <3>2, <3>3
  <2> QED BY <1>a, <1>c, <1>f, <2>1, <2>4 DEF WalkInv
<1>5. PoolInv'
  BY <1>a DEF RemoteInv, PoolInv
<1>6. RenameInv'
  BY <1>a DEF RemoteInv, RenameInv
<1> QED BY <1>d, <1>2, <1>3, <1>4, <1>5, <1>6 DEF RemoteInv

\* A folder is not listed, and the walk says so.
LEMMA NotListedKeeps ==
  ASSUME RemoteInv, NEW c \in Callers, NotListed(c)
  PROVE  RemoteInv'
<1> DEFINE d == caller[c].node
<1>a. /\ call = "walk" /\ call' = call /\ stage' = stage /\ stage = "first" /\ todo' = todo
      /\ nextLevel' = nextLevel
      /\ reports' = reports /\ dropped' = dropped /\ place' = place /\ answer' = answer
      /\ present' = present /\ absentOnce' = absentOnce /\ presentOnce' = presentOnce
      /\ session' = session /\ stirs' = stirs
  BY DEF NotListed, World, During
<1>1. /\ HasNode(c) /\ caller' = [caller EXCEPT ![c] = Idle]
      /\ \/ d = Trunk /\ scan' = [scan EXCEPT !.rootMissing = TRUE]
         \/ scan' = [scan EXCEPT !.failed = @ \cup {d}]
  BY DEF NotListed, Turn, Done, HasNode, Unlisted
<1>b. RemoteTypeOK /\ ThreadsTyped /\ Witnessed /\ WalkInv
  BY DEF RemoteInv
<1>c. d \in Anywhere
  BY <1>1, <1>b DEF ThreadsTyped
<1>d. /\ ThreadsTyped' /\ caller'[c] = Idle /\ \A e \in Callers \ {c} : caller'[e] = caller[e]
      /\ \A m : m \in Ahead => m \in todo \/ m \in nextLevel \/ m = d
                                     \/ \E e \in Callers \ {c} : m = caller'[e].node
  BY <1>b, <1>1, RemoteFacts, CallerChanges
<1>e. scan \in [entries : SUBSET Nodes, failed : SUBSET Anywhere, rootMissing : BOOLEAN]
  BY <1>b DEF RemoteTypeOK
<1> HIDE DEF d
<1>f. /\ scan'.entries = scan.entries /\ scan.failed \subseteq scan'.failed
      /\ scan.rootMissing => scan'.rootMissing
      /\ d \in scan'.failed \/ (d = Trunk /\ scan'.rootMissing)
      /\ scan' \in [entries : SUBSET Nodes, failed : SUBSET Anywhere, rootMissing : BOOLEAN]
  BY <1>1, <1>c, <1>e
<1>2. RemoteTypeOK'
  <2>1. caller' \in [Callers -> [node : Anywhere \cup {NoNode}, repeats : 0..Retries]]
    BY <1>d DEF ThreadsTyped
  <2> QED BY <1>a, <1>b, <1>f, <2>1 DEF RemoteTypeOK
<1>3. Witnessed'
  BY <1>a, <1>b DEF Witnessed
<1>4. WalkInv'
  <2>1. ASSUME NEW e \in Ahead, e # d
        PROVE  e \in Ahead'
    BY <1>a, <1>d, <2>1 DEF Ahead
  <2>2. ASSUME NEW e \in (scan'.entries \cap Branch) \cup {Trunk}
        PROVE  Explained(e)'
    <3>1. Explained(e)
      BY <1>a, <1>b, <1>f, <2>2 DEF WalkInv
    <3>2. CASE e = d
      BY <3>2, <1>f DEF Explained
    <3>3. CASE e # d
      BY <3>1, <3>3, <2>1, <1>a, <1>f DEF Explained
    <3> QED BY <3>2, <3>3
  <2> QED BY <1>a, <1>b, <1>f, <2>2 DEF WalkInv
<1>5. PoolInv'
  BY <1>a DEF RemoteInv, PoolInv
<1>6. RenameInv'
  BY <1>a DEF RemoteInv, RenameInv
<1> QED BY <1>d, <1>2, <1>3, <1>4, <1>5, <1>6 DEF RemoteInv

LEMMA NextLevelKeeps ==
  ASSUME RemoteInv, NextLevel
  PROVE  RemoteInv'
<1>a. /\ call = "walk" /\ call' = call /\ stage = "first" /\ todo = {}
      /\ \A c \in Callers : caller[c].node = NoNode
      /\ todo' = nextLevel /\ nextLevel' = {}
      /\ \/ stage' = stage /\ answer' = answer
         \/ nextLevel = {} /\ stage' = "done" /\ answer' = "ok"
      /\ caller' = caller /\ scan' = scan /\ reports' = reports /\ dropped' = dropped
      /\ place' = place
      /\ present' = present /\ absentOnce' = absentOnce /\ presentOnce' = presentOnce
      /\ session' = session /\ stirs' = stirs
  BY DEF NextLevel, World, During, Turn, Idle
<1>b. RemoteTypeOK /\ ThreadsTyped /\ Witnessed /\ WalkInv
  BY DEF RemoteInv
<1>1. RemoteTypeOK'
  BY <1>a, <1>b, RemoteFacts DEF RemoteTypeOK
<1>2. ThreadsTyped' /\ Witnessed'
  BY <1>a, <1>b DEF ThreadsTyped, HasNode, Witnessed
<1>3. WalkInv'
  <2>1. Ahead' = Ahead
    BY <1>a DEF Ahead
  <2>2. stage' = "done" => Ahead' \subseteq {NoNode}
    BY <1>a DEF Ahead
  <2>3. /\ scan.entries \subseteq presentOnce
        /\ \A d \in (scan.entries \cap Branch) \cup {Trunk} : Explained(d)
    BY <1>a, <1>b DEF WalkInv
  <2>4. \A d : Explained(d) => Explained(d)'
    BY <1>a, <2>1 DEF Explained
  <2> QED BY <1>a, <2>2, <2>3, <2>4 DEF WalkInv
<1>4. PoolInv'
  BY <1>a DEF RemoteInv, PoolInv
<1>5. RenameInv'
  BY <1>a DEF RemoteInv, RenameInv
<1> QED BY <1>1, <1>2, <1>3, <1>4, <1>5 DEF RemoteInv

-----------------------------------------------------------------------------
LEMMA RenameKeeps ==
  ASSUME RemoteInv, RenameFirst \/ RenameSecond
  PROVE  RemoteInv'
<1>a. /\ call = "rename" /\ call' = call /\ stage \in {"first", "second"}
      /\ stage' \in {"second", "done"} /\ answer' \in {answer, "ok", "error"}
      /\ answer' = "ok" /\ answer # "ok" => stage' = "done" /\ place' = "to"
      /\ place' \in {place, "between", "to"}
      /\ todo' = todo /\ nextLevel' = nextLevel /\ caller' = caller /\ scan' = scan
      /\ reports' = reports /\ dropped' = dropped
      /\ present' = present /\ absentOnce' = absentOnce /\ presentOnce' = presentOnce
      /\ session' = session /\ stirs' = stirs
  BY DEF RenameFirst, RenameSecond, World, Queue, During, Succeeds, Steps, Returned
<1>b. RemoteTypeOK /\ ThreadsTyped /\ Witnessed /\ PoolInv /\ answer # "ok"
  BY <1>a DEF RemoteInv, RenameInv
<1>1. RemoteTypeOK'
  BY <1>a, <1>b DEF RemoteTypeOK, FilePlaces
<1>2. ThreadsTyped' /\ Witnessed' /\ WalkInv'
  BY <1>a, <1>b DEF ThreadsTyped, HasNode, Witnessed, WalkInv
<1>3. PoolInv'
  BY <1>a, <1>b DEF PoolInv
<1>4. RenameInv'
  BY <1>a, <1>b DEF RenameInv
<1> QED BY <1>1, <1>2, <1>3, <1>4 DEF RemoteInv

LEMMA CreateKeeps ==
  ASSUME RemoteInv, NEW n \in Branch, CreateFolder(n)
  PROVE  RemoteInv'
<1>a. /\ call = "create" /\ call' = call /\ stage' = "done" /\ answer' \in {"ok", "error"}
      /\ place' = place /\ todo' = todo /\ nextLevel' = nextLevel /\ caller' = caller
      /\ scan' = scan /\ reports' = reports /\ dropped' = dropped
      /\ absentOnce' = absentOnce /\ session' = session /\ stirs' = stirs
      /\ \/ present' = present /\ presentOnce' = presentOnce
         \/ /\ Above[n] \in present
            /\ present' = present \cup {n} /\ presentOnce' = presentOnce \cup {n}
  BY DEF CreateFolder, Queue, During, Returned
<1>b. RemoteTypeOK /\ ThreadsTyped /\ Witnessed /\ PoolInv
  BY DEF RemoteInv
<1>c. n \in Nodes /\ n \in Anywhere
  BY RemoteFacts
<1>1. RemoteTypeOK'
  <2>1. present' \in RemoteTrees
    <3>1. present \in RemoteTrees
      BY <1>b DEF RemoteTypeOK
    <3>2. Above[n] \in present => present \cup {n} \in RemoteTrees
      BY <3>1, <1>c, TreesStayTrees
    <3> QED BY <3>1, <3>2, <1>a
  <2>2. presentOnce' \subseteq Anywhere
    BY <1>a, <1>b, <1>c DEF RemoteTypeOK
  <2> QED BY <1>a, <1>b, <2>1, <2>2 DEF RemoteTypeOK
<1>2. ThreadsTyped' /\ Witnessed' /\ WalkInv'
  BY <1>a, <1>b DEF ThreadsTyped, HasNode, Witnessed, WalkInv
<1>3. PoolInv'
  BY <1>a, <1>b DEF PoolInv
<1>4. RenameInv'
  BY <1>a DEF RenameInv
<1> QED BY <1>1, <1>2, <1>3, <1>4 DEF RemoteInv

LEMMA StirKeeps ==
  ASSUME RemoteInv, Stir \/ SessionTurns
  PROVE  RemoteInv'
<1>a. /\ stage # "done" /\ stirs < MaxStirs /\ stirs' = stirs + 1
      /\ call' = call /\ stage' = stage /\ answer' = answer
      /\ todo' = todo /\ nextLevel' = nextLevel /\ caller' = caller /\ scan' = scan
      /\ reports' = reports /\ dropped' = dropped /\ place' \in {place, "trashed"}
      /\ session' \in {session, "in", "out", "noKeyring"}
  BY DEF Stir, SessionTurns, Queue
<1>b. RemoteTypeOK /\ ThreadsTyped /\ Witnessed /\ PoolInv
  BY DEF RemoteInv
<1>c. present \subseteq Anywhere /\ present \in RemoteTrees
  BY <1>b DEF RemoteTypeOK, RemoteTrees
<1>d. /\ present' \in RemoteTrees
      /\ \/ /\ absentOnce' = absentOnce \cup (Anywhere \ present')
            /\ presentOnce' = presentOnce \cup present'
         \/ present' = present /\ absentOnce' = absentOnce /\ presentOnce' = presentOnce
  <2>1. CASE /\ \E n \in Anywhere :
                   present' \in {present \ {m \in present : n \in Path[m]}, present \cup Path[n]}
             /\ absentOnce' = absentOnce \cup (Anywhere \ present')
             /\ presentOnce' = presentOnce \cup present'
    BY <1>c, <2>1, TreesStayTrees
  <2>2. CASE UNCHANGED <<present, absentOnce, presentOnce>>
    BY <1>c, <2>2
  <2> QED BY <2>1, <2>2 DEF Stir, SessionTurns
<1>e. present' \subseteq Anywhere /\ \A n \in present' : Path[n] \subseteq present'
  BY <1>d DEF RemoteTrees
<1>1. RemoteTypeOK'
  <2>1. stirs' \in 0..MaxStirs
    BY <1>a, <1>b, RemoteFacts DEF RemoteTypeOK
  <2> QED BY <1>a, <1>b, <1>d, <1>e, <2>1 DEF RemoteTypeOK, FilePlaces
<1>2. ThreadsTyped'
  BY <1>a, <1>b DEF ThreadsTyped, HasNode
<1>3. Witnessed'
  BY <1>b, <1>d, <1>e DEF Witnessed
<1>4. WalkInv'
  <2>1. Ahead' = Ahead
    BY <1>a DEF Ahead
  <2> QED BY <1>a, <1>d, <2>1, WalkGoesOn
<1>5. PoolInv'
  <2>1. \A f \in Leaves : JobOf(f) => JobOf(f)'
    BY <1>a DEF JobOf
  <2> QED BY <1>a, <1>b, <1>d, <2>1 DEF PoolInv, HasNode
<1>6. RenameInv'
  BY <1>a DEF RemoteInv, RenameInv
<1> QED BY <1>1, <1>2, <1>3, <1>4, <1>5, <1>6 DEF RemoteInv

LEMMA RemoteNextKeeps == RemoteInv /\ [RemoteNext]_remoteVars => RemoteInv'
<1> SUFFICES ASSUME RemoteInv, [RemoteNext]_remoteVars PROVE RemoteInv'
  OBVIOUS
<1>1. CASE UNCHANGED remoteVars
  <2>1. RemoteTypeOK' /\ ThreadsTyped' /\ Witnessed'
    BY <1>1 DEF remoteVars, RemoteInv, RemoteTypeOK, ThreadsTyped, HasNode, Witnessed
  <2>2. WalkInv'
    BY <1>1 DEF remoteVars, RemoteInv, WalkInv, Explained, Ahead
  <2>3. PoolInv' /\ RenameInv'
    BY <1>1 DEF remoteVars, RemoteInv, PoolInv, JobOf, HasNode, RenameInv
  <2> QED BY <2>1, <2>2, <2>3 DEF RemoteInv
<1>2. ASSUME NEW c \in Callers,
             \/ TakeNode(c) \/ ListRepeated(c) \/ Listed(c) \/ NotListed(c)
             \/ DownloadRepeated(c) \/ DownloadArrives(c) \/ DownloadFails(c)
      PROVE  RemoteInv'
  BY <1>2, TakeNodeKeeps, RepeatKeeps, ListedKeeps, NotListedKeeps, DownloadKeeps
<1> QED
  BY <1>1, <1>2, NextLevelKeeps, PoolEndsKeep, RenameKeeps, CreateKeeps, StirKeeps DEF RemoteNext

\* What a walk that is done left out was missing at some moment, or it says where it could
\* not look: of the nodes over one that was left out, itself included, take those not found;
\* the folder of each is not found either, and so on up to the trunk, which was.
LEMMA WalkIsHonest ==
  ASSUME RemoteInv PROVE ScanIsHonest
<1> SUFFICES ASSUME call = "walk", stage = "done" PROVE ScanIsHonest
  BY DEF ScanIsHonest
<1>1. /\ scan.entries \subseteq presentOnce /\ Ahead \subseteq {NoNode}
      /\ \A d \in (scan.entries \cap Branch) \cup {Trunk} : Explained(d)
      /\ \A n \in Anywhere : Path[n] \cap absentOnce # {} => n \in absentOnce
  BY DEF RemoteInv, WalkInv, Witnessed
<1>2. ASSUME ~scan.rootMissing, NEW n \in Nodes \ scan.entries, n \notin absentOnce,
             Path[n] \cap (scan.failed \cup Skipped \cup Odd) = {}
      PROVE  FALSE
  <2> DEFINE lost == Path[n] \ (scan.entries \cup {Trunk})
  <2>1. n \in Anywhere /\ Path[n] \subseteq Anywhere /\ n \in Path[n] /\ Rising(Path[n])
    BY RemoteFacts, PathRises
  <2>2. ASSUME NEW k \in lost \cap Nodes
        PROVE  Above[k] \in lost
    <3>1. Above[k] \in Path[n] /\ Above[k] \in Branch \cup {Trunk} /\ k \in Path[n]
      BY <2>1, RemoteFacts DEF Rising
    <3>2. SUFFICES ASSUME Above[k] \in scan.entries \cup {Trunk} PROVE FALSE
      BY <3>1
    <3>3. Explained(Above[k]) /\ Above[k] # NoNode
      BY <1>1, <2>1, <3>1, <3>2, RemoteFacts
    <3>4. k \in scan.entries \cup absentOnce \cup Skipped \cup Odd
      BY <1>1, <1>2, <3>1, <3>3 DEF Explained
    <3>5. k \in absentOnce
      BY <1>2, <3>1, <3>4
    <3> QED BY <1>1, <1>2, <2>1, <3>1, <3>5
  <2>3. lost \subseteq Anywhere /\ n \in lost
    BY <2>1, <1>2, RemoteFacts
  <2>4. Rising(lost)
    BY <2>2 DEF Rising
  <2>5. Path[n] \subseteq lost
    BY <2>1, <2>3, <2>4, PathRises
  <2> QED BY <2>5, RemoteAssumption
<1> QED BY <1>1, <1>2 DEF ScanIsHonest

LEMMA PoolIsHonest ==
  ASSUME RemoteInv PROVE PoolTellsAll
<1>1. ASSUME NEW f \in Leaves
      PROVE  Cardinality(reports[f]) <= 1 /\ ("ok" \in reports[f] => f \in presentOnce)
  <2>1. reports[f] \in {{}, {"ok"}, {"error"}} /\ ("ok" \in reports[f] => f \in presentOnce)
    BY DEF RemoteInv, PoolInv, JobOf
  <2>2. Cardinality({}) = 0 /\ Cardinality({"ok"}) = 1 /\ Cardinality({"error"}) = 1
    BY FS_EmptySet, FS_Singleton
  <2> QED BY <2>1, <2>2
<1>2. ASSUME call = "pool", stage = "done", NEW f \in Leaves, reports[f] = {}
      PROVE  dropped /\ f \in todo
  <2>1. JobOf(f) /\ (\A c \in Callers : ~HasNode(c)) /\ (dropped \/ todo = {})
    BY <1>2 DEF RemoteInv, PoolInv
  <2>2. \A c \in Callers : caller[c].node # f
    BY <2>1, RemoteFacts DEF HasNode
  <2>3. f \in todo
    BY <1>2, <2>1, <2>2 DEF JobOf
  <2> QED BY <2>1, <2>3
<1> QED BY <1>1, <1>2 DEF PoolTellsAll

\* Whatever others do to the remote meanwhile, however often the network, the session or the
\* client fails, and whichever thread comes when: a walk that ends leaves out only what was
\* missing at some moment of it or lies under a folder it says it could not list, a pool
\* reports every download once and truly, and a rename that is answered with success is
\* whole (list_tree, download_many, rename).
THEOREM RemoteAnswersAreTrue == RemoteSpec => []AnswersAreTrue
<1>1. RemoteInit => RemoteInv
  BY RemoteInitHolds
<1>2. RemoteInv /\ [RemoteNext]_remoteVars => RemoteInv'
  BY RemoteNextKeeps
<1>3. RemoteInv => AnswersAreTrue
  BY WalkIsHonest, PoolIsHonest DEF AnswersAreTrue, RenameIsWhole, RemoteInv, RenameInv
<1> QED BY <1>1, <1>2, <1>3, PTL DEF RemoteSpec

LEMMA RemoteTypesKept == RemoteSpec => []RemoteTypeOK
<1>1. RemoteInit => RemoteInv
  BY RemoteInitHolds
<1>2. RemoteInv /\ [RemoteNext]_remoteVars => RemoteInv'
  BY RemoteNextKeeps
<1>3. RemoteInv => RemoteTypeOK
  BY DEF RemoteInv
<1> QED BY <1>1, <1>2, <1>3, PTL DEF RemoteSpec

(***************************************************************************)
(* The command line and the doctor.                                         *)
(***************************************************************************)
LEMMA AspectsOf ==
  ASSUME NEW m, IsMachine(m)
  PROVE  /\ m.config \in {"ok", "empty", "bad", "none"}
         /\ m.program \in {"fine", "old", "exposed", "mute", "gone"}
         /\ m.network \in {"up", "down", "proxied", "proxiedDown"}
         /\ m.session \in {"in", "out", "noKeyring"}
         /\ m.folder \in {"there", "gone", "file"}
         /\ m.owner \in {"me", "root", "other"}
         /\ m.known \in BOOLEAN
<1>1. {"config", "program", "network", "session", "folder", "owner", "known"} \subseteq Names
  BY DEF Names, Aspects
<1>2. \A a \in Names : m[a] \in Aspects[a]
  BY DEF IsMachine
<1>3. /\ m.config \in Aspects["config"] /\ m.program \in Aspects["program"]
      /\ m.network \in Aspects["network"] /\ m.session \in Aspects["session"]
      /\ m.folder \in Aspects["folder"] /\ m.owner \in Aspects["owner"]
      /\ m.known \in Aspects["known"]
  BY <1>1, <1>2
<1> QED BY <1>3 DEF Aspects

LEMMA TheNames ==
  Names = {"config", "program", "network", "session", "store", "folder", "known", "fileMode",
           "dirMode", "state", "owner", "watcher", "live", "timer", "entry", "gui"}
  BY DEF Names, Aspects

LEMMA SoundIsMachine == IsMachine(Sound)
<1>1. DOMAIN Sound = Names
  BY TheNames DEF Sound
<1>2. ASSUME NEW a \in Names
      PROVE  Sound[a] \in Aspects[a]
  <2>1. CASE a \in {"config", "program", "network", "session"}
    BY <2>1 DEF Sound, Aspects
  <2>2. CASE a \in {"store", "folder", "fileMode"}
    BY <2>2 DEF Sound, Aspects
  <2>3. CASE a \in {"dirMode", "state", "owner", "watcher"}
    BY <2>3 DEF Sound, Aspects
  <2>4. CASE a \in {"live", "timer"}
    BY <2>4 DEF Sound, Aspects
  <2>5. CASE a \in {"known", "entry", "gui"}
    <3>1. Aspects[a] = BOOLEAN
      BY <2>5 DEF Aspects
    <3>2. Sound[a] = TRUE
      BY <2>5 DEF Sound
    <3> QED BY <3>1, <3>2
  <2> QED BY <2>1, <2>2, <2>3, <2>4, <2>5, TheNames
<1> QED BY <1>1, <1>2 DEF IsMachine

LEMMA ChangedIsMachine ==
  ASSUME NEW m, IsMachine(m), NEW a \in Names, NEW v \in Aspects[a]
  PROVE  /\ IsMachine([m EXCEPT ![a] = v]) /\ [m EXCEPT ![a] = v][a] = v
         /\ \A b \in Names \ {a} : [m EXCEPT ![a] = v][b] = m[b]
  BY DEF IsMachine

\* What the doctor says of a config that loads.
LEMMA WhatIsDiagnosed ==
  ASSUME NEW m, Loaded(m, FALSE)
  PROVE  LET r == Report(m, FALSE, FALSE) IN
         /\ r["config"] # Fail
         /\ r["cli"] = CheckProgram(m)
         /\ r["network"] = CheckNetwork(m, FALSE)
         /\ r["credentials"] = CheckCredentials(m, FALSE, FALSE)
         /\ r["folders"] = CheckFolders(m, FALSE)
  BY DEF Report, CheckConfig, Fail, Info, LevelOk

-----------------------------------------------------------------------------
\* Where the remote cannot be listed, or the folder cannot be synced, the doctor objects to
\* one of the four; and where a sync gets through, to none.
Objects(m, c) == Report(m, FALSE, FALSE)[c] \in {Warn, Fail}
Four == {"cli", "network", "credentials", "folders"}

LEMMA ObjectsToTheRemote ==
  ASSUME NEW m, IsMachine(m), Loaded(m, FALSE), ~Lists(m)
  PROVE  \E c \in Four : Objects(m, c)
<1> DEFINE r == Report(m, FALSE, FALSE)
<1>a. /\ m.program \in {"fine", "old", "exposed", "mute", "gone"}
      /\ m.network \in {"up", "down", "proxied", "proxiedDown"}
      /\ m.session \in {"in", "out", "noKeyring"}
  BY AspectsOf
<1>b. /\ r["cli"] = CheckProgram(m)
      /\ r["network"] = CheckNetwork(m, FALSE)
      /\ r["credentials"] = CheckCredentials(m, FALSE, FALSE)
  BY WhatIsDiagnosed
<1>1. CASE m.program \in {"gone", "mute"}
  <2>1. CheckProgram(m) = Fail
    BY <1>1 DEF CheckProgram
  <2> QED BY <2>1, <1>b DEF Objects, Four
<1>2. CASE m.network \notin {"up", "proxied"}
  <2>1. CheckNetwork(m, FALSE) \in {Fail, Warn}
    BY <1>2, <1>a DEF CheckNetwork
  <2> QED BY <2>1, <1>b DEF Objects, Four
<1>3. CASE m.session # "in" /\ m.program \notin {"gone", "mute"} /\ m.network \in {"up", "proxied"}
  <2>1. CheckProgram(m) # Fail /\ CheckNetwork(m, FALSE) # Fail
    BY <1>3, <1>a DEF CheckProgram, CheckNetwork, Fail, Warn, LevelOk
  <2>2. CheckCredentials(m, FALSE, FALSE) = Fail
    BY <2>1, <1>3 DEF CheckCredentials
  <2> QED BY <2>2, <1>b DEF Objects, Four
<1> QED BY <1>1, <1>2, <1>3 DEF Lists, Reaches

LEMMA ObjectsToTheFolder ==
  ASSUME NEW m, m.config = "ok", Refused(m)
  PROVE  \E c \in Four : Objects(m, c)
<1>1. Loaded(m, FALSE)
  BY DEF Loaded
<1>2. Report(m, FALSE, FALSE)["folders"] = CheckFolders(m, FALSE)
  BY <1>1, WhatIsDiagnosed
<1>3. CheckFolders(m, FALSE) \in {Fail, Warn}
  BY <1>1 DEF CheckFolders, Refused
<1> QED BY <1>2, <1>3 DEF Objects, Four

LEMMA NothingAgainst ==
  ASSUME NEW m, IsMachine(m), m.config = "ok", Lists(m), ~Refused(m)
  PROVE  \A c \in {"config"} \cup Four : Report(m, FALSE, FALSE)[c] # Fail
<1>a. m.folder \in {"there", "gone", "file"} /\ m.network \in {"up", "down", "proxied", "proxiedDown"}
  BY AspectsOf
<1>b. /\ Loaded(m, FALSE) /\ m.program \notin {"gone", "mute"} /\ m.session = "in"
      /\ Reaches(m) /\ m.network \in {"up", "proxied"}
  BY DEF Lists, Reaches, Loaded
<1>1. CheckProgram(m) # Fail
  BY <1>b DEF CheckProgram, Fail, Warn, LevelOk
<1>2. CheckNetwork(m, FALSE) # Fail
  BY <1>b DEF CheckNetwork, Fail, Warn, LevelOk
<1>3. CheckCredentials(m, FALSE, FALSE) # Fail
  <2> DEFINE level == CheckCredentials(m, FALSE, FALSE)
  <2>1. level \in {LevelSkip, Warn, LevelOk}
    BY <1>b DEF CheckCredentials
  <2> HIDE DEF level
  <2>2. level # Fail
    BY <2>1 DEF LevelSkip, Fail, Warn, LevelOk
  <2> QED BY <2>2 DEF level
<1>4. CheckFolders(m, FALSE) # Fail
  BY <1>a, <1>b DEF CheckFolders, Refused, Fail, Warn, Info, LevelOk
<1> QED BY <1>b, <1>1, <1>2, <1>3, <1>4, WhatIsDiagnosed DEF Four

\* Of the last command: which it was, and what its sync and its machine say of each other.
TermInv == TermTypeOK /\ TerminalAgrees

\* What a step does to the last command, and what may be said of it at once.
LEMMA CommandIsTyped ==
  ASSUME TermInv, IsMachine(machine)', NEW name, NEW exit \in 0..2, NEW saw \in BOOLEAN,
         name \in {"doctor", "sync", "watch", "init", "login", "logout"},
         Command(name, exit, saw)
  PROVE  /\ TermTypeOK' /\ last'.command = name /\ last'.exit = exit /\ last'.saw = saw
         /\ last'.on = machine
<1>1. /\ last' = [command |-> name, exit |-> exit, on |-> machine, saw |-> saw]
      /\ commands < MaxCommands /\ commands' = commands + 1
  BY DEF Command
<1>2. commands \in 0..MaxCommands /\ IsMachine(machine)
  BY DEF TermInv, TermTypeOK
<1>3. /\ last'.command = name /\ last'.exit = exit /\ last'.on = machine
      /\ last'.saw = saw
  BY <1>1
<1>4. IsMachine(last.on)'
  BY <1>2, <1>3 DEF IsMachine
<1>5. commands' \in 0..MaxCommands
  BY <1>1, <1>2, TerminalAssumption
<1> QED BY <1>3, <1>4, <1>5 DEF TermTypeOK

LEMMA TermInitHolds == TermInit => TermInv
<1> SUFFICES ASSUME TermInit PROVE TermInv
  OBVIOUS
<1>1. /\ machine = Sound /\ last.command = "none" /\ last.exit = 0 /\ last.on = Sound
      /\ last.saw = FALSE /\ commands = 0
  <2>1. machine = Sound /\ last = NoCommand /\ commands = 0
    BY DEF TermInit
  <2>2. /\ NoCommand.command = "none" /\ NoCommand.exit = 0 /\ NoCommand.on = Sound
        /\ NoCommand.saw = FALSE
    BY DEF NoCommand
  <2> QED BY <2>1, <2>2
<1>2. TermTypeOK
  <2>1. IsMachine(machine) /\ IsMachine(last.on)
    BY <1>1, SoundIsMachine
  <2>2. last.saw \in BOOLEAN
    BY <1>1
  <2>3. last.exit \in 0..2 /\ commands \in 0..MaxCommands
    BY <1>1, TerminalAssumption
  <2> QED BY <1>1, <2>1, <2>2, <2>3 DEF TermTypeOK
<1> QED BY <1>1, <1>2 DEF TermInv, TerminalAgrees, DoctorForesees, InitIsPrivate

\* The values the commands give a machine.
LEMMA GivenValues ==
  /\ "there" \in Aspects["folder"] /\ TRUE \in Aspects["known"]
  /\ "private" \in Aspects["state"] /\ "held" \in Aspects["watcher"]
  /\ "empty" \in Aspects["config"] /\ "private" \in Aspects["fileMode"]
  /\ "in" \in Aspects["session"] /\ "out" \in Aspects["session"]
  /\ {"folder", "known", "state", "watcher", "config", "fileMode", "session"} \subseteq Names
  BY TheNames DEF Aspects

LEMMA SyncMachine ==
  ASSUME NEW m, IsMachine(m)
  PROVE  IsMachine([m EXCEPT !.folder = "there", !.known = TRUE,
                             !.state = IF @ = "none" THEN "private" ELSE @])
<1> DEFINE one == [m EXCEPT !["folder"] = "there"]
           two == [one EXCEPT !["known"] = TRUE]
           new == IF two["state"] = "none" THEN "private" ELSE two["state"]
           three == [two EXCEPT !["state"] = new]
<1>1. IsMachine(one)
  BY GivenValues, ChangedIsMachine
<1> HIDE DEF one
<1>2. IsMachine(two)
  BY <1>1, GivenValues, ChangedIsMachine
<1> HIDE DEF two
<1>3. new \in Aspects["state"]
  BY <1>2, GivenValues DEF IsMachine
<1> HIDE DEF new
<1>4. IsMachine(three)
  BY <1>2, <1>3, GivenValues, ChangedIsMachine
<1> QED BY <1>4 DEF one, two, new

LEMMA SyncKeeps ==
  ASSUME TermInv, NEW unknown \in BOOLEAN, NEW changes \in BOOLEAN, Sync(unknown, changes)
  PROVE  TermInv'
<1> DEFINE runs   == machine.config = "ok" /\ ~unknown /\ machine.program # "gone"
           passes == runs /\ ~Refused(machine)
           exit == IF machine.config \in {"bad", "none"} \/ unknown THEN 2
                   ELSE IF \/ machine.program = "gone"
                           \/ runs /\ (Refused(machine) \/ (changes /\ ~Lists(machine)))
                        THEN 1 ELSE 0
           saw == passes /\ Lists(machine)
<1>a. Command("sync", exit, saw)
  BY DEF Sync
<1>b. IsMachine(machine)
  BY DEF TermInv, TermTypeOK
<1>c. machine' = IF passes /\ Lists(machine)
                 THEN [machine EXCEPT !.folder = "there", !.known = TRUE,
                                      !.state = IF @ = "none" THEN "private" ELSE @]
                 ELSE machine
  BY DEF Sync
<1>d. IsMachine(machine')
  <2>1. IsMachine([machine EXCEPT !.folder = "there", !.known = TRUE,
                                  !.state = IF @ = "none" THEN "private" ELSE @])
    BY <1>b, SyncMachine
  <2> QED BY <1>b, <1>c, <2>1
<1>e. IsMachine(machine)'
  BY <1>d DEF IsMachine
<1>f. exit \in 0..2 /\ saw \in BOOLEAN
  OBVIOUS
<1>g. /\ exit = 1 =>
            machine.config \notin {"bad", "none"} /\ ~unknown
            /\ (machine.program = "gone" \/ (runs /\ (Refused(machine) \/ ~Lists(machine))))
      /\ exit = 2 <=> machine.config \in {"bad", "none"} \/ unknown
  OBVIOUS
<1> HIDE DEF exit
<1>h. saw <=> passes /\ Lists(machine)
  OBVIOUS
<1> HIDE DEF saw
<1>1. /\ TermTypeOK' /\ last'.command = "sync" /\ last'.exit = exit /\ last'.saw = saw
      /\ last'.on = machine
  BY <1>a, <1>e, <1>f, CommandIsTyped
<1>2. ASSUME exit = 1 \/ (machine.config = "ok" /\ ~saw /\ exit # 2)
      PROVE  \E c \in Four : Objects(machine, c)
  <2>a. machine.config \in {"ok", "empty", "bad", "none"}
    BY <1>b, AspectsOf
  <2>b. Loaded(machine, FALSE) /\ ~unknown
    BY <1>2, <1>g, <2>a DEF Loaded
  <2>1. CASE ~Lists(machine)
    BY <2>1, <2>b, <1>b, ObjectsToTheRemote
  <2>2. CASE Refused(machine) /\ machine.config = "ok"
    BY <2>2, ObjectsToTheFolder
  <2>3. machine.program = "gone" => ~Lists(machine)
    BY DEF Lists
  <2> QED BY <1>2, <1>g, <1>h, <2>b, <2>1, <2>2, <2>3
<1>3. ASSUME saw
      PROVE  \A c \in {"config"} \cup Four : Report(machine, FALSE, FALSE)[c] # Fail
  BY <1>3, <1>b, <1>h, NothingAgainst
<1>4. DoctorForesees'
  BY <1>1, <1>2, <1>3 DEF DoctorForesees, Diagnosis, Objects, Four
<1>5. InitIsPrivate'
  BY <1>1 DEF InitIsPrivate
<1> QED BY <1>1, <1>4, <1>5 DEF TermInv, TerminalAgrees

LEMMA UnseenIsTyped ==
  ASSUME TermInv, IsMachine(machine'), NEW name \in {"doctor", "watch", "init", "login", "logout"},
         NEW exit \in 0..2, Command(name, exit, FALSE)
  PROVE  TermTypeOK' /\ last'.command = name /\ last'.exit = exit
<1>1. IsMachine(machine)'
  BY DEF IsMachine
<1> QED BY <1>1, CommandIsTyped

\* What the other commands do to the machine.
LEMMA OtherCommand ==
  ASSUME TermInv, IsMachine(machine'), NEW name \in {"doctor", "watch", "login", "logout"},
         NEW exit \in 0..2, Command(name, exit, FALSE)
  PROVE  TermInv'
<1>2. TermTypeOK' /\ last'.command = name
  BY UnseenIsTyped
<1> QED BY <1>2 DEF TermInv, TerminalAgrees, DoctorForesees, InitIsPrivate

LEMMA DoctorKeeps ==
  ASSUME TermInv, NEW typo \in BOOLEAN, NEW offline \in BOOLEAN, NEW probe \in BOOLEAN,
         Doctor(typo, offline, probe)
  PROVE  TermInv'
<1> DEFINE exit == IF probe /\ Loaded(machine, typo) /\ ~Lists(machine) THEN 2
                   ELSE IF HasFailures(Report(machine, typo, offline)) THEN 1 ELSE 0
<1>1. Command("doctor", exit, FALSE) /\ machine' = machine
  BY DEF Doctor
<1>2. IsMachine(machine')
  BY <1>1 DEF TermInv, TermTypeOK
<1>3. exit \in 0..2
  OBVIOUS
<1> HIDE DEF exit
<1> QED BY <1>1, <1>2, <1>3, OtherCommand

LEMMA WatchMachine ==
  ASSUME NEW m, IsMachine(m), NEW s \in Aspects["state"], NEW f \in Aspects["folder"]
  PROVE  IsMachine([m EXCEPT !.watcher = "held", !.state = s, !.folder = f])
<1> DEFINE one == [m EXCEPT !["watcher"] = "held"]
           two == [one EXCEPT !["state"] = s]
           three == [two EXCEPT !["folder"] = f]
<1>1. IsMachine(one)
  BY GivenValues, ChangedIsMachine
<1> HIDE DEF one
<1>2. IsMachine(two)
  BY <1>1, GivenValues, ChangedIsMachine
<1> HIDE DEF two
<1>3. IsMachine(three)
  BY <1>2, GivenValues, ChangedIsMachine
<1> QED BY <1>3 DEF one, two

LEMMA WatchKeeps ==
  ASSUME TermInv, NEW unknown \in BOOLEAN, Watch(unknown)
  PROVE  TermInv'
<1>a. IsMachine(machine)
  BY DEF TermInv, TermTypeOK
<1>1. CASE /\ Command("watch",
                  IF machine.config \in {"ok", "empty"} /\ ~unknown /\ machine.program = "gone"
                  THEN 1 ELSE 2, FALSE)
           /\ UNCHANGED machine
  <2> DEFINE exit == IF machine.config \in {"ok", "empty"} /\ ~unknown
                           /\ machine.program = "gone" THEN 1 ELSE 2
  <2>1. IsMachine(machine')
    BY <1>1, <1>a
  <2>2. Command("watch", exit, FALSE)
    BY <1>1
  <2>3. exit \in 0..2
    OBVIOUS
  <2> HIDE DEF exit
  <2> QED BY <2>1, <2>2, <2>3, OtherCommand
<1>2. CASE /\ Command("watch", 0, FALSE)
           /\ machine' = [machine EXCEPT !.watcher = "held",
                                     !.state = IF @ = "none" THEN "private" ELSE @,
                                     !.folder = IF @ = "gone" /\ ~machine.known THEN "there"
                                                ELSE @]
  <2> DEFINE s == IF machine.state = "none" THEN "private" ELSE machine.state
             f == IF machine.folder = "gone" /\ ~machine.known THEN "there" ELSE machine.folder
  <2>1. s \in Aspects["state"] /\ f \in Aspects["folder"]
    BY <1>a, GivenValues DEF IsMachine
  <2>2. machine' = [machine EXCEPT !.watcher = "held", !.state = s, !.folder = f]
    BY <1>2
  <2> HIDE DEF s, f
  <2>3. IsMachine(machine')
    BY <1>a, <2>1, <2>2, WatchMachine
  <2> QED BY <1>2, <2>3, OtherCommand
<1> QED BY <1>1, <1>2 DEF Watch

LEMMA SessionEffect ==
  ASSUME NEW name, NEW wanted, NEW works, Session(name, wanted, works)
  PROVE  \E exit \in 0..2 :
            /\ Command(name, exit, FALSE)
            /\ machine' \in {machine, [machine EXCEPT !["session"] = wanted]}
<1>1. CASE machine.config \in {"ok", "empty"} /\ works
  <2>1. Command(name, 0, FALSE) /\ machine' = [machine EXCEPT !["session"] = wanted]
    BY <1>1 DEF Session
  <2>2. Command(name, 0, FALSE)
    BY <2>1
  <2> WITNESS 0 \in 0..2
  <2> QED BY <2>1, <2>2
<1>2. CASE ~(machine.config \in {"ok", "empty"} /\ works)
  <2>1. Command(name, 2, FALSE) /\ machine' = machine
    BY <1>2 DEF Session
  <2>2. Command(name, 2, FALSE)
    BY <2>1
  <2> WITNESS 2 \in 0..2
  <2> QED BY <2>1, <2>2
<1> QED BY <1>1, <1>2

LEMMA SessionKeeps ==
  ASSUME TermInv, Login \/ Logout
  PROVE  TermInv'
<1>1. PICK name \in {"login", "logout"}, wanted \in {"in", "out"}, exit \in 0..2 :
         /\ Command(name, exit, FALSE)
         /\ machine' \in {machine, [machine EXCEPT !["session"] = wanted]}
  <2>1. CASE Login
    <3>1. \E exit \in 0..2 :
            /\ Command("login", exit, FALSE)
            /\ machine' \in {machine, [machine EXCEPT !["session"] = "in"]}
      BY <2>1, SessionEffect DEF Login
    <3> QED BY <3>1
  <2>2. CASE Logout
    <3>1. \E exit \in 0..2 :
            /\ Command("logout", exit, FALSE)
            /\ machine' \in {machine, [machine EXCEPT !["session"] = "out"]}
      BY <2>2, SessionEffect DEF Logout
    <3> QED BY <3>1
  <2> QED BY <2>1, <2>2
<1>2. IsMachine(machine)
  BY DEF TermInv, TermTypeOK
<1>3. IsMachine([machine EXCEPT !["session"] = wanted])
  BY <1>2, GivenValues, ChangedIsMachine
<1>4. IsMachine(machine')
  BY <1>1, <1>2, <1>3
<1> QED BY <1>1, <1>4, OtherCommand

\* A config that init wrote is the user's own and private.
LEMMA WrittenIsPrivate ==
  ASSUME NEW m, IsMachine(m), m.owner = "me"
  PROVE  /\ IsMachine(Written(m)) /\ Written(m).config = "empty"
         /\ Assess(Written(m).fileMode, Written(m).owner, TRUE, FALSE) = LevelOk
         /\ Report(Written(m), FALSE, FALSE).config # Fail
<1> DEFINE one == [m EXCEPT !["config"] = "empty"]
           two == [one EXCEPT !["fileMode"] = "private"]
<1>1. /\ IsMachine(one) /\ one["config"] = "empty" /\ one["owner"] = "me"
  BY GivenValues, TheNames, ChangedIsMachine
<1> HIDE DEF one
<1>2. /\ IsMachine(two) /\ two["fileMode"] = "private" /\ two["owner"] = "me"
      /\ two["config"] = "empty"
  BY <1>1, GivenValues, TheNames, ChangedIsMachine
<1>3. Written(m) = two
  BY DEF Written, one
<1> HIDE DEF two
<1>4. /\ two.fileMode = "private" /\ two.owner = "me" /\ two.config = "empty"
      /\ Loaded(two, FALSE)
  BY <1>2 DEF Loaded
<1>5. Assess("private", "me", TRUE, FALSE) = LevelOk
  BY DEF Assess, OwnerFinding
<1>6. Report(two, FALSE, FALSE).config # Fail
  BY <1>4, WhatIsDiagnosed
<1> QED BY <1>2, <1>3, <1>4, <1>5, <1>6

LEMMA InitKeeps ==
  ASSUME TermInv, NEW force \in BOOLEAN, InitConfig(force)
  PROVE  TermInv'
<1>a. IsMachine(machine)
  BY DEF TermInv, TermTypeOK
<1>1. CASE Command("init", 1, FALSE) /\ UNCHANGED machine
  <2>1. IsMachine(machine')
    BY <1>1, <1>a
  <2>2. TermTypeOK' /\ last'.command = "init" /\ last'.exit = 1
    BY <1>1, <2>1, UnseenIsTyped
  <2> QED BY <2>2 DEF TermInv, TerminalAgrees, DoctorForesees, InitIsPrivate
<1>2. CASE /\ Command("init", 2, FALSE)
           /\ machine' = IF machine.config # "none" /\ machine.fileMode = "writable"
                         THEN [machine EXCEPT !.config = "empty"] ELSE machine
  <2>1. IsMachine([machine EXCEPT !["config"] = "empty"])
    BY <1>a, GivenValues, ChangedIsMachine
  <2>2. IsMachine(machine')
    BY <1>2, <1>a, <2>1
  <2>4. TermTypeOK' /\ last'.command = "init" /\ last'.exit = 2
    BY <1>2, <2>2, UnseenIsTyped
  <2> QED BY <2>4 DEF TermInv, TerminalAgrees, DoctorForesees, InitIsPrivate
<1>3. CASE /\ Command("init", 0, FALSE) /\ machine' = Written(machine)
           /\ machine.owner = "me"
  <2>1. /\ IsMachine(machine')
        /\ Assess(machine'.fileMode, machine'.owner, TRUE, FALSE) = LevelOk
        /\ Report(machine', FALSE, FALSE).config # Fail
    BY <1>3, <1>a, WrittenIsPrivate
  <2>3. TermTypeOK' /\ last'.command = "init"
    BY <1>3, <2>1, UnseenIsTyped
  <2>4. InitIsPrivate'
    BY <2>1 DEF InitIsPrivate
  <2> QED BY <2>3, <2>4 DEF TermInv, TerminalAgrees, DoctorForesees
<1> QED BY <1>1, <1>2, <1>3 DEF InitConfig

LEMMA HappensKeeps ==
  ASSUME TermInv, NEW a \in Names, Happens(a)
  PROVE  TermInv'
<1>1. PICK v \in Aspects[a] : machine' = [machine EXCEPT ![a] = v]
  BY DEF Happens
<1>2. IsMachine(machine)
  BY DEF TermInv, TermTypeOK
<1>3. IsMachine(machine')
  BY <1>1, <1>2, ChangedIsMachine
<1>4. IsMachine(machine)'
  BY <1>3 DEF IsMachine
<1>5. /\ last' = NoCommand /\ commands' = commands
  BY DEF Happens
<1>6. /\ NoCommand.command = "none" /\ NoCommand.exit = 0 /\ NoCommand.on = Sound
      /\ NoCommand.saw = FALSE
  BY DEF NoCommand
<1>7. IsMachine(last.on)'
  <2>1. IsMachine(last'.on)
    BY <1>5, <1>6, SoundIsMachine
  <2> QED BY <2>1 DEF IsMachine
<1>8. last'.command = "none" /\ last'.exit \in 0..2 /\ last'.saw \in BOOLEAN
  <2>1. last'.command = "none" /\ last'.exit \in 0..2
    BY <1>5, <1>6
  <2>2. last'.saw = FALSE
    BY <1>5, <1>6
  <2> QED BY <2>1, <2>2
<1>9. TermTypeOK'
  BY <1>4, <1>5, <1>7, <1>8 DEF TermInv, TermTypeOK
<1> QED BY <1>8, <1>9 DEF TermInv, TerminalAgrees, DoctorForesees, InitIsPrivate

LEMMA TermNextKeeps == TermInv /\ [TermNext]_termVars => TermInv'
<1> SUFFICES ASSUME TermInv, [TermNext]_termVars PROVE TermInv'
  OBVIOUS
<1>1. CASE UNCHANGED termVars
  <2>1. machine' = machine /\ last' = last /\ commands' = commands
    BY <1>1 DEF termVars
  <2>2. TermTypeOK'
    BY <2>1 DEF TermInv, TermTypeOK, IsMachine
  <2>3. DoctorForesees'
    BY <2>1 DEF TermInv, TerminalAgrees, DoctorForesees, Diagnosis
  <2>4. InitIsPrivate'
    BY <2>1 DEF TermInv, TerminalAgrees, InitIsPrivate
  <2> QED BY <2>2, <2>3, <2>4 DEF TermInv, TerminalAgrees
<1> QED
  BY <1>1, SessionKeeps, DoctorKeeps, SyncKeeps, WatchKeeps, InitKeeps, HappensKeeps DEF TermNext

\* Whatever is wrong with the machine: where a sync fails or cannot see the remote the doctor
\* objects to the client, the network, the session or the folders, where one gets through it
\* calls none of them a failure, and it has nothing against the config an `init` left behind
\* (cmd_sync, cmd_init, doctor::run).
THEOREM TerminalAlwaysAgrees == TermSpec => [](TermTypeOK /\ TerminalAgrees)
<1>1. TermInit => TermInv
  BY TermInitHolds
<1>2. TermInv /\ [TermNext]_termVars => TermInv'
  BY TermNextKeeps
<1>3. TermInv => TermTypeOK /\ TerminalAgrees
  BY DEF TermInv
<1> QED BY <1>1, <1>2, <1>3, PTL DEF TermSpec

(***************************************************************************)
(* The emblems and the tray's sentence.                                     *)
(***************************************************************************)
NewsTyped(n) ==
    /\ DOMAIN n = {"pair", "session", "watching", "busy", "conflicts", "waiting", "mounted", "on"}
    /\ n.pair \in [PairRoots -> PairStates] /\ n.session \in Sessions
    /\ n.watching \in BOOLEAN /\ n.busy \in BOOLEAN /\ n.on \in BOOLEAN
    /\ n.conflicts \subseteq Within /\ n.mounted \subseteq PairRoots
IsBook(b) == DOMAIN b \subseteq Marked /\ \A p \in DOMAIN b : b[p] \in Synced..Error

\* What is written down of the emblems: by the process, or with it gone in its file.
Book == IF up = "down" THEN store ELSE applied

\* A path nobody lost track of has the emblem that is written down of it.
Truthful ==
    \A p \in Marked \ stray :
        emblem[p] = IF p \in DOMAIN Book THEN Icon(Book[p]) ELSE "none"

\* The file says what the process knows, but within a round that has done something.
InFile == up # "down" /\ ~round.did => store = applied

MarksInv ==
    /\ MarksTypeOK
    /\ NewsTyped(news) /\ IsBook(applied) /\ IsBook(store) /\ IsBook(round.want)
    /\ round.busy \in BOOLEAN /\ round.did \in BOOLEAN /\ round.last \in BOOLEAN
    /\ DOMAIN round = {"busy", "last", "want", "left", "did"}
    /\ DOMAIN emblem = Marked
    /\ round.busy => up # "down"
    /\ ~round.busy => ~round.did
    /\ Truthful /\ InFile

-----------------------------------------------------------------------------
LEMMA MarksFacts ==
  /\ Budget \in Nat /\ MaxMarked \in Nat /\ MaxNews \in Nat /\ MaxDeaths \in Nat
  /\ Cardinality(Marked) \in Nat /\ Budget + Cardinality(Marked) \in Nat
  /\ PairRoots \subseteq Marked /\ Within \subseteq Marked /\ PairRoots \cap Within = {}
<1>1. IsFiniteSet(Marked) /\ Budget \in Nat /\ MaxMarked \in Nat /\ MaxNews \in Nat
      /\ MaxDeaths \in Nat /\ PairRoots \cap Within = {}
  BY MarksAssumption
<1>2. Cardinality(Marked) \in Nat
  BY <1>1, FS_CardinalityType
<1> QED BY <1>1, <1>2 DEF Marked

LEMMA NoBook ==
  /\ IsBook(None) /\ DOMAIN None = {}
  /\ NoRound.busy = FALSE /\ NoRound.did = FALSE /\ NoRound.last = FALSE
  /\ NoRound.want = None /\ NoRound.left = 0
  /\ DOMAIN NoRound = {"busy", "last", "want", "left", "did"}
<1>1. DOMAIN None = {}
  BY DEF None
<1> QED BY <1>1 DEF IsBook, NoRound

LEMMA StatusIsOne ==
  ASSUME NEW n, NEW p
  PROVE  Status(n, p) \in Synced..Error
  BY DEF Status, Synced, Excluded, Syncing, Pending, Conflict, Offline, Error

\* What is wanted is a book.
LEMMA DesiredIsBook ==
  ASSUME NEW n
  PROVE  /\ IsBook(Desired(n)) /\ DOMAIN Desired(n) \subseteq Telling(n)
         /\ \A p \in DOMAIN Desired(n) : Desired(n)[p] = Status(n, p)
<1> DEFINE all == Telling(n)
           cut == IF Cardinality(all) <= MaxMarked THEN all
                  ELSE {p \in all : Cardinality({q \in all : Before(n, q, p)}) < MaxMarked}
<1>1. cut \subseteq Telling(n)
  OBVIOUS
<1>2. Desired(n) = [p \in cut |-> Status(n, p)]
  BY DEF Desired
<1> HIDE DEF cut
<1>3. DOMAIN Desired(n) = cut /\ \A p \in cut : Desired(n)[p] = Status(n, p)
  BY <1>2
<1>4. \A p \in DOMAIN Desired(n) : Desired(n)[p] \in Synced..Error
  BY <1>3, StatusIsOne
<1> QED BY <1>1, <1>3, <1>4 DEF IsBook, Telling

LEMMA WantedIsBook == IsBook(Wanted)
  BY NoBook, DesiredIsBook DEF Wanted

LEMMA MarksInitHolds == MarksInit => MarksInv
<1> SUFFICES ASSUME MarksInit PROVE MarksInv
  OBVIOUS
<1>1. PICK c \in SUBSET FilesIn :
         news = [pair |-> [r \in PairRoots |-> Quiet], session |-> "in", watching |-> TRUE,
                 busy |-> FALSE, conflicts |-> c, waiting |-> {}, mounted |-> PairRoots,
                 on |-> TRUE]
  BY DEF MarksInit
<1>2. Quiet \in PairStates
  BY DEF Quiet, PairStates
<1>3. NewsTyped(news)
  <2>1. c \subseteq Within
    BY DEF FilesIn
  <2>2. news.pair = [r \in PairRoots |-> Quiet] /\ news.session = "in"
        /\ news.conflicts = c /\ news.mounted = PairRoots
        /\ DOMAIN news = {"pair", "session", "watching", "busy", "conflicts", "waiting",
                          "mounted", "on"}
    BY <1>1
  <2>3. news.watching \in BOOLEAN /\ news.busy \in BOOLEAN /\ news.on \in BOOLEAN
    BY <1>1
  <2> QED BY <1>2, <2>1, <2>2, <2>3 DEF NewsTyped, Sessions
<1>4. /\ applied = None /\ failed = {} /\ store = None
      /\ emblem = [p \in Marked |-> "none"] /\ round = NoRound
      /\ up \in {"up", "down"} /\ stray = {} /\ newsCount = 0 /\ deathCount = 0
  BY DEF MarksInit
<1>5. MarksTypeOK
  BY <1>4, NoBook, MarksFacts DEF MarksTypeOK
<1>6. Truthful
  BY <1>4, NoBook DEF Truthful, Book
<1> QED BY <1>3, <1>4, <1>5, <1>6, NoBook DEF MarksInv, InFile

LEMMA NextNewsTyped ==
  ASSUME NewsTyped(news), NEW n \in NextNews
  PROVE  NewsTyped(n)
<1>t. /\ news.pair \in [PairRoots -> PairStates] /\ news.session \in Sessions
      /\ news.watching \in BOOLEAN /\ news.busy \in BOOLEAN /\ news.on \in BOOLEAN
      /\ news.conflicts \subseteq Within /\ news.mounted \subseteq PairRoots
      /\ DOMAIN news = {"pair", "session", "watching", "busy", "conflicts", "waiting", "mounted",
                        "on"}
  BY DEF NewsTyped
<1>d. DOMAIN n = DOMAIN news
  BY DEF NextNews
<1>f. FilesIn \subseteq Within
  BY DEF FilesIn
<1>1. ASSUME NEW r \in PairRoots, NEW s \in PairStates, n = [news EXCEPT !.pair[r] = s]
      PROVE  NewsTyped(n)
  <2>1. /\ n.session = news.session /\ n.conflicts = news.conflicts /\ n.mounted = news.mounted
        /\ n.watching = news.watching /\ n.busy = news.busy /\ n.on = news.on
    BY <1>1
  <2>2. n.pair = news.pair \/ n.pair = [news.pair EXCEPT ![r] = s]
    BY <1>1
  <2>3. n.pair \in [PairRoots -> PairStates]
    BY <2>2, <1>1, <1>t
  <2> QED BY <2>1, <2>3, <1>t, <1>d DEF NewsTyped
<1>2. ASSUME NEW s \in Sessions, n = [news EXCEPT !.session = s]
      PROVE  NewsTyped(n)
  <2>1. /\ n.session \in {s, news.session} /\ n.conflicts = news.conflicts
        /\ n.mounted = news.mounted /\ n.pair = news.pair
        /\ n.watching = news.watching /\ n.busy = news.busy /\ n.on = news.on
    BY <1>2
  <2> QED BY <2>1, <1>t, <1>d DEF NewsTyped
<1>3. ASSUME NEW a \in {"watching", "busy", "on"}, n = [news EXCEPT ![a] = ~@]
      PROVE  NewsTyped(n)
  <2>1. /\ n.session = news.session /\ n.conflicts = news.conflicts
        /\ n.mounted = news.mounted /\ n.pair = news.pair
    BY <1>3
  <2>2. \A b \in {"watching", "busy", "on"} \ {a} : n[b] = news[b]
    BY <1>3
  <2>3. n[a] = ~news[a]
    BY <1>3, <1>t
  <2>4. n.watching \in BOOLEAN /\ n.busy \in BOOLEAN /\ n.on \in BOOLEAN
    BY <2>2, <2>3, <1>t
  <2> QED BY <2>1, <2>4, <1>t, <1>d DEF NewsTyped
<1>4. ASSUME NEW c \in SUBSET FilesIn, n = [news EXCEPT !.conflicts = c]
      PROVE  NewsTyped(n)
  <2>1. /\ n.session = news.session /\ n.conflicts \in {c, news.conflicts}
        /\ n.mounted = news.mounted /\ n.pair = news.pair
        /\ n.watching = news.watching /\ n.busy = news.busy /\ n.on = news.on
    BY <1>4
  <2> QED BY <2>1, <1>t, <1>d, <1>f DEF NewsTyped
<1>5. ASSUME NEW c \in SUBSET FilesIn, n = [news EXCEPT !.waiting = c]
      PROVE  NewsTyped(n)
  <2>1. /\ n.session = news.session /\ n.conflicts = news.conflicts
        /\ n.mounted = news.mounted /\ n.pair = news.pair
        /\ n.watching = news.watching /\ n.busy = news.busy /\ n.on = news.on
    BY <1>5
  <2> QED BY <2>1, <1>t, <1>d DEF NewsTyped
<1>6. ASSUME NEW m \in SUBSET PairRoots, n = [news EXCEPT !.mounted = m]
      PROVE  NewsTyped(n)
  <2>1. /\ n.session = news.session /\ n.conflicts = news.conflicts
        /\ n.mounted \in {m, news.mounted} /\ n.pair = news.pair
        /\ n.watching = news.watching /\ n.busy = news.busy /\ n.on = news.on
    BY <1>6
  <2> QED BY <2>1, <1>t, <1>d DEF NewsTyped
<1> QED BY <1>1, <1>2, <1>3, <1>4, <1>5, <1>6 DEF NextNews

\* Steps that leave the emblems and what is written down of them alone.
LEMMA TellingKeeps ==
  ASSUME MarksInv, (\E n \in NextNews : NewsComes(n)) \/ Publish \/ Quit
  PROVE  MarksInv'
<1>1. /\ applied' = applied /\ failed' = failed /\ store' = store /\ emblem' = emblem
      /\ round' = round /\ stray' = stray
      /\ up' = up \/ (up = "up" /\ up' = "quitting")
      /\ newsCount' \in {newsCount, newsCount + 1} /\ (newsCount' # newsCount => newsCount < MaxNews)
      /\ deathCount' \in {deathCount, deathCount + 1}
      /\ (deathCount' # deathCount => deathCount < MaxDeaths)
      /\ news' = news \/ news' \in NextNews
  BY DEF NewsComes, Publish, Quit, TellTale, Counts
<1>2. NewsTyped(news')
  BY <1>1, NextNewsTyped DEF MarksInv
<1>3. NewsTyped(news)'
  BY <1>2 DEF NewsTyped
<1>4. MarksTypeOK'
  BY <1>1, MarksFacts DEF MarksInv, MarksTypeOK
<1>5. Book' = Book
  BY <1>1 DEF Book
<1>6. Truthful'
  BY <1>1, <1>5 DEF MarksInv, Truthful
<1>7. IsBook(applied)' /\ IsBook(store)' /\ IsBook(round.want)' /\ InFile'
  BY <1>1 DEF MarksInv, IsBook, InFile
<1> QED BY <1>1, <1>3, <1>4, <1>6, <1>7 DEF MarksInv

LEMMA RoundBeginsKeeps ==
  ASSUME MarksInv, RoundBegins
  PROVE  MarksInv'
<1>1. /\ applied' = applied /\ failed' = failed /\ store' = store /\ emblem' = emblem
      /\ news' = news /\ stray' = stray /\ up' = up /\ up # "down" /\ ~round.busy
      /\ newsCount' = newsCount /\ deathCount' = deathCount
  BY DEF RoundBegins, Counts
<1>2. round' = [busy |-> TRUE, last |-> up = "quitting", want |-> Wanted, did |-> FALSE,
                left |-> IF up = "quitting" THEN Cardinality(Marked) ELSE Budget]
  BY DEF RoundBegins
<1>3. /\ DOMAIN round' = {"busy", "last", "want", "left", "did"}
      /\ round'.want = Wanted
      /\ round'.left = IF up = "quitting" THEN Cardinality(Marked) ELSE Budget
  BY <1>2
<1>4. round'.busy = TRUE /\ round'.did = FALSE
  BY <1>2
<1>5. round'.last \in BOOLEAN
  BY <1>2
<1>6. MarksTypeOK'
  <2>1. round'.left \in 0..Budget + Cardinality(Marked)
    BY <1>3, MarksFacts
  <2> QED BY <1>1, <2>1 DEF MarksInv, MarksTypeOK
<1>7. IsBook(applied)' /\ IsBook(store)' /\ IsBook(round.want)' /\ NewsTyped(news)'
  <2>1. IsBook(round'.want)
    BY <1>3, WantedIsBook
  <2>2. IsBook(round.want)'
    BY <2>1 DEF IsBook
  <2> QED BY <1>1, <2>2 DEF MarksInv, IsBook, NewsTyped
<1>8. Truthful' /\ InFile'
  <2>1. Book' = Book
    BY <1>1 DEF Book
  <2>2. store = applied
    BY <1>1 DEF MarksInv, InFile
  <2> QED BY <1>1, <2>1, <2>2 DEF MarksInv, Truthful, InFile
<1> QED BY <1>1, <1>3, <1>4, <1>5, <1>6, <1>7, <1>8 DEF MarksInv

LEMMA SpendSpends ==
  ASSUME MarksInv, round.busy, round.left > 0, Spend
  PROVE  /\ round'.left \in 0..Budget + Cardinality(Marked) /\ round'.want = round.want
         /\ round'.busy = TRUE /\ round'.did = TRUE /\ round'.last \in BOOLEAN
         /\ DOMAIN round' = {"busy", "last", "want", "left", "did"}
<1>1. /\ DOMAIN round = {"busy", "last", "want", "left", "did"}
      /\ round.left \in 0..Budget + Cardinality(Marked)
      /\ round' = [round EXCEPT !.left = @ - 1, !.did = TRUE]
  BY DEF MarksInv, MarksTypeOK, Spend
<1>2. round'.left = round.left - 1 /\ round'.want = round.want
  BY <1>1
<1>3. round'.busy = round.busy
  BY <1>1
<1>4. round'.last = round.last
  BY <1>1
<1>5. round'.did = TRUE
  BY <1>1
<1>6. DOMAIN round' = DOMAIN round
  BY <1>1
<1>7. round.busy = TRUE /\ round.last \in BOOLEAN
  BY DEF MarksInv
<1> QED BY <1>1, <1>2, <1>3, <1>4, <1>5, <1>6, <1>7, MarksFacts

LEMMA ClearOneKeeps ==
  ASSUME MarksInv, NEW p \in Marked, ClearOne(p)
  PROVE  MarksInv'
<1>1. /\ failed' = failed /\ store' = store /\ news' = news /\ up' = up
      /\ newsCount' = newsCount /\ deathCount' = deathCount
      /\ applied' = [q \in DOMAIN applied \ {p} |-> applied[q]]
      /\ emblem' = IF CanCarry(p) THEN [emblem EXCEPT ![p] = "none"] ELSE emblem
      /\ stray' = IF emblem'[p] # "none" THEN stray \cup {p} ELSE stray \ {p}
      /\ round.busy /\ round.left > 0 /\ Spend
  BY DEF ClearOne, Counts
<1>2. /\ round'.left \in 0..Budget + Cardinality(Marked) /\ round'.want = round.want
      /\ round'.busy = TRUE /\ round'.did = TRUE /\ round'.last \in BOOLEAN
      /\ DOMAIN round' = {"busy", "last", "want", "left", "did"}
  BY <1>1, SpendSpends
<1>3. /\ DOMAIN applied' = DOMAIN applied \ {p}
      /\ \A q \in DOMAIN applied \ {p} : applied'[q] = applied[q]
  BY <1>1
<1>4. DOMAIN emblem' = Marked /\ \A q \in Marked \ {p} : emblem'[q] = emblem[q]
  BY <1>1 DEF MarksInv
<1>5. IsBook(applied)' /\ IsBook(store)' /\ IsBook(round.want)' /\ NewsTyped(news)'
  BY <1>1, <1>2, <1>3 DEF MarksInv, IsBook, NewsTyped
<1>6. MarksTypeOK'
  <2>1. /\ DOMAIN applied \cup DOMAIN store \subseteq Marked /\ stray \subseteq Marked
        /\ failed \subseteq Marked \X (Synced..Error) /\ up \in {"up", "quitting", "down"}
        /\ newsCount \in 0..MaxNews /\ deathCount \in 0..MaxDeaths
    BY DEF MarksInv, MarksTypeOK
  <2>2. stray' \subseteq Marked /\ DOMAIN applied' \cup DOMAIN store' \subseteq Marked
    BY <1>1, <1>3, <2>1
  <2> QED BY <1>1, <1>2, <2>1, <2>2 DEF MarksTypeOK
<1>7. Truthful'
  <2>1. up # "down" /\ Book = applied /\ Book' = applied'
    BY <1>1 DEF MarksInv, Book
  <2>2. ASSUME NEW q \in Marked \ stray'
        PROVE  emblem'[q] = IF q \in DOMAIN applied' THEN Icon(applied'[q]) ELSE "none"
    <3>1. CASE q = p
      BY <1>1, <1>3, <3>1, <2>2
    <3>2. CASE q # p
      <4>1. q \notin stray
        BY <1>1, <2>2, <3>2
      <4>2. emblem[q] = IF q \in DOMAIN applied THEN Icon(applied[q]) ELSE "none"
        BY <2>1, <2>2, <4>1 DEF MarksInv, Truthful
      <4> QED BY <4>2, <1>3, <1>4, <3>2, <2>2
    <3> QED BY <3>1, <3>2
  <2> QED BY <2>1, <2>2 DEF Truthful
<1>8. up' # "down" /\ InFile'
  BY <1>1, <1>2 DEF MarksInv, InFile
<1> QED BY <1>2, <1>4, <1>5, <1>6, <1>7, <1>8 DEF MarksInv

LEMMA SetOneKeeps ==
  ASSUME MarksInv, NEW p \in Marked, SetOne(p)
  PROVE  MarksInv'
<1>1. /\ store' = store /\ news' = news /\ up' = up
      /\ newsCount' = newsCount /\ deathCount' = deathCount
      /\ p \in NeedsSetting(round.want)
      /\ round.busy /\ round.left > 0 /\ Spend
  BY DEF SetOne, Counts, IsFirst
<1>2. /\ round'.left \in 0..Budget + Cardinality(Marked) /\ round'.want = round.want
      /\ round'.busy = TRUE /\ round'.did = TRUE /\ round'.last \in BOOLEAN
      /\ DOMAIN round' = {"busy", "last", "want", "left", "did"}
  BY <1>1, SpendSpends
<1>a. p \in DOMAIN round.want /\ round.want[p] \in Synced..Error
  BY <1>1 DEF NeedsSetting, MarksInv, IsBook
<1>b. up # "down" /\ Book = applied /\ Book' = applied'
  BY <1>1 DEF MarksInv, Book
<1>c. /\ DOMAIN applied \cup DOMAIN store \subseteq Marked /\ stray \subseteq Marked
      /\ failed \subseteq Marked \X (Synced..Error) /\ up \in {"up", "quitting", "down"}
      /\ newsCount \in 0..MaxNews /\ deathCount \in 0..MaxDeaths
  BY DEF MarksInv, MarksTypeOK
<1>3. up' # "down" /\ InFile'
  BY <1>1, <1>2, <1>b DEF InFile
<1>4. IsBook(store)' /\ IsBook(round.want)' /\ NewsTyped(news)'
  BY <1>1, <1>2 DEF MarksInv, IsBook, NewsTyped
<1>5. CASE /\ applied' = [q \in DOMAIN applied \cup {p} |->
                             IF q = p THEN round.want[p] ELSE applied[q]]
           /\ emblem' = [emblem EXCEPT ![p] = Icon(round.want[p])]
           /\ stray' = stray \ {p} /\ failed' = failed
  <2>1. /\ DOMAIN applied' = DOMAIN applied \cup {p} /\ applied'[p] = round.want[p]
        /\ \A q \in DOMAIN applied \ {p} : applied'[q] = applied[q]
    BY <1>5
  <2>2. /\ DOMAIN emblem' = Marked /\ emblem'[p] = Icon(round.want[p])
        /\ \A q \in Marked \ {p} : emblem'[q] = emblem[q]
    BY <1>5 DEF MarksInv
  <2>3. IsBook(applied)'
    BY <1>a, <2>1 DEF MarksInv, IsBook
  <2>4. MarksTypeOK'
    <3>1. stray' \subseteq Marked /\ DOMAIN applied' \cup DOMAIN store' \subseteq Marked
      BY <1>1, <1>5, <1>c, <2>1
    <3> QED BY <1>1, <1>2, <1>5, <1>c, <3>1 DEF MarksTypeOK
  <2>5. ASSUME NEW q \in Marked \ stray'
        PROVE  emblem'[q] = IF q \in DOMAIN applied' THEN Icon(applied'[q]) ELSE "none"
    <3>1. CASE q = p
      BY <2>1, <2>2, <3>1
    <3>2. CASE q # p
      <4>1. q \notin stray
        BY <1>5, <2>5, <3>2
      <4>2. emblem[q] = IF q \in DOMAIN applied THEN Icon(applied[q]) ELSE "none"
        BY <1>b, <2>5, <4>1 DEF MarksInv, Truthful
      <4> QED BY <4>2, <2>1, <2>2, <3>2, <2>5
    <3> QED BY <3>1, <3>2
  <2>6. Truthful'
    BY <1>b, <2>5 DEF Truthful
  <2> QED BY <1>2, <1>3, <1>4, <2>2, <2>3, <2>4, <2>6 DEF MarksInv
<1>6. CASE /\ failed' = failed \cup {<<p, round.want[p]>>}
           /\ applied' = applied /\ emblem' = emblem /\ stray' = stray
  <2>1. MarksTypeOK'
    <3>1. failed' \subseteq Marked \X (Synced..Error)
      BY <1>6, <1>a, <1>c
    <3> QED BY <1>1, <1>2, <1>6, <1>c, <3>1 DEF MarksTypeOK
  <2>2. IsBook(applied)' /\ DOMAIN emblem' = Marked
    BY <1>6 DEF MarksInv, IsBook
  <2>3. Truthful'
    BY <1>6, <1>b DEF MarksInv, Truthful
  <2> QED BY <1>2, <1>3, <1>4, <2>1, <2>2, <2>3 DEF MarksInv
<1> QED BY <1>5, <1>6 DEF SetOne

LEMMA RoundEndsKeeps ==
  ASSUME MarksInv, RoundEnds
  PROVE  MarksInv'
<1>1. /\ applied' = applied /\ emblem' = emblem /\ news' = news /\ stray' = stray
      /\ newsCount' = newsCount /\ deathCount' = deathCount
      /\ failed' \subseteq failed /\ round' = NoRound /\ up \in {"up", "quitting", "down"}
      /\ up' \in {up, "down"} /\ store' = (IF round.did THEN applied ELSE store) /\ round.busy
  BY DEF RoundEnds, FailedIsTrimmed, Counts, MarksInv, MarksTypeOK
<1>2. store' = applied /\ up # "down"
  BY <1>1 DEF MarksInv, InFile
<1>3. Book = applied /\ Book' = applied
  BY <1>1, <1>2 DEF Book
<1>4. Truthful' /\ InFile'
  BY <1>1, <1>2, <1>3 DEF MarksInv, Truthful, InFile
<1>5. IsBook(applied)' /\ IsBook(store)' /\ NewsTyped(news)'
  BY <1>1, <1>2 DEF MarksInv, IsBook, NewsTyped
<1>6. IsBook(round.want)'
  <2>1. IsBook(round'.want)
    BY <1>1, NoBook
  <2> QED BY <2>1 DEF IsBook
<1>7. MarksTypeOK'
  BY <1>1, <1>2, NoBook, MarksFacts DEF MarksInv, MarksTypeOK
<1>8. /\ round'.busy = FALSE /\ round'.did = FALSE /\ round'.last = FALSE
      /\ DOMAIN round' = {"busy", "last", "want", "left", "did"}
  BY <1>1, NoBook
<1>9. DOMAIN emblem' = Marked
  BY <1>1 DEF MarksInv
<1> QED BY <1>4, <1>5, <1>6, <1>7, <1>8, <1>9 DEF MarksInv

LEMMA DiesAndLaunchKeep ==
  ASSUME MarksInv, TrayDies \/ Launch
  PROVE  MarksInv'
<1>1. CASE TrayDies
  <2>1. /\ applied' = applied /\ failed' = failed /\ emblem' = emblem /\ news' = news
        /\ store' = store
        /\ newsCount' = newsCount /\ deathCount' = deathCount + 1 /\ deathCount < MaxDeaths
        /\ round' = NoRound /\ up' = "down"
        /\ stray' = stray \cup {p \in Marked : emblem[p] # Saved(p)}
    BY <1>1 DEF TrayDies
  <2>2. Truthful'
    <3>1. Book' = store
      BY <2>1 DEF Book
    <3>2. \A p \in Marked \ stray' : emblem[p] = Saved(p)
      BY <2>1
    <3> QED BY <2>1, <3>1, <3>2 DEF Truthful, Saved
  <2>3. IsBook(applied)' /\ IsBook(store)' /\ NewsTyped(news)' /\ InFile'
    BY <2>1 DEF MarksInv, IsBook, NewsTyped, InFile
  <2>4. IsBook(round.want)'
    <3>1. IsBook(round'.want)
      BY <2>1, NoBook
    <3> QED BY <3>1 DEF IsBook
  <2>5. MarksTypeOK'
    <3>1. deathCount' \in 0..MaxDeaths /\ stray' \subseteq Marked
      BY <2>1, MarksFacts DEF MarksInv, MarksTypeOK
    <3> QED BY <2>1, <3>1, NoBook, MarksFacts DEF MarksInv, MarksTypeOK
  <2>6. /\ round'.busy = FALSE /\ round'.did = FALSE /\ round'.last = FALSE
        /\ DOMAIN round' = {"busy", "last", "want", "left", "did"}
    BY <2>1, NoBook
  <2>7. DOMAIN emblem' = Marked
    BY <2>1 DEF MarksInv
  <2> QED BY <2>2, <2>3, <2>4, <2>5, <2>6, <2>7 DEF MarksInv
<1>2. CASE Launch
  <2>1. /\ applied' = store /\ failed' = {} /\ emblem' = emblem /\ news' = news
        /\ store' = store /\ stray' = stray /\ round' = round
        /\ newsCount' = newsCount /\ deathCount' = deathCount
        /\ up = "down" /\ up' = "up"
    BY <1>2 DEF Launch, Counts
  <2>2. Book = store /\ Book' = store
    BY <2>1 DEF Book
  <2>3. Truthful' /\ InFile'
    BY <2>1, <2>2 DEF MarksInv, Truthful, InFile
  <2>4. IsBook(applied)' /\ IsBook(store)' /\ NewsTyped(news)' /\ IsBook(round.want)'
    BY <2>1 DEF MarksInv, IsBook, NewsTyped
  <2>5. MarksTypeOK'
    BY <2>1 DEF MarksInv, MarksTypeOK
  <2> QED BY <2>1, <2>3, <2>4, <2>5 DEF MarksInv
<1> QED BY <1>1, <1>2

LEMMA MarksNextKeeps == MarksInv /\ [MarksNext]_markVars => MarksInv'
<1> SUFFICES ASSUME MarksInv, [MarksNext]_markVars PROVE MarksInv'
  OBVIOUS
<1>1. CASE UNCHANGED markVars
  <2>1. /\ applied' = applied /\ failed' = failed /\ store' = store /\ emblem' = emblem
        /\ round' = round /\ stray' = stray /\ up' = up /\ news' = news
        /\ newsCount' = newsCount /\ deathCount' = deathCount
    BY <1>1 DEF markVars, Counts
  <2>2. Book' = Book
    BY <2>1 DEF Book
  <2>3. Truthful' /\ InFile' /\ MarksTypeOK'
    BY <2>1, <2>2 DEF MarksInv, Truthful, InFile, MarksTypeOK
  <2>4. IsBook(applied)' /\ IsBook(store)' /\ NewsTyped(news)' /\ IsBook(round.want)'
    BY <2>1 DEF MarksInv, IsBook, NewsTyped
  <2> QED BY <2>1, <2>3, <2>4 DEF MarksInv
<1> QED
  BY <1>1, TellingKeeps, RoundBeginsKeeps, ClearOneKeeps, SetOneKeeps, RoundEndsKeeps,
     DiesAndLaunchKeep DEF MarksNext, WorkerStep

-----------------------------------------------------------------------------
LEMMA PlaceIsNumber ==
  ASSUME NEW p \in Marked
  PROVE  Place(p) \in Int
<1>1. \E i \in 1..Len(PathOrder) : PathOrder[i] = p
  BY MarksAssumption
<1>2. Place(p) \in 1..Len(PathOrder)
  BY <1>1 DEF Place
<1> QED BY <1>2

\* The folders over a path are in the same pair, sorted before it, and reach it.
LEMMA FoldersOverFacts ==
  ASSUME NEW p \in Within, NEW q \in FoldersOver(p)
  PROVE  /\ q \in Marked /\ Place(q) < Place(p) /\ RootOf(q) = RootOf(p) /\ p \in Reach[q]
<1>1. /\ FoldersTo \in [Within -> Seq(Marked) \ {<<>>}] /\ FoldersTo[p][1] \in PairRoots
      /\ Place(q) < Place(p)
      /\ q = FoldersTo[p][1] \/ (q \in Within /\ FoldersTo[q][1] = FoldersTo[p][1])
  BY MarksAssumption
<1>2. q \in Marked
  BY <1>1, MarksFacts
<1>3. RootOf(q) = RootOf(p)
  BY <1>1, MarksFacts DEF RootOf
<1>4. p \in Reach[q]
  BY <1>2 DEF Reach
<1> QED BY <1>1, <1>2, <1>3, <1>4

\* What a path shows that is, or is over, a conflict.
LEMMA ConflictShows ==
  ASSUME NEW n, NEW p \in Within, p \in n.conflicts, NEW q \in Marked, p \in Reach[q]
  PROVE  /\ Status(n, q) \in {Conflict, Offline, Error}
         /\ q \notin PairRoots => Status(n, q) = Conflict
<1>1. n.conflicts \cap Reach[q] # {}
  OBVIOUS
<1> QED BY <1>1 DEF Status

\* A folder over a conflict that has an emblem has one itself: it is taken before.
LEMMA FoldersAreWanted ==
  ASSUME NEW n, NEW p \in DOMAIN Desired(n), p \in Within, p \in n.conflicts,
         NEW q \in FoldersOver(p)
  PROVE  q \in DOMAIN Desired(n)
<1> DEFINE all == Telling(n)
           Over(x) == {y \in all : Before(n, y, x)}
           cut == IF Cardinality(all) <= MaxMarked THEN all
                  ELSE {x \in all : Cardinality(Over(x)) < MaxMarked}
<1>1. DOMAIN Desired(n) = cut
  <2>1. Desired(n) = [x \in cut |-> Status(n, x)]
    BY DEF Desired
  <2> HIDE DEF cut
  <2> QED BY <2>1
<1>2. /\ q \in Marked /\ Place(q) < Place(p) /\ RootOf(q) = RootOf(p) /\ p \in Reach[q]
  BY FoldersOverFacts
<1>3. p \in all /\ p \in Telling(n)
  BY <1>1
<1>4. q \in all
  BY <1>2, <1>3 DEF Telling
<1>5. p \notin PairRoots /\ p \in Marked /\ p \in Reach[p]
  BY MarksFacts DEF Reach
<1>6. Status(n, p) = Conflict /\ (q \notin PairRoots => Status(n, q) = Conflict)
  BY <1>2, <1>5, ConflictShows
<1>7. ASSUME NEW x \in all, Before(n, x, q)
      PROVE  Before(n, x, p)
  <2>1. x \in Marked
    BY DEF Telling
  <2>2. Place(x) \in Int /\ Place(p) \in Int /\ Place(q) \in Int
    BY <1>2, <1>5, <2>1, PlaceIsNumber
  <2>3. CASE x \in PairRoots
    BY <1>5, <2>3 DEF Before
  <2>4. CASE x \notin PairRoots
    <3>1. q \notin PairRoots
          /\ (Status(n, x) > Status(n, q)
                \/ (Status(n, x) = Status(n, q) /\ Place(x) < Place(q)))
      BY <1>7, <2>4 DEF Before
    <3>2. Status(n, x) > Status(n, p)
             \/ (Status(n, x) = Status(n, p) /\ Place(x) < Place(p))
      BY <3>1, <1>2, <1>6, <2>2
    <3> QED BY <3>2, <1>5, <2>4 DEF Before
  <2> QED BY <2>3, <2>4
<1>8. CASE Cardinality(all) <= MaxMarked
  BY <1>1, <1>4, <1>8
<1>9. CASE ~(Cardinality(all) <= MaxMarked)
  <2>1. Over(q) \subseteq Over(p)
    BY <1>7
  <2>2. IsFiniteSet(Over(p))
    <3>1. Over(p) \subseteq Marked /\ IsFiniteSet(Marked)
      BY MarksAssumption DEF Telling
    <3> QED BY <3>1, FS_Subset
  <2>3. /\ Cardinality(Over(q)) <= Cardinality(Over(p))
        /\ Cardinality(Over(q)) \in Nat /\ Cardinality(Over(p)) \in Nat
    <3> HIDE DEF Over
    <3>1. IsFiniteSet(Over(q)) /\ Cardinality(Over(q)) <= Cardinality(Over(p))
      BY <2>1, <2>2, FS_Subset
    <3> QED BY <2>2, <3>1, FS_CardinalityType
  <2>4. Cardinality(Over(p)) < MaxMarked
    BY <1>1, <1>9
  <2>5. Cardinality(Over(q)) < MaxMarked
    <3> HIDE DEF Over
    <3> QED BY <2>3, <2>4, MarksFacts
  <2> QED BY <1>1, <1>4, <1>9, <2>5
<1> QED BY <1>8, <1>9

\* What the emblems say once nothing is left to do.
LEMMA RestIsInStep ==
  ASSUME MarksInv, AtRest, up = "up"
  PROVE  /\ InStep
         /\ \A p \in Marked \ stray :
               p \in DOMAIN Wanted => NotSet(p, Wanted[p]) \/ emblem[p] = Icon(Wanted[p])
         /\ \A p \in Marked \ stray : p \notin DOMAIN Wanted => emblem[p] = "none"
<1> DEFINE want == Wanted
<1> HIDE DEF want
<1>1. NeedsClearing(want) = {} /\ NeedsSetting(want) = {}
  BY DEF AtRest, want
<1>2. \A p \in Marked \ stray :
         emblem[p] = IF p \in DOMAIN applied THEN Icon(applied[p]) ELSE "none"
  BY DEF MarksInv, Truthful, Book
<1>3. \A p \in Marked \ stray :
         p \in DOMAIN want => NotSet(p, want[p]) \/ emblem[p] = Icon(want[p])
  BY <1>1, <1>2 DEF NeedsSetting, NotSet
<1>4. \A p \in Marked \ stray : p \notin DOMAIN want => emblem[p] = "none"
  BY <1>1, <1>2 DEF NeedsClearing
<1> QED BY <1>3, <1>4 DEF InStep, want

LEMMA IconsDiffer ==
  /\ Icon(Conflict) = "important" /\ Icon(Offline) = "important" /\ Icon(Error) = "unreadable"
  BY DEF Icon, Synced, Excluded, Syncing, Pending, Conflict, Offline, Error

LEMMA RestIsFindable ==
  ASSUME MarksInv, AtRest, up = "up"
  PROVE  Findable
<1> SUFFICES ASSUME NEW p \in Within \ stray, news.on, p \in news.conflicts,
                    emblem[p] = Icon(Conflict), NEW q \in FoldersOver(p)
             PROVE  NotSet(q, Status(news, q)) \/ emblem[q] \in {Icon(Conflict), Icon(Error)}
  BY DEF Findable
<1>1. Wanted = Desired(news)
  BY DEF Wanted
<1>2. /\ q \in Marked /\ p \in Reach[q] /\ p \in Marked
  BY FoldersOverFacts, MarksFacts
<1>3. p \in DOMAIN Desired(news)
  BY <1>1, <1>2, RestIsInStep, IconsDiffer
<1>4. q \in DOMAIN Desired(news)
  BY <1>3, FoldersAreWanted
<1>5. Desired(news)[q] = Status(news, q)
  BY <1>4, DesiredIsBook
<1>6. Status(news, q) \in {Conflict, Offline, Error}
  BY <1>2, ConflictShows
<1>7. q \in stray \/ NotSet(q, Status(news, q)) \/ emblem[q] = Icon(Status(news, q))
  BY <1>1, <1>2, <1>4, <1>5, RestIsInStep
<1>8. Icon(Status(news, q)) \in {Icon(Conflict), Icon(Error)}
  BY <1>6, IconsDiffer
<1> QED BY <1>7, <1>8 DEF NotSet

LEMMA TellsAsOne ==
  ASSUME NewsTyped(news)
  PROVE  Unanimous
<1> SUFFICES ASSUME StatusLine(news) = "synced", NEW r \in news.mounted
             PROVE  Status(news, r) \in {Synced, Pending, Conflict}
  BY DEF Unanimous
<1>1. Overall(news) = "synced"
  BY DEF StatusLine
<1>2. /\ news.session = "in" /\ Failing(news) = {}
      /\ Phased(news, {"synced", "passed"}) = PairRoots
  BY <1>1 DEF Overall, NewsTyped, Sessions
<1>3. r \in PairRoots /\ r \notin Within
  BY MarksFacts DEF NewsTyped
<1>4. news.pair[r].phase \in {"synced", "passed"}
  BY <1>2, <1>3 DEF Phased
<1> QED BY <1>2, <1>3, <1>4 DEF Status

\* The process gone, what is marked is in the file.
LEMMA RestIsRemembered ==
  ASSUME MarksInv, up = "down"
  PROVE  Remembered
  BY DEF MarksInv, Truthful, Book, Remembered

LEMMA MarksInvSettles == MarksInv => MarksTypeOK /\ MarksSettle
<1> SUFFICES ASSUME MarksInv PROVE MarksTypeOK /\ MarksSettle
  OBVIOUS
<1>1. MarksTypeOK /\ NewsTyped(news)
  BY DEF MarksInv
<1>2. ASSUME AtRest, up = "up" PROVE InStep /\ Findable /\ Unanimous
  BY <1>1, <1>2, RestIsInStep, RestIsFindable, TellsAsOne
<1>3. ASSUME up = "down" PROVE Remembered
  BY <1>3, RestIsRemembered
<1> QED BY <1>1, <1>2, <1>3 DEF MarksSettle

\* Whenever the emblem worker has nothing left to do (src/src/emblems.rs, Emblems::update),
\* the emblems are those wanted, every folder over a conflict that is marked leads to it, the
\* tray's sentence agrees with the roots, and with the tray gone its file names every emblem
\* that is left: however many paths and pairs there are, wherever the cut of MAX_PATHS falls,
\* and whatever could not be marked.
THEOREM MarksAlwaysSettle == MarksSpec => [](MarksTypeOK /\ MarksSettle)
<1>1. MarksSpec => []MarksInv
  BY MarksInitHolds, MarksNextKeeps, PTL DEF MarksSpec
<1> QED BY <1>1, MarksInvSettles, PTL
-----------------------------------------------------------------------------
(***************************************************************************)
(* The typing of the config file and of the shortcuts.                      *)
(***************************************************************************)
LEMMA ParsedIsConfig ==
  ASSUME NEW f, Legible(f) \/ ParseStr(f) # Illegible
  PROVE  IsConfig(ParseStr(f))
<1> DEFINE root == IF TrimEnd(f.root) = <<>> THEN <<"/">> ELSE TrimEnd(f.root)
           set == [k \in Keys |-> IF k \in DOMAIN f.set THEN Canonical(k, f.set[k]) ELSE Silent[k]]
           ups == MigrateFlags(f.up, "upload")
           downs == MigrateFlags(f.down, "download")
           pairs == [i \in 1..Len(f.pairs) |->
                        [name    |-> f.pairs[i].name,
                         local   |-> Expand(f.pairs[i].local),
                         remote  |-> JoinRemote(root, f.pairs[i].remote),
                         exclude |-> NormalizeExcludes(f.pairs[i].exclude)]]
<1>1. ParseStr(f) = [root |-> root, set |-> set, up |-> ups, down |-> downs, pairs |-> pairs]
  BY DEF ParseStr
<1>2. DOMAIN set = Keys
  OBVIOUS
<1> HIDE DEF root, set, ups, downs, pairs
<1> QED BY <1>1, <1>2 DEF IsConfig

\* The typing of the config file's users, whatever is written in it and whatever it means.
THEOREM SettingsTypeCorrect == SettingsSpec => []SettingsTypeOK
<1> DEFINE Whole == SettingsTypeOK /\ DOMAIN daemon = {"base", "cur"}
<1>1. ASSUME SettingsInit PROVE Whole
  <2>1. IsConfig(ParseStr(file))
    BY <1>1, ParsedIsConfig DEF SettingsInit
  <2>2. window = ParseStr(file) /\ daemon = [base |-> ParseStr(file), cur |-> ParseStr(file)]
        /\ saving = FALSE /\ edits = 0
    BY <1>1 DEF SettingsInit
  <2>3. daemon.base = ParseStr(file) /\ daemon.cur = ParseStr(file)
        /\ DOMAIN daemon = {"base", "cur"}
    BY <2>2
  <2>4. saving \in BOOLEAN
    BY <2>2
  <2>5. edits \in 0..MaxEdits
    BY <2>2, SettingsAssumption
  <2> QED BY <2>1, <2>2, <2>3, <2>4, <2>5 DEF SettingsTypeOK
<1>2. ASSUME Whole, [SettingsNext]_setVars PROVE Whole'
  <2> USE SettingsAssumption
  <2>1. ASSUME NEW c, IsConfig(c), SaveBegins(c) PROVE Whole'
    BY <1>2, <2>1 DEF SaveBegins, Touched, SettingsTypeOK, IsConfig
  <2>2. ASSUME NEW k, NEW v, ChangeSetting(k, v) PROVE Whole'
    <3>1. IsConfig([window EXCEPT !.set[k] = v])
      BY <1>2 DEF SettingsTypeOK, IsConfig
    <3> QED BY <3>1, <2>1, <2>2 DEF ChangeSetting
  <2>3. ASSUME NEW local, NEW remote, AddPair(local, remote) PROVE Whole'
    <3> DEFINE new == [name |-> "new", local |-> local, remote |-> remote, exclude |-> <<>>]
    <3>1. IsConfig([window EXCEPT !.pairs = Append(@, new)])
      <4> HIDE DEF new
      <4> QED BY <1>2 DEF SettingsTypeOK, IsConfig
    <3> QED BY <3>1, <2>1, <2>3 DEF AddPair
  <2>4. CASE RemovePair
    <3>1. IsConfig([window EXCEPT !.pairs = Tail(@)])
      BY <1>2 DEF SettingsTypeOK, IsConfig
    <3> QED BY <3>1, <2>1, <2>4 DEF RemovePair
  <2>5. ASSUME NEW root, MoveRoot(root) PROVE Whole'
    <3>1. IsConfig([window EXCEPT !.root = root])
      BY <1>2 DEF SettingsTypeOK, IsConfig
    <3> QED BY <3>1, <2>1, <2>5 DEF MoveRoot
  <2>6. CASE SaveEnds
    BY <1>2, <2>6 DEF SaveEnds, SettingsTypeOK, IsConfig
  <2>7. ASSUME NEW f, EditByHand(f) PROVE Whole'
    BY <1>2, <2>7 DEF EditByHand, Touched, SettingsTypeOK, IsConfig
  <2>8. CASE Relaunch
    <3>1. IsConfig(ParseStr(file))
      BY <2>8, ParsedIsConfig DEF Relaunch
    <3>2. /\ window' = ParseStr(file) /\ daemon' = daemon /\ saving' = saving /\ edits' = edits
      BY <2>8 DEF Relaunch
    <3> QED BY <1>2, <3>1, <3>2 DEF SettingsTypeOK, IsConfig
  <2>9. CASE Reload
    <3> DEFINE c == IF ParseStr(file) = Illegible THEN daemon.base ELSE ParseStr(file)
    <3>1. IsConfig(c)
      BY <1>2, ParsedIsConfig DEF SettingsTypeOK
    <3>2. daemon' = [daemon EXCEPT !.cur = c] /\ window' = window /\ saving' = saving
          /\ edits' = edits
      BY <2>9 DEF Reload
    <3> HIDE DEF c
    <3> QED BY <1>2, <3>1, <3>2 DEF SettingsTypeOK, IsConfig
  <2>10. CASE UNCHANGED setVars
    BY <1>2, <2>10 DEF setVars, SettingsTypeOK, IsConfig
  <2> QED
    BY <1>2, <2>2, <2>3, <2>4, <2>5, <2>6, <2>7, <2>8, <2>9, <2>10
       DEF SettingsNext, Browsed, Added
<1>3. Whole => SettingsTypeOK
  OBVIOUS
<1> QED BY <1>1, <1>2, <1>3, PTL DEF SettingsSpec

JobStages == {"idle", "begun", "read", "written"}
IsJob(j) == DOMAIN j = {"stage", "on", "folders", "read"} /\ j.stage \in JobStages

\* The typing of the shortcuts, for any folders and scripts.
THEOREM FileManagerTypeCorrect == FileManagerSpec => []FileManagerTypeOK
<1> DEFINE Whole == /\ FileManagerTypeOK
                    /\ DOMAIN job = Appliers /\ \A a \in Appliers : IsJob(job[a])
<1>1. ASSUME FileManagerInit PROVE Whole
  <2>1. IsJob(NoJob)
    BY DEF NoJob, IsJob, JobStages
  <2>2. setting \in Configs
    <3>1. FALSE \in BOOLEAN
      OBVIOUS
    <3> QED BY <1>1, <3>1 DEF FileManagerInit, Configs
  <2>3. \A a \in Appliers : job[a] = NoJob
    BY <1>1 DEF FileManagerInit
  <2>4. due \in BOOLEAN /\ touched \in BOOLEAN
    BY <1>1 DEF FileManagerInit
  <2>5. /\ raced = {} /\ failures \in 0..MaxTouches /\ touches \in 0..MaxTouches
        /\ scripts \in [ScriptNames -> {"none", "ours", "theirs"}]
        /\ \A a \in Appliers : job[a].stage = "idle"
    BY <1>1, <2>3, FileManagerAssumption DEF FileManagerInit, NoJob
  <2>6. FileManagerTypeOK
    BY <2>2, <2>4, <2>5 DEF FileManagerTypeOK
  <2> QED BY <1>1, <2>1, <2>3, <2>6 DEF FileManagerInit
<1>2. ASSUME Whole, [FileManagerNext]_fmVars PROVE Whole'
  <2>0. MaxTouches \in Nat
    BY FileManagerAssumption
  <2>a. /\ setting \in Configs /\ due \in BOOLEAN
        /\ scripts \in [ScriptNames -> {"none", "ours", "theirs"}]
        /\ raced \subseteq Appliers /\ touched \in BOOLEAN
        /\ failures \in 0..MaxTouches /\ touches \in 0..MaxTouches
    BY <1>2 DEF FileManagerTypeOK
  <2>b. setting' \in Configs /\ raced' \subseteq Appliers
    BY <1>2, <2>a
       DEF FileManagerNext, ApplierStep, TrayReloads, ReadBookmarks, WriteBookmarks, ApplyScripts,
           BookmarksFail, ChangeConfig, TrayStarts, UserEdits, UserScripts, fmVars
  <2>g. failures' \in 0..MaxTouches /\ touches' \in 0..MaxTouches
    <3>1. /\ failures' = failures \/ (failures < MaxTouches /\ failures' = failures + 1)
          /\ touches' = touches \/ (touches < MaxTouches /\ touches' = touches + 1)
      BY <1>2
         DEF FileManagerNext, ApplierStep, TrayReloads, ReadBookmarks, WriteBookmarks,
             ApplyScripts, BookmarksFail, ChangeConfig, TrayStarts, UserEdits, UserScripts, fmVars
    <3> QED BY <2>0, <2>a, <3>1
  <2>f. due' \in BOOLEAN /\ touched' \in BOOLEAN
    <3>1. (due' = due \/ due' = TRUE \/ due' = FALSE) /\ (touched' = touched \/ touched' = TRUE)
      BY <1>2
         DEF FileManagerNext, ApplierStep, TrayReloads, ReadBookmarks, WriteBookmarks,
             ApplyScripts, BookmarksFail, ChangeConfig, TrayStarts, UserEdits, UserScripts, fmVars
    <3> QED BY <2>a, <3>1
  <2>c. scripts' \in [ScriptNames -> {"none", "ours", "theirs"}]
    <3>1. CASE UNCHANGED scripts
      BY <2>a, <3>1
    <3>2. ASSUME NEW a \in Appliers, ApplyScripts(a)
          PROVE  scripts' \in [ScriptNames -> {"none", "ours", "theirs"}]
      <4>1. \A n \in ScriptNames : SyncScript(scripts[n], job[a].on) \in {"none", "ours", "theirs"}
        BY DEF SyncScript
      <4> QED BY <3>2, <4>1 DEF ApplyScripts
    <3>3. ASSUME NEW n \in ScriptNames, UserScripts(n)
          PROVE  scripts' \in [ScriptNames -> {"none", "ours", "theirs"}]
      BY <2>a, <3>3 DEF UserScripts
    <3> QED
      BY <1>2, <3>1, <3>2, <3>3
         DEF FileManagerNext, ApplierStep, TrayReloads, ReadBookmarks, WriteBookmarks,
             BookmarksFail, ChangeConfig, TrayStarts, UserEdits, fmVars
  <2>d. DOMAIN job' = Appliers /\ \A a \in Appliers : IsJob(job'[a])
    <3>1. ASSUME NEW a \in Appliers, NEW j, IsJob(j), job' = [job EXCEPT ![a] = j]
          PROVE  DOMAIN job' = Appliers /\ \A b \in Appliers : IsJob(job'[b])
      <4>1. \A b \in Appliers : job'[b] = IF b = a THEN j ELSE job[b]
        BY <1>2, <3>1
      <4> QED BY <1>2, <3>1, <4>1
    <3>2. CASE UNCHANGED job
      BY <1>2, <3>2
    <3>3. ASSUME NEW a \in Appliers, NEW c, Takes(a, c)
          PROVE  DOMAIN job' = Appliers /\ \A b \in Appliers : IsJob(job'[b])
      <4>1. IsJob([stage |-> "begun", on |-> c.on, folders |-> c.folders, read |-> <<>>])
        BY DEF IsJob, JobStages
      <4> QED BY <3>1, <3>3, <4>1 DEF Takes
    <3>4. ASSUME NEW a \in Appliers, ReadBookmarks(a)
          PROVE  DOMAIN job' = Appliers /\ \A b \in Appliers : IsJob(job'[b])
      <4> DEFINE j == [job[a] EXCEPT !.stage = "read", !.read = lines]
      <4>1. IsJob(j)
        BY <1>2 DEF IsJob, JobStages
      <4>2. job' = [job EXCEPT ![a] = j]
        BY <3>4 DEF ReadBookmarks
      <4> HIDE DEF j
      <4> QED BY <3>1, <4>1, <4>2
    <3>5. ASSUME NEW a \in Appliers, WriteBookmarks(a) \/ BookmarksFail(a)
          PROVE  DOMAIN job' = Appliers /\ \A b \in Appliers : IsJob(job'[b])
      <4> DEFINE j == [job[a] EXCEPT !.stage = "written"]
      <4>1. IsJob(j)
        BY <1>2 DEF IsJob, JobStages
      <4>2. job' = [job EXCEPT ![a] = j]
        BY <3>5 DEF WriteBookmarks, BookmarksFail
      <4> HIDE DEF j
      <4> QED BY <3>1, <4>1, <4>2
    <3>6. ASSUME NEW a \in Appliers, ApplyScripts(a)
          PROVE  DOMAIN job' = Appliers /\ \A b \in Appliers : IsJob(job'[b])
      <4>1. IsJob(NoJob)
        BY DEF NoJob, IsJob, JobStages
      <4> QED BY <3>1, <3>6, <4>1 DEF ApplyScripts
    <3>7. WindowApp \in Appliers /\ TrayApp \in Appliers
      BY DEF Appliers
    <3> QED
      BY <1>2, <3>2, <3>3, <3>4, <3>5, <3>6, <3>7
         DEF FileManagerNext, ApplierStep, TrayReloads, ChangeConfig, TrayStarts, UserEdits,
             UserScripts, fmVars
  <2>e. \A a \in Appliers : job'[a].stage \in {"idle", "begun", "read", "written"}
    BY <2>d DEF IsJob, JobStages
  <2> QED BY <2>b, <2>c, <2>d, <2>e, <2>f, <2>g DEF FileManagerTypeOK
<1>3. Whole => FileManagerTypeOK
  OBVIOUS
<1> QED BY <1>1, <1>2, <1>3, PTL DEF FileManagerSpec

(***************************************************************************)
(* The shortcuts.  What the loops over bookmarks and folders make of them   *)
(* is shown by going up their counters, which are sets of numbers.          *)
(***************************************************************************)
\* What holds at 0 and of each number when it does of the one before holds all the way up.
LEMMA AllTheWay ==
  ASSUME NEW m \in Nat, NEW S, 0 \in S, \A n \in 1..m : n - 1 \in S => n \in S
  PROVE  \A n \in 0..m : n \in S
<1> DEFINE T == {n \in 0..m : \A i \in 0..n : i \in S}
<1>1. 0 \in T
  OBVIOUS
<1>2. PICK g \in T : \A i \in T : i <= g
  <2>1. T \in SUBSET (0..m) /\ T # {}
    BY <1>1
  <2> HIDE DEF T
  <2> QED BY <2>1, BoundedHasGreatest
<1>3. g \in 0..m /\ \A i \in 0..g : i \in S
  BY <1>2
<1>4. g = m
  <2> SUFFICES ASSUME g # m PROVE FALSE
    OBVIOUS
  <2>1. g + 1 \in 1..m /\ (g + 1) - 1 = g
    BY <1>3
  <2>2. g + 1 \in S
    BY <1>3, <2>1
  <2>3. \A i \in 0..(g + 1) : i \in 0..g \/ i = g + 1
    BY <1>3
  <2>4. g + 1 \in T
    BY <1>3, <2>1, <2>2, <2>3
  <2> QED BY <1>2, <1>3, <2>4
<1> QED BY <1>3, <1>4

\* How Keeping goes through a sequence.
IsKept(k, s, S) ==
    /\ k[0] = <<>>
    /\ \A n \in 1..Len(s) : k[n] = IF s[n] \in S THEN Append(k[n - 1], s[n]) ELSE k[n - 1]

LEMMA KeepingIs ==
  ASSUME NEW T, NEW s \in Seq(T), NEW S
  PROVE  \E k : IsKept(k, s, S) /\ Keeping(s, S) = k[Len(s)]
<1> DEFINE m == Len(s)
           Goes(n, k) ==
             k = [i \in 0..n |-> IF i = 0 THEN <<>>
                                 ELSE IF s[i] \in S THEN Append(k[i - 1], s[i]) ELSE k[i - 1]]
           Far == {n \in 0..m : \E k : Goes(n, k)}
<1>1. m \in Nat
  OBVIOUS
<1>2. 0 \in Far
  <2>1. Goes(0, [i \in 0..0 |-> <<>>])
    OBVIOUS
  <2>2. 0 \in 0..m
    BY <1>1
  <2> HIDE DEF Goes, m
  <2> QED BY <2>1, <2>2
<1>3. ASSUME NEW n \in 1..m, n - 1 \in Far PROVE n \in Far
  <2>1. PICK k : Goes(n - 1, k)
    BY <1>3
  <2> DEFINE h == [i \in 0..n |-> IF i = n THEN IF s[n] \in S THEN Append(k[n - 1], s[n])
                                                ELSE k[n - 1]
                                  ELSE k[i]]
  <2>2. \A i \in 0..n : i # n => i \in 0..(n - 1) /\ (i # 0 => i - 1 \in 0..(n - 1))
    OBVIOUS
  <2>3. \A i \in 0..n - 1 :
            k[i] = IF i = 0 THEN <<>>
                   ELSE IF s[i] \in S THEN Append(k[i - 1], s[i]) ELSE k[i - 1]
    BY <2>1
  <2>4. n # 0 /\ n - 1 \in 0..n /\ n - 1 # n
    BY <1>1
  <2>5. \A i \in 0..n :
            h[i] = IF i = 0 THEN <<>>
                   ELSE IF s[i] \in S THEN Append(h[i - 1], s[i]) ELSE h[i - 1]
    <3> TAKE i \in 0..n
    <3>1. CASE i = n
      BY <2>4, <3>1
    <3>2. CASE i = 0
      BY <2>2, <2>3, <2>4, <3>2
    <3>3. CASE i # n /\ i # 0
      <4>1. i - 1 \in 0..n /\ i - 1 # n /\ i \in 0..n - 1
        BY <1>1, <3>3
      <4>2. h[i] = k[i] /\ h[i - 1] = k[i - 1]
        BY <3>3, <4>1
      <4> QED BY <2>3, <3>3, <4>1, <4>2
    <3> QED BY <3>1, <3>2, <3>3
  <2>6. Goes(n, h)
    <3>1. h = [i \in 0..n |-> h[i]]
      OBVIOUS
    <3> HIDE DEF h
    <3> QED BY <2>5, <3>1
  <2> QED
    <3> HIDE DEF Goes, h
    <3> QED BY <1>1, <2>6
<1>4. m \in Far
  <2> HIDE DEF Far, m
  <2>1. \A n \in 0..m : n \in Far
    BY <1>1, <1>2, <1>3, AllTheWay
  <2> QED BY <1>1, <2>1
<1> DEFINE kept == CHOOSE k : Goes(m, k)
<1>5. Goes(m, kept)
  <2> HIDE DEF Goes
  <2> QED BY <1>4
<1>6. Keeping(s, S) = kept[m]
  BY DEF Keeping
<1>7. IsKept(kept, s, S)
  <2> HIDE DEF kept
  <2>1. \A n \in 0..m :
            kept[n] = IF n = 0 THEN <<>>
                      ELSE IF s[n] \in S THEN Append(kept[n - 1], s[n]) ELSE kept[n - 1]
    BY <1>5
  <2>2. 0 \in 0..m /\ \A n \in 1..m : n \in 0..m /\ n # 0
    BY <1>1
  <2> QED BY <2>1, <2>2 DEF IsKept
<1> HIDE DEF kept
<1> QED BY <1>6, <1>7

\* It keeps members of the set, and those of the sequence only.
LEMMA KeepingType ==
  ASSUME NEW T, NEW s \in Seq(T), NEW S
  PROVE  Keeping(s, S) \in Seq(S \cap T)
<1>1. PICK k : IsKept(k, s, S) /\ Keeping(s, S) = k[Len(s)]
  BY KeepingIs
<1> DEFINE G == {n \in 0..Len(s) : k[n] \in Seq(S \cap T)}
<1>2. 0 \in G
  <2>1. k[0] = <<>>
    BY <1>1 DEF IsKept
  <2>2. <<>> \in Seq(S \cap T)
    OBVIOUS
  <2>3. 0 \in 0..Len(s)
    OBVIOUS
  <2> QED BY <2>1, <2>2, <2>3
<1>3. ASSUME NEW n \in 1..Len(s), n - 1 \in G PROVE n \in G
  <2>1. s[n] \in T /\ k[n - 1] \in Seq(S \cap T) /\ n \in 0..Len(s)
    BY <1>3
  <2>2. k[n] = IF s[n] \in S THEN Append(k[n - 1], s[n]) ELSE k[n - 1]
    BY <1>1 DEF IsKept
  <2>3. k[n] \in Seq(S \cap T)
    BY <2>1, <2>2
  <2> QED BY <2>1, <2>3
<1>4. \A n \in 0..Len(s) : n \in G
  <2> HIDE DEF G
  <2>1. Len(s) \in Nat
    OBVIOUS
  <2> QED BY <1>2, <1>3, <2>1, AllTheWay
<1>5. Len(s) \in 0..Len(s)
  OBVIOUS
<1> QED BY <1>1, <1>4, <1>5

\* A sequence of members is kept as it is.
LEMMA KeepingAll ==
  ASSUME NEW S, NEW s \in Seq(S)
  PROVE  Keeping(s, S) = s
<1>1. PICK k : IsKept(k, s, S) /\ Keeping(s, S) = k[Len(s)]
  BY KeepingIs
<1> DEFINE G == {n \in 0..Len(s) : k[n] = SubSeq(s, 1, n)}
<1>2. 0 \in G
  <2>1. k[0] = <<>>
    BY <1>1 DEF IsKept
  <2>2. SubSeq(s, 1, 0) = <<>>
    OBVIOUS
  <2>3. 0 \in 0..Len(s)
    OBVIOUS
  <2> QED BY <2>1, <2>2, <2>3
<1>3. ASSUME NEW n \in 1..Len(s), n - 1 \in G PROVE n \in G
  <2>1. s[n] \in S /\ k[n - 1] = SubSeq(s, 1, n - 1) /\ n \in 0..Len(s)
    BY <1>3
  <2>2. k[n] = Append(SubSeq(s, 1, n - 1), s[n])
    BY <1>1, <2>1 DEF IsKept
  <2>3. Append(SubSeq(s, 1, n - 1), s[n]) = SubSeq(s, 1, n)
    OBVIOUS
  <2> QED BY <2>1, <2>2, <2>3
<1>4. \A n \in 0..Len(s) : n \in G
  <2> HIDE DEF G
  <2>1. Len(s) \in Nat
    OBVIOUS
  <2> QED BY <1>2, <1>3, <2>1, AllTheWay
<1>5. Len(s) \in 0..Len(s) /\ SubSeq(s, 1, Len(s)) = s
  OBVIOUS
<1> QED BY <1>1, <1>4, <1>5

\* One more at the end is kept there, or not at all.
LEMMA KeepingAppend ==
  ASSUME NEW T, NEW s \in Seq(T), NEW e \in T, NEW S
  PROVE  Keeping(Append(s, e), S) = IF e \in S THEN Append(Keeping(s, S), e) ELSE Keeping(s, S)
<1> DEFINE t == Append(s, e)
<1>0. t \in Seq(T) /\ Len(t) = Len(s) + 1 /\ t[Len(s) + 1] = e
      /\ \A i \in 1..Len(s) : t[i] = s[i]
  OBVIOUS
<1> HIDE DEF t
<1>1. PICK k : IsKept(k, s, S) /\ Keeping(s, S) = k[Len(s)]
  BY KeepingIs
<1>2. PICK h : IsKept(h, t, S) /\ Keeping(t, S) = h[Len(t)]
  BY <1>0, KeepingIs
<1> DEFINE G == {n \in 0..Len(s) : h[n] = k[n]}
<1>3. 0 \in G
  BY <1>1, <1>2 DEF IsKept
<1>4. ASSUME NEW n \in 1..Len(s), n - 1 \in G PROVE n \in G
  <2>1. n \in 1..Len(t) /\ t[n] = s[n] /\ h[n - 1] = k[n - 1] /\ n \in 0..Len(s)
    BY <1>0, <1>4
  <2> QED BY <1>1, <1>2, <2>1 DEF IsKept
<1>5. \A n \in 0..Len(s) : n \in G
  <2> HIDE DEF G
  <2>1. Len(s) \in Nat
    OBVIOUS
  <2> QED BY <1>3, <1>4, <2>1, AllTheWay
<1>6. h[Len(s)] = k[Len(s)]
  BY <1>5
<1>7. Len(t) \in 1..Len(t) /\ Len(t) - 1 = Len(s) /\ t[Len(t)] = e
  BY <1>0
<1>8. h[Len(t)] = IF e \in S THEN Append(h[Len(s)], e) ELSE h[Len(s)]
  BY <1>2, <1>7 DEF IsKept
<1> QED BY <1>1, <1>2, <1>6, <1>8 DEF t

\* Bookmarks, those that are the user's, and the places of ours; no place twice.
Bookmarks == [place : Spots, ours : BOOLEAN]
TheirBookmarks == [place : Spots, ours : {FALSE}]
OursIn(book) == {book[i].place : i \in {j \in 1..Len(book) : book[j].ours}}
Distinct(book) == \A i, j \in 1..Len(book) : book[i].place = book[j].place => i = j

\* How AddMissing goes through what is wanted.
IsAdded(w, book, desired) ==
    /\ w[0] = book
    /\ \A n \in 1..Len(desired) :
          w[n] = IF desired[n] \in SpotsOf(w[n - 1]) THEN w[n - 1]
                 ELSE Append(w[n - 1], Line(desired[n], TRUE))

LEMMA AddMissingIs ==
  ASSUME NEW D, NEW desired \in Seq(D), NEW book
  PROVE  \E w : IsAdded(w, book, desired) /\ AddMissing(book, desired) = w[Len(desired)]
<1> DEFINE m == Len(desired)
           Adds(x, n) == IF desired[n] \in SpotsOf(x) THEN x
                         ELSE Append(x, Line(desired[n], TRUE))
           Goes(n, w) == w = [i \in 0..n |-> IF i = 0 THEN book ELSE Adds(w[i - 1], i)]
           Far == {n \in 0..m : \E w : Goes(n, w)}
<1>1. m \in Nat
  OBVIOUS
<1>6. AddMissing(book, desired) = (CHOOSE w : Goes(m, w))[m]
  BY DEF AddMissing
<1>8. ASSUME NEW w, \A n \in 0..m : w[n] = IF n = 0 THEN book ELSE Adds(w[n - 1], n)
      PROVE  IsAdded(w, book, desired)
  <2>1. 0 \in 0..m /\ \A n \in 1..m : n \in 0..m /\ n # 0
    BY <1>1
  <2> QED BY <1>8, <2>1 DEF IsAdded
<1> HIDE DEF Adds
<1>2. 0 \in Far
  <2>1. Goes(0, [i \in 0..0 |-> book])
    OBVIOUS
  <2>2. 0 \in 0..m
    BY <1>1
  <2> HIDE DEF Goes, m
  <2> QED BY <2>1, <2>2
<1>3. ASSUME NEW n \in 1..m, n - 1 \in Far PROVE n \in Far
  <2>1. PICK w : Goes(n - 1, w)
    BY <1>3
  <2> DEFINE h == [i \in 0..n |-> IF i = n THEN Adds(w[n - 1], n) ELSE w[i]]
  <2>2. \A i \in 0..n : i # n => i \in 0..(n - 1) /\ (i # 0 => i - 1 \in 0..(n - 1))
    OBVIOUS
  <2>3. \A i \in 0..n - 1 : w[i] = IF i = 0 THEN book ELSE Adds(w[i - 1], i)
    BY <2>1
  <2>4. n # 0 /\ n - 1 \in 0..n /\ n - 1 # n
    BY <1>1
  <2>5. \A i \in 0..n : h[i] = IF i = 0 THEN book ELSE Adds(h[i - 1], i)
    <3> TAKE i \in 0..n
    <3>1. CASE i = n
      BY <2>4, <3>1
    <3>2. CASE i = 0
      BY <2>2, <2>3, <2>4, <3>2
    <3>3. CASE i # n /\ i # 0
      <4>1. i - 1 \in 0..n /\ i - 1 # n /\ i \in 0..n - 1
        BY <1>1, <3>3
      <4>2. h[i] = w[i] /\ h[i - 1] = w[i - 1]
        BY <3>3, <4>1
      <4> QED BY <2>3, <3>3, <4>1, <4>2
    <3> QED BY <3>1, <3>2, <3>3
  <2>6. Goes(n, h)
    <3>1. h = [i \in 0..n |-> h[i]]
      OBVIOUS
    <3> HIDE DEF h
    <3> QED BY <2>5, <3>1
  <2> QED
    <3> HIDE DEF Goes, h
    <3> QED BY <1>1, <2>6
<1>4. m \in Far
  <2> HIDE DEF Far, m
  <2>1. \A n \in 0..m : n \in Far
    BY <1>1, <1>2, <1>3, AllTheWay
  <2> QED BY <1>1, <2>1
<1> DEFINE with == CHOOSE w : Goes(m, w)
<1>5. Goes(m, with)
  <2> HIDE DEF Goes
  <2> QED BY <1>4
<1>7. IsAdded(with, book, desired)
  <2> HIDE DEF with
  <2>1. \A n \in 0..m : with[n] = IF n = 0 THEN book ELSE Adds(with[n - 1], n)
    BY <1>5
  <2> QED BY <1>8, <2>1
<1> HIDE DEF with
<1> QED
  <2>1. AddMissing(book, desired) = with[m]
    BY <1>6 DEF with
  <2> QED BY <1>7, <2>1

\* What one more of ours makes of a file.
LEMMA OneMore ==
  ASSUME NEW book \in Seq(Bookmarks), NEW p \in Spots
  PROVE  LET more == Append(book, Line(p, TRUE))
         IN  /\ more \in Seq(Bookmarks) /\ Theirs(more) = Theirs(book)
             /\ SpotsOf(more) = SpotsOf(book) \cup {p}
             /\ OursIn(more) = OursIn(book) \cup {p}
             /\ p \notin SpotsOf(book) /\ Distinct(book) => Distinct(more)
<1> DEFINE e == Line(p, TRUE)
           more == Append(book, e)
<1>1. e \in Bookmarks /\ e.place = p /\ e.ours = TRUE /\ e \notin TheirBookmarks
  BY DEF Line, Bookmarks, TheirBookmarks
<1> HIDE DEF e
<1>2. /\ more \in Seq(Bookmarks) /\ Len(more) = Len(book) + 1 /\ Len(book) \in Nat
      /\ more[Len(book) + 1] = e /\ \A i \in 1..Len(book) : more[i] = book[i]
  BY <1>1
<1>3. Theirs(more) = Theirs(book)
  BY <1>1, KeepingAppend DEF Theirs, TheirBookmarks
<1> HIDE DEF more
<1>4. \A i : i \in 1..Len(more) <=> i \in 1..Len(book) \/ i = Len(book) + 1
  BY <1>2
<1>5. SpotsOf(more) = SpotsOf(book) \cup {p}
  <2>1. \A i \in 1..Len(book) : more[i].place = book[i].place
    BY <1>2
  <2> QED BY <1>1, <1>2, <1>4, <2>1 DEF SpotsOf
<1>6. OursIn(more) = OursIn(book) \cup {p}
  <2>1. \A i \in 1..Len(book) : more[i].place = book[i].place /\ more[i].ours = book[i].ours
    BY <1>2
  <2> QED BY <1>1, <1>2, <1>4, <2>1 DEF OursIn
<1>7. ASSUME p \notin SpotsOf(book), Distinct(book) PROVE Distinct(more)
  <2> SUFFICES ASSUME NEW i \in 1..Len(more), NEW j \in 1..Len(more),
                      more[i].place = more[j].place
               PROVE  i = j
    BY DEF Distinct
  <2>1. \A n \in 1..Len(book) : more[n].place = book[n].place /\ book[n].place # p
    BY <1>2, <1>7 DEF SpotsOf
  <2> QED BY <1>1, <1>2, <1>4, <1>7, <2>1 DEF Distinct
<1> QED BY <1>2, <1>3, <1>5, <1>6, <1>7 DEF e, more

\* A file of theirs with the first n of what is wanted added to it.
IsMerge(merged, theirs, desired, n) ==
    /\ merged \in Seq(Bookmarks) /\ Theirs(merged) = theirs
    /\ SpotsOf(merged) = SpotsOf(theirs) \cup {desired[i] : i \in 1..n}
    /\ OursIn(merged) = {desired[i] : i \in 1..n} \ SpotsOf(theirs)
    /\ Distinct(theirs) => Distinct(merged)

LEMMA TheirsAsTheyAre ==
  ASSUME NEW theirs \in Seq(TheirBookmarks)
  PROVE  theirs \in Seq(Bookmarks) /\ Theirs(theirs) = theirs /\ OursIn(theirs) = {}
<1>1. theirs \in Seq(Bookmarks)
  <2>1. TheirBookmarks \subseteq Bookmarks
    BY DEF TheirBookmarks, Bookmarks
  <2> QED BY <2>1
<1>2. Theirs(theirs) = theirs
  BY KeepingAll DEF Theirs, TheirBookmarks
<1>3. \A i \in 1..Len(theirs) : theirs[i].ours = FALSE
  <2>1. \A i \in 1..Len(theirs) : theirs[i] \in TheirBookmarks
    OBVIOUS
  <2> QED BY <2>1 DEF TheirBookmarks
<1> QED BY <1>1, <1>2, <1>3 DEF OursIn

LEMMA TheirsType ==
  ASSUME NEW book \in Seq(Bookmarks)
  PROVE  Theirs(book) \in Seq(TheirBookmarks)
<1>1. Theirs(book) \in Seq(TheirBookmarks \cap Bookmarks)
  BY KeepingType DEF Theirs, TheirBookmarks
<1>2. TheirBookmarks \cap Bookmarks = TheirBookmarks
  BY DEF TheirBookmarks, Bookmarks
<1> QED BY <1>1, <1>2

LEMMA AddedIs ==
  ASSUME NEW theirs \in Seq(TheirBookmarks), NEW desired \in Seq(Spots)
  PROVE  IsMerge(AddMissing(theirs, desired), theirs, desired, Len(desired))
<1>0. Len(desired) \in Nat
  OBVIOUS
<1>1. PICK w : IsAdded(w, theirs, desired) /\ AddMissing(theirs, desired) = w[Len(desired)]
  BY AddMissingIs
<1> DEFINE G == {n \in 0..Len(desired) : IsMerge(w[n], theirs, desired, n)}
<1>2. 0 \in G
  <2>1. w[0] = theirs
    BY <1>1 DEF IsAdded
  <2>2. {desired[i] : i \in 1..0} = {}
    OBVIOUS
  <2>3. IsMerge(theirs, theirs, desired, 0)
    BY <2>2, TheirsAsTheyAre DEF IsMerge
  <2>4. 0 \in 0..Len(desired)
    BY <1>0
  <2> QED BY <2>1, <2>3, <2>4
<1>3. ASSUME NEW n \in 1..Len(desired), n - 1 \in G PROVE n \in G
  <2> DEFINE p == desired[n]
             x == w[n - 1]
  <2>1. n \in 0..Len(desired) /\ p \in Spots
    BY <1>0
  <2>2. IsMerge(x, theirs, desired, n - 1)
    BY <1>3
  <2>3. w[n] = IF p \in SpotsOf(x) THEN x ELSE Append(x, Line(p, TRUE))
    BY <1>1 DEF IsAdded
  <2>4. {desired[i] : i \in 1..n} = {desired[i] : i \in 1..(n - 1)} \cup {p}
    <3>1. \A i : i \in 1..n <=> i \in 1..(n - 1) \/ i = n
      BY <1>0
    <3> QED BY <3>1
  <2> DEFINE old == {desired[i] : i \in 1..(n - 1)}
             new == {desired[i] : i \in 1..n}
  <2>5. new = old \cup {p}
    BY <2>4
  <2>6. /\ x \in Seq(Bookmarks) /\ Theirs(x) = theirs /\ SpotsOf(x) = SpotsOf(theirs) \cup old
        /\ OursIn(x) = old \ SpotsOf(theirs) /\ (Distinct(theirs) => Distinct(x))
    BY <2>2 DEF IsMerge
  <2> HIDE DEF p, x, old, new
  <2>7. CASE p \in SpotsOf(x)
    <3>1. SpotsOf(x) = SpotsOf(theirs) \cup new /\ OursIn(x) = new \ SpotsOf(theirs)
      BY <2>5, <2>6, <2>7
    <3>2. IsMerge(x, theirs, desired, n)
      BY <2>6, <3>1 DEF IsMerge, new
    <3> QED BY <2>1, <2>3, <2>7, <3>2
  <2>8. CASE p \notin SpotsOf(x)
    <3> DEFINE y == Append(x, Line(p, TRUE))
    <3>1. /\ y \in Seq(Bookmarks) /\ Theirs(y) = Theirs(x) /\ SpotsOf(y) = SpotsOf(x) \cup {p}
          /\ OursIn(y) = OursIn(x) \cup {p} /\ (Distinct(x) => Distinct(y))
      BY <2>1, <2>6, <2>8, OneMore
    <3> HIDE DEF y
    <3>2. SpotsOf(y) = SpotsOf(theirs) \cup new /\ OursIn(y) = new \ SpotsOf(theirs)
      BY <2>5, <2>6, <2>8, <3>1
    <3>3. IsMerge(y, theirs, desired, n)
      BY <2>6, <3>1, <3>2 DEF IsMerge, new
    <3>4. w[n] = y
      BY <2>3, <2>8 DEF y
    <3> QED BY <2>1, <3>3, <3>4
  <2> QED BY <2>7, <2>8
<1>4. \A n \in 0..Len(desired) : n \in G
  <2> HIDE DEF G
  <2> QED BY <1>0, <1>2, <1>3, AllTheWay
<1>5. Len(desired) \in 0..Len(desired)
  BY <1>0
<1> QED BY <1>1, <1>4, <1>5

\* Bookmarks of different places are as many as the places.
LEMMA AsManyPlaces ==
  ASSUME NEW book \in Seq(Bookmarks), Distinct(book)
  PROVE  Cardinality(SpotsOf(book)) = Len(book)
<1>1. Len(book) \in Nat
  OBVIOUS
<1> DEFINE f == [i \in 1..Len(book) |-> book[i].place]
<1>2. f \in Bijection(1..Len(book), SpotsOf(book))
  <2>1. f \in [1..Len(book) -> SpotsOf(book)]
    BY DEF SpotsOf
  <2>2. \A i, j \in 1..Len(book) : f[i] = f[j] => i = j
    BY DEF Distinct
  <2>3. \A p \in SpotsOf(book) : \E i \in 1..Len(book) : f[i] = p
    BY DEF SpotsOf
  <2> HIDE DEF f
  <2>4. DOMAIN f = 1..Len(book)
    BY <2>1
  <2> QED BY <2>1, <2>2, <2>3, <2>4 DEF Bijection, Injection, IsInjective, Surjection
<1>3. IsFiniteSet(1..Len(book)) /\ Cardinality(1..Len(book)) = Len(book)
  <2> DEFINE n == Len(book)
  <2> HIDE DEF n
  <2>1. n \in Int /\ 1 \in Int /\ n >= 0
    BY <1>1 DEF n
  <2>2. IsFiniteSet(1..n) /\ Cardinality(1..n) = IF 1 > n THEN 0 ELSE n - 1 + 1
    BY <2>1, FS_Interval
  <2>3. IsFiniteSet(1..n) /\ Cardinality(1..n) = n
    BY <2>1, <2>2
  <2> QED
    BY <2>3 DEF n
<1> HIDE DEF f
<1>4. ExistsBijection(1..Len(book), SpotsOf(book))
  BY <1>2 DEF ExistsBijection
<1> QED BY <1>3, <1>4, FS_Bijection

(***************************************************************************)
(* What applying leaves, whoever applies and however they interleave.       *)
(***************************************************************************)
Jobs == [stage : JobStages, on : BOOLEAN, folders : Seq(Spots), read : Seq(Bookmarks)]

\* The bookmarks, and the scripts, are what the config asks for.
AsWanted == lines = AddMissing(Theirs(lines), DesiredBookmarks(setting))
ScriptsFit ==
    \A n \in ScriptNames : scripts[n] \in {"theirs", IF setting.on THEN "ours" ELSE "none"}

\* An applier at work has the config as it is: the window because nobody else changes it, the
\* tray unless it has yet to load it.
WithTheConfig(a) ==
    job[a].stage # "idle" => job[a].on = setting.on /\ job[a].folders = setting.folders

\* What was read is what stands there, unless the file was written meanwhile; and as long as
\* the user leaves it alone, all that was read have the user's bookmarks as they are.
ReadIsKept ==
    \A a \in Appliers : job[a].stage = "read" =>
        /\ a \notin raced => job[a].read = lines
        /\ ~touched => Theirs(job[a].read) = Theirs(lines)

ShortcutsInv ==
    /\ setting \in Configs /\ lines \in Seq(Bookmarks) /\ job \in [Appliers -> Jobs]
    /\ scripts \in [ScriptNames -> {"none", "ours", "theirs"}] /\ due \in BOOLEAN
    /\ touched \in BOOLEAN /\ failures \in Nat
    /\ ReadIsKept
    /\ ~touched => Distinct(Theirs(lines))
    /\ WithTheConfig(WindowApp) /\ (~due => WithTheConfig(TrayApp))
    /\ (~due /\ ~touched /\ failures = 0) =>
          /\ job[TrayApp].stage \in {"idle", "written"} => AsWanted
          /\ job[TrayApp].stage = "read" => AsWanted \/ job[TrayApp].read = lines
    /\ (~due /\ job[TrayApp].stage = "idle") => ScriptsFit

LEMMA ConfigsType == ASSUME NEW c \in Configs PROVE c.on \in BOOLEAN /\ c.folders \in Seq(Spots)
<1>1. <<>> \in Seq(Spots) /\ (\A p \in Spots : <<p>> \in Seq(Spots))
      /\ (\A p, q \in Spots : <<p, q>> \in Seq(Spots))
  OBVIOUS
<1>2. c.on \in BOOLEAN
  BY DEF Configs
<1>3. \/ c.folders = <<>> \/ \E p \in Spots : c.folders = <<p>>
      \/ \E p, q \in Spots : c.folders = <<p, q>>
  BY DEF Configs
<1>4. c.folders \in Seq(Spots)
  BY <1>1, <1>3
<1> QED BY <1>2, <1>4

LEMMA DesiredType ==
  ASSUME NEW c, c.folders \in Seq(Spots)
  PROVE  DesiredBookmarks(c) \in Seq(Spots)
<1>1. Keeping(c.folders, Spots \ Absent) \in Seq((Spots \ Absent) \cap Spots)
  BY KeepingType
<1>2. Seq((Spots \ Absent) \cap Spots) \subseteq Seq(Spots)
  OBVIOUS
<1>3. <<>> \in Seq(Spots)
  OBVIOUS
<1> QED BY <1>1, <1>2, <1>3 DEF DesiredBookmarks

\* What is merged into a file has the same bookmarks of the user's, and more of it changes
\* nothing.
LEMMA MergedIs ==
  ASSUME NEW book \in Seq(Bookmarks), NEW c, c.folders \in Seq(Spots)
  PROVE  LET merged == MergeBookmarks(book, DesiredBookmarks(c))
         IN  /\ merged \in Seq(Bookmarks) /\ Theirs(merged) = Theirs(book)
             /\ merged = AddMissing(Theirs(merged), DesiredBookmarks(c))
<1>1. Theirs(book) \in Seq(TheirBookmarks) /\ DesiredBookmarks(c) \in Seq(Spots)
  BY TheirsType, DesiredType
<1>2. IsMerge(AddMissing(Theirs(book), DesiredBookmarks(c)), Theirs(book), DesiredBookmarks(c),
              Len(DesiredBookmarks(c)))
  BY <1>1, AddedIs
<1> QED BY <1>2 DEF IsMerge, MergeBookmarks

\* A job that is put in the place of an applier's.
LEMMA JobPut ==
  ASSUME job \in [Appliers -> Jobs], NEW a \in Appliers, NEW j \in Jobs,
         job' = [job EXCEPT ![a] = j]
  PROVE  job' \in [Appliers -> Jobs] /\ job'[a] = j /\ \A b \in Appliers \ {a} : job'[b] = job[b]
OBVIOUS

LEMMA JobTaken ==
  ASSUME job \in [Appliers -> Jobs], NEW a \in Appliers, NEW c \in Configs, Takes(a, c)
  PROVE  /\ job' \in [Appliers -> Jobs] /\ \A b \in Appliers \ {a} : job'[b] = job[b]
         /\ job'[a].stage = "begun" /\ job'[a].on = c.on /\ job'[a].folders = c.folders
<1> DEFINE j == [stage |-> "begun", on |-> c.on, folders |-> c.folders, read |-> <<>>]
<1>1. <<>> \in Seq(Bookmarks)
  OBVIOUS
<1>2. j \in Jobs
  BY <1>1, ConfigsType DEF Jobs, JobStages
<1>3. job' = [job EXCEPT ![a] = j]
  BY DEF Takes
<1>4. j.stage = "begun" /\ j.on = c.on /\ j.folders = c.folders
  OBVIOUS
<1> HIDE DEF j
<1> QED BY <1>2, <1>3, <1>4, JobPut

\* An applier that goes on has the same config.
LEMMA JobGoesOn ==
  ASSUME job \in [Appliers -> Jobs], NEW a \in Appliers, NEW st \in JobStages,
         job' = [job EXCEPT ![a].stage = st]
  PROVE  /\ job' \in [Appliers -> Jobs] /\ \A b \in Appliers \ {a} : job'[b] = job[b]
         /\ job'[a].stage = st
         /\ job'[a].on = job[a].on /\ job'[a].folders = job[a].folders
<1> DEFINE j == [job[a] EXCEPT !.stage = st]
<1>1. j \in Jobs /\ j.stage = st /\ j.on = job[a].on /\ j.folders = job[a].folders
  BY DEF Jobs
<1>2. job' = [job EXCEPT ![a] = j]
  OBVIOUS
<1> HIDE DEF j
<1> QED BY <1>1, <1>2, JobPut

LEMMA JobReads ==
  ASSUME job \in [Appliers -> Jobs], lines \in Seq(Bookmarks), NEW a \in Appliers,
         ReadBookmarks(a)
  PROVE  /\ job' \in [Appliers -> Jobs] /\ \A b \in Appliers \ {a} : job'[b] = job[b]
         /\ job'[a].stage = "read" /\ job'[a].read = lines
         /\ job'[a].on = job[a].on /\ job'[a].folders = job[a].folders
<1> DEFINE j == [job[a] EXCEPT !.stage = "read", !.read = lines]
<1>1. j \in Jobs /\ j.stage = "read" /\ j.read = lines /\ j.on = job[a].on
      /\ j.folders = job[a].folders
  BY DEF Jobs, JobStages
<1>2. job' = [job EXCEPT ![a] = j]
  BY DEF ReadBookmarks
<1> HIDE DEF j
<1> QED BY <1>1, <1>2, JobPut

\* What an applier of the present config writes is as wanted, if the user's bookmarks are those
\* it read.
LEMMA WritesAsWanted ==
  ASSUME NEW a, job[a].read \in Seq(Bookmarks), setting.folders \in Seq(Spots),
         job[a].on = setting.on, job[a].folders = setting.folders
  PROVE  LET merged == MergeBookmarks(job[a].read, DesiredBookmarks(job[a]))
         IN  merged = AddMissing(Theirs(merged), DesiredBookmarks(setting))
<1>1. DesiredBookmarks(job[a]) = DesiredBookmarks(setting)
  BY DEF DesiredBookmarks
<1> QED BY <1>1, MergedIs

LEMMA ScriptsApplied ==
  ASSUME ShortcutsInv, NEW a \in Appliers, ApplyScripts(a)
  PROVE  /\ scripts' \in [ScriptNames -> {"none", "ours", "theirs"}]
         /\ \A n \in ScriptNames :
               scripts'[n] \in {"theirs", IF job[a].on THEN "ours" ELSE "none"}
<1>1. \A n \in ScriptNames : SyncScript(scripts[n], job[a].on) \in {"none", "ours", "theirs"}
  BY DEF SyncScript
<1>2. \A n \in ScriptNames :
         SyncScript(scripts[n], job[a].on) \in {"theirs", IF job[a].on THEN "ours" ELSE "none"}
  BY DEF SyncScript
<1> QED BY <1>1, <1>2 DEF ApplyScripts

LEMMA ShortcutsBegin == FileManagerInit => ShortcutsInv
<1> SUFFICES ASSUME FileManagerInit PROVE ShortcutsInv
  OBVIOUS
<1>1. <<>> \in Seq(Bookmarks) /\ <<>> \in Seq(TheirBookmarks) /\ <<>> \in Seq(Spots)
  OBVIOUS
<1>2. NoJob \in Jobs
  BY <1>1 DEF NoJob, Jobs, JobStages
<1>3. job \in [Appliers -> Jobs] /\ \A a \in Appliers : job[a] = NoJob
  BY <1>2 DEF FileManagerInit
<1>4. \A a \in Appliers : job[a].stage = "idle"
  BY <1>3 DEF NoJob
<1>5. lines \in Seq(TheirBookmarks) /\ Len(lines) <= 1
  <2>1. \A p \in Spots : Line(p, FALSE) \in TheirBookmarks
    BY DEF Line, TheirBookmarks
  <2>2. ASSUME NEW p \in Spots, lines = <<Line(p, FALSE)>>
        PROVE  lines \in Seq(TheirBookmarks) /\ Len(lines) <= 1
    <3> DEFINE e == Line(p, FALSE)
    <3>1. e \in TheirBookmarks
      BY <2>1
    <3> HIDE DEF e
    <3>2. <<e>> \in Seq(TheirBookmarks) /\ Len(<<e>>) <= 1
      BY <3>1
    <3> QED BY <2>2, <3>2 DEF e
  <2>3. CASE lines = <<>>
    <3>1. Len(<<>>) <= 1
      OBVIOUS
    <3> QED BY <1>1, <2>3, <3>1
  <2>4. lines = <<>> \/ \E p \in Spots : lines = <<Line(p, FALSE)>>
    BY DEF FileManagerInit
  <2> QED BY <2>2, <2>3, <2>4
<1>6. lines \in Seq(Bookmarks) /\ Theirs(lines) = lines
  BY <1>5, TheirsAsTheyAre
<1>7. Distinct(Theirs(lines))
  BY <1>5, <1>6 DEF Distinct
<1>8. setting \in Configs /\ setting.on = FALSE /\ setting.folders = <<>>
  <2>1. FALSE \in BOOLEAN
    OBVIOUS
  <2> QED BY <2>1 DEF FileManagerInit, Configs
<1>9. AsWanted
  <2>1. DesiredBookmarks(setting) = <<>>
    BY <1>8 DEF DesiredBookmarks
  <2>2. PICK w : IsAdded(w, lines, <<>>) /\ AddMissing(lines, <<>>) = w[Len(<<>>)]
    BY <1>1, AddMissingIs
  <2>3. w[0] = lines
    BY <2>2 DEF IsAdded
  <2>4. Len(<<>>) = 0
    OBVIOUS
  <2> QED BY <1>6, <2>1, <2>2, <2>3, <2>4 DEF AsWanted
<1>10. ScriptsFit
  BY <1>8 DEF ScriptsFit, FileManagerInit
<1>11. /\ scripts \in [ScriptNames -> {"none", "ours", "theirs"}]
  BY DEF FileManagerInit
<1>12. due \in BOOLEAN /\ touched \in BOOLEAN /\ failures \in Nat
  BY DEF FileManagerInit
<1>13. WindowApp \in Appliers /\ TrayApp \in Appliers
  BY DEF Appliers
<1> QED BY <1>3, <1>4, <1>6, <1>7, <1>8, <1>9, <1>10, <1>11, <1>12, <1>13
           DEF ShortcutsInv, ReadIsKept, WithTheConfig

\* What the user makes of the bookmarks is such a file too.
LEMMA EditsType ==
  ASSUME lines \in Seq(Bookmarks), NEW book \in Edits
  PROVE  book \in Seq(Bookmarks)
<1>1. ASSUME NEW p \in Spots PROVE Append(lines, Line(p, FALSE)) \in Seq(Bookmarks)
  <2> DEFINE e == Line(p, FALSE)
  <2>1. e \in Bookmarks
    BY DEF Line, Bookmarks
  <2> HIDE DEF e
  <2>2. Append(lines, e) \in Seq(Bookmarks)
    BY <2>1
  <2> QED BY <2>2 DEF e
<1>2. ASSUME NEW i \in 1..Len(lines) PROVE Without(lines, i) \in Seq(Bookmarks)
  <2>1. SubSeq(lines, 1, i - 1) \in Seq(Bookmarks)
    OBVIOUS
  <2>2. SubSeq(lines, i + 1, Len(lines)) \in Seq(Bookmarks)
    OBVIOUS
  <2> QED BY <2>1, <2>2 DEF Without
<1>3. ASSUME NEW i \in 1..Len(lines) PROVE [lines EXCEPT ![i].ours = FALSE] \in Seq(Bookmarks)
  <2> DEFINE e == [lines[i] EXCEPT !.ours = FALSE]
  <2>1. e \in Bookmarks
    <3>1. lines[i] \in Bookmarks
      OBVIOUS
    <3> QED BY <3>1 DEF Bookmarks
  <2>2. [lines EXCEPT ![i].ours = FALSE] = [lines EXCEPT ![i] = e]
    OBVIOUS
  <2> HIDE DEF e
  <2>3. [lines EXCEPT ![i] = e] \in Seq(Bookmarks)
    BY <2>1
  <2> QED BY <2>2, <2>3
<1> QED BY <1>1, <1>2, <1>3 DEF Edits

LEMMA ShortcutsStep == ShortcutsInv /\ [FileManagerNext]_fmVars => ShortcutsInv'
<1> SUFFICES ASSUME ShortcutsInv, [FileManagerNext]_fmVars PROVE ShortcutsInv'
  OBVIOUS
<1> DEFINE Calm == ~due /\ ~touched /\ failures = 0
<1>0. WindowApp \in Appliers /\ TrayApp \in Appliers
      /\ \A a \in Appliers : a = WindowApp \/ a = TrayApp
  BY DEF Appliers
<1>a. /\ setting \in Configs /\ lines \in Seq(Bookmarks) /\ job \in [Appliers -> Jobs]
      /\ scripts \in [ScriptNames -> {"none", "ours", "theirs"}] /\ due \in BOOLEAN
      /\ touched \in BOOLEAN /\ failures \in Nat
  BY DEF ShortcutsInv
<1>b. \A a \in Appliers : job[a].stage = "read" =>
         /\ a \notin raced => job[a].read = lines
         /\ ~touched => Theirs(job[a].read) = Theirs(lines)
  BY DEF ShortcutsInv, ReadIsKept
<1>c. ~touched => Distinct(Theirs(lines))
  BY DEF ShortcutsInv
<1>d. WithTheConfig(WindowApp) /\ (~due => WithTheConfig(TrayApp))
  BY DEF ShortcutsInv
<1>e. Calm => /\ job[TrayApp].stage \in {"idle", "written"} => AsWanted
              /\ job[TrayApp].stage = "read" => AsWanted \/ job[TrayApp].read = lines
  BY DEF ShortcutsInv
<1>f. (~due /\ job[TrayApp].stage = "idle") => ScriptsFit
  BY DEF ShortcutsInv
<1>g. \A a \in Appliers : job[a] \in Jobs /\ job[a].stage \in JobStages
                          /\ job[a].read \in Seq(Bookmarks) /\ job[a].folders \in Seq(Spots)
  BY <1>a DEF Jobs
<1>h. setting.folders \in Seq(Spots)
  BY <1>a, ConfigsType
<1> HIDE DEF Calm
<1>1. ASSUME TrayReloads PROVE ShortcutsInv'
  <2>1. /\ due' = FALSE /\ Takes(TrayApp, setting) /\ job[TrayApp].stage = "idle"
        /\ setting' = setting /\ lines' = lines /\ scripts' = scripts /\ raced' = raced
        /\ touched' = touched /\ failures' = failures
    BY <1>1 DEF TrayReloads
  <2>2. /\ job' \in [Appliers -> Jobs] /\ \A b \in Appliers \ {TrayApp} : job'[b] = job[b]
        /\ job'[TrayApp].stage = "begun" /\ job'[TrayApp].on = setting.on
        /\ job'[TrayApp].folders = setting.folders
    BY <1>0, <1>a, <2>1, JobTaken
  <2>3. ReadIsKept'
    BY <1>b, <2>1, <2>2 DEF ReadIsKept
  <2>4. WithTheConfig(WindowApp)' /\ WithTheConfig(TrayApp)'
    BY <1>0, <1>d, <2>1, <2>2 DEF WithTheConfig
  <2> QED BY <1>a, <1>c, <2>1, <2>2, <2>3, <2>4 DEF ShortcutsInv
<1>2. ASSUME NEW a \in Appliers, ReadBookmarks(a) PROVE ShortcutsInv'
  <2>1. /\ raced' = raced \ {a} /\ job[a].stage = "begun"
        /\ setting' = setting /\ lines' = lines /\ scripts' = scripts /\ due' = due
        /\ touched' = touched /\ failures' = failures
    BY <1>2 DEF ReadBookmarks
  <2>2. /\ job' \in [Appliers -> Jobs] /\ \A b \in Appliers \ {a} : job'[b] = job[b]
        /\ job'[a].stage = "read" /\ job'[a].read = lines
        /\ job'[a].on = job[a].on /\ job'[a].folders = job[a].folders
    BY <1>2, <1>a, JobReads
  <2>3. ReadIsKept'
    BY <1>b, <2>1, <2>2 DEF ReadIsKept
  <2>4. \A b \in Appliers : WithTheConfig(b) => WithTheConfig(b)'
    BY <2>1, <2>2 DEF WithTheConfig
  <2>5. Calm' => Calm
    BY <2>1 DEF Calm
  <2>6. AsWanted => AsWanted'
    BY <2>1 DEF AsWanted
  <2>7. Calm' => /\ job'[TrayApp].stage \in {"idle", "written"} => AsWanted'
                 /\ job'[TrayApp].stage = "read" => AsWanted' \/ job'[TrayApp].read = lines'
    BY <1>0, <1>e, <2>1, <2>2, <2>5, <2>6
  <2>8. (~due' /\ job'[TrayApp].stage = "idle") => ScriptsFit'
    BY <1>0, <1>f, <2>1, <2>2 DEF ScriptsFit
  <2> QED BY <1>0, <1>a, <1>c, <1>d, <2>1, <2>2, <2>3, <2>4, <2>7, <2>8 DEF ShortcutsInv, Calm
<1>3. ASSUME NEW a \in Appliers, WriteBookmarks(a) PROVE ShortcutsInv'
  <2> DEFINE merged == MergeBookmarks(job[a].read, DesiredBookmarks(job[a]))
  <2>1. /\ job[a].stage = "read" /\ job' = [job EXCEPT ![a].stage = "written"]
        /\ lines' = IF merged = job[a].read THEN lines ELSE merged
        /\ raced' = IF merged = job[a].read THEN raced
                    ELSE raced \cup {b \in Appliers \ {a} : job[b].stage = "read"}
        /\ setting' = setting /\ due' = due /\ scripts' = scripts /\ touched' = touched
        /\ failures' = failures
    BY <1>3 DEF WriteBookmarks
  <2>2. /\ job' \in [Appliers -> Jobs] /\ \A b \in Appliers \ {a} : job'[b] = job[b]
        /\ job'[a].stage = "written"
        /\ job'[a].on = job[a].on /\ job'[a].folders = job[a].folders
    <3>1. "written" \in JobStages
      BY DEF JobStages
    <3> QED BY <1>a, <2>1, <3>1, JobGoesOn
  <2>3. merged \in Seq(Bookmarks) /\ Theirs(merged) = Theirs(job[a].read)
    BY <1>g, MergedIs
  <2>4. lines' \in Seq(Bookmarks)
    BY <1>a, <2>1, <2>3
  <2>5. ~touched => Theirs(lines') = Theirs(lines)
    BY <1>b, <2>1, <2>3
  <2>6. \A b \in Appliers : WithTheConfig(b) => WithTheConfig(b)'
    BY <2>1, <2>2 DEF WithTheConfig
  <2>7. ReadIsKept'
    <3> SUFFICES ASSUME NEW b \in Appliers, job'[b].stage = "read"
                 PROVE  /\ b \notin raced' => job'[b].read = lines'
                        /\ ~touched => Theirs(job'[b].read) = Theirs(lines')
      BY <2>1 DEF ReadIsKept
    <3>1. b # a /\ job'[b] = job[b]
      BY <2>2
    <3>2. b \notin raced' => job[b].read = lines'
      BY <1>b, <2>1, <3>1
    <3>3. ~touched => Theirs(job[b].read) = Theirs(lines')
      BY <1>b, <2>5, <3>1
    <3> QED BY <3>1, <3>2, <3>3
  <2>8. ASSUME Calm PROVE lines' = lines \/ AsWanted'
    <3>1. WithTheConfig(a)
      BY <1>0, <1>d, <2>8 DEF Calm
    <3>2. job[a].on = setting.on /\ job[a].folders = setting.folders
      BY <2>1, <3>1 DEF WithTheConfig
    <3>3. merged = AddMissing(Theirs(merged), DesiredBookmarks(setting))
      BY <1>g, <1>h, <3>2, WritesAsWanted
    <3> HIDE DEF merged
    <3> QED BY <2>1, <3>3 DEF AsWanted
  <2>9. ASSUME Calm, a = TrayApp PROVE AsWanted'
    <3>1. WithTheConfig(a)
      BY <1>d, <2>9 DEF Calm
    <3>2. job[a].on = setting.on /\ job[a].folders = setting.folders
      BY <2>1, <3>1 DEF WithTheConfig
    <3>3. merged = AddMissing(Theirs(merged), DesiredBookmarks(setting))
      BY <1>g, <1>h, <3>2, WritesAsWanted
    <3> HIDE DEF merged
    <3>4. CASE merged = job[a].read
      <4>1. AsWanted \/ lines = merged
        BY <1>e, <2>1, <2>9, <3>4
      <4> QED BY <2>1, <3>3, <3>4, <4>1 DEF AsWanted
    <3>5. CASE merged # job[a].read
      BY <2>1, <3>3, <3>5 DEF AsWanted
    <3> QED BY <3>4, <3>5
  <2>10. AsWanted /\ lines' = lines => AsWanted'
    BY <2>1 DEF AsWanted
  <2>11. Calm' => Calm
    BY <2>1 DEF Calm
  <2> HIDE DEF merged
  <2>12. Calm' => /\ job'[TrayApp].stage \in {"idle", "written"} => AsWanted'
                  /\ job'[TrayApp].stage = "read" => AsWanted' \/ job'[TrayApp].read = lines'
    BY <1>0, <1>e, <2>2, <2>8, <2>9, <2>10, <2>11
  <2>13. (~due' /\ job'[TrayApp].stage = "idle") => ScriptsFit'
    BY <1>0, <1>f, <2>1, <2>2 DEF ScriptsFit
  <2> QED BY <1>0, <1>a, <1>c, <1>d, <2>1, <2>2, <2>4, <2>5, <2>6, <2>7, <2>12, <2>13
             DEF ShortcutsInv, Calm
<1>4. ASSUME NEW a \in Appliers, ApplyScripts(a) PROVE ShortcutsInv'
  <2>1. /\ job[a].stage = "written" /\ job' = [job EXCEPT ![a] = NoJob]
        /\ setting' = setting /\ due' = due /\ lines' = lines /\ raced' = raced
        /\ touched' = touched /\ failures' = failures
    BY <1>4 DEF ApplyScripts
  <2>2. /\ job' \in [Appliers -> Jobs] /\ \A b \in Appliers \ {a} : job'[b] = job[b]
        /\ job'[a].stage = "idle"
    <3>1. <<>> \in Seq(Bookmarks) /\ <<>> \in Seq(Spots)
      OBVIOUS
    <3>2. NoJob \in Jobs /\ NoJob.stage = "idle"
      BY <3>1 DEF NoJob, Jobs, JobStages
    <3> QED BY <1>a, <2>1, <3>2, JobPut
  <2>3. /\ scripts' \in [ScriptNames -> {"none", "ours", "theirs"}]
        /\ \A n \in ScriptNames : scripts'[n] \in {"theirs", IF job[a].on THEN "ours" ELSE "none"}
    BY <1>4, ScriptsApplied
  <2>4. ReadIsKept'
    BY <1>b, <2>1, <2>2 DEF ReadIsKept
  <2>5. \A b \in Appliers : WithTheConfig(b) => WithTheConfig(b)'
    BY <2>1, <2>2 DEF WithTheConfig
  <2>6. Calm' => Calm
    BY <2>1 DEF Calm
  <2>7. AsWanted => AsWanted'
    BY <2>1 DEF AsWanted
  <2>8. Calm' => /\ job'[TrayApp].stage \in {"idle", "written"} => AsWanted'
                 /\ job'[TrayApp].stage = "read" => AsWanted' \/ job'[TrayApp].read = lines'
    BY <1>0, <1>e, <2>1, <2>2, <2>6, <2>7
  <2>9. (~due' /\ job'[TrayApp].stage = "idle") => ScriptsFit'
    <3>1. ~due => WithTheConfig(a)
      BY <1>0, <1>d
    <3>2. ~due => job[a].on = setting.on
      BY <2>1, <3>1 DEF WithTheConfig
    <3> QED BY <2>1, <2>3, <3>2 DEF ScriptsFit
  <2> QED BY <1>0, <1>a, <1>c, <1>d, <2>1, <2>2, <2>3, <2>4, <2>5, <2>8, <2>9
             DEF ShortcutsInv, Calm
<1>5. ASSUME NEW a \in Appliers, BookmarksFail(a) PROVE ShortcutsInv'
  <2>1. /\ job[a].stage \in {"begun", "read"} /\ job' = [job EXCEPT ![a].stage = "written"]
        /\ setting' = setting /\ due' = due /\ lines' = lines /\ raced' = raced
        /\ touched' = touched /\ scripts' = scripts
    BY <1>5 DEF BookmarksFail
  <2>2. /\ job' \in [Appliers -> Jobs] /\ \A b \in Appliers \ {a} : job'[b] = job[b]
        /\ job'[a].stage = "written"
        /\ job'[a].on = job[a].on /\ job'[a].folders = job[a].folders
    <3>1. "written" \in JobStages
      BY DEF JobStages
    <3> QED BY <1>a, <2>1, <3>1, JobGoesOn
  <2>3. ReadIsKept'
    BY <1>b, <2>1, <2>2 DEF ReadIsKept
  <2>4. \A b \in Appliers : WithTheConfig(b) => WithTheConfig(b)'
    BY <2>1, <2>2 DEF WithTheConfig
  <2>5. failures' \in Nat /\ failures' # 0
    <3>1. failures' = failures + 1
      BY <1>5 DEF BookmarksFail
    <3> QED BY <1>a, <3>1
  <2>6. (~due' /\ job'[TrayApp].stage = "idle") => ScriptsFit'
    BY <1>0, <1>f, <2>1, <2>2 DEF ScriptsFit
  <2> QED BY <1>0, <1>a, <1>c, <1>d, <2>1, <2>2, <2>3, <2>4, <2>5, <2>6 DEF ShortcutsInv
<1>6. ASSUME NEW c \in Configs, ChangeConfig(c) PROVE ShortcutsInv'
  <2>1. /\ job[WindowApp].stage = "idle" /\ setting' = c /\ due' = TRUE
        /\ Takes(WindowApp, c) \/ UNCHANGED job
        /\ lines' = lines /\ raced' = raced /\ touched' = touched /\ scripts' = scripts
        /\ failures' = failures
    BY <1>6 DEF ChangeConfig
  <2>2. CASE UNCHANGED job
    <3>1. ReadIsKept'
      BY <1>b, <2>1, <2>2 DEF ReadIsKept
    <3>2. WithTheConfig(WindowApp)'
      BY <2>1, <2>2 DEF WithTheConfig
    <3> QED BY <1>a, <1>c, <2>1, <2>2, <3>1, <3>2 DEF ShortcutsInv
  <2>3. CASE Takes(WindowApp, c)
    <3>1. /\ job' \in [Appliers -> Jobs] /\ \A b \in Appliers \ {WindowApp} : job'[b] = job[b]
          /\ job'[WindowApp].stage = "begun" /\ job'[WindowApp].on = c.on
          /\ job'[WindowApp].folders = c.folders
      BY <1>0, <1>a, <2>3, JobTaken
    <3>2. ReadIsKept'
      BY <1>b, <2>1, <3>1 DEF ReadIsKept
    <3>3. WithTheConfig(WindowApp)'
      BY <2>1, <3>1 DEF WithTheConfig
    <3> QED BY <1>a, <1>c, <2>1, <3>1, <3>2, <3>3 DEF ShortcutsInv
  <2> QED BY <2>1, <2>2, <2>3
<1>7. ASSUME TrayStarts PROVE ShortcutsInv'
  <2>1. /\ due' = TRUE /\ setting' = setting /\ job' = job /\ lines' = lines /\ raced' = raced
        /\ touched' = touched /\ scripts' = scripts /\ failures' = failures
    BY <1>7 DEF TrayStarts
  <2>2. ReadIsKept'
    BY <1>b, <2>1 DEF ReadIsKept
  <2>3. WithTheConfig(WindowApp)'
    BY <1>d, <2>1 DEF WithTheConfig
  <2> QED BY <1>a, <1>c, <2>1, <2>2, <2>3 DEF ShortcutsInv
<1>8. ASSUME NEW book \in Edits, UserEdits(book) PROVE ShortcutsInv'
  <2>1. /\ lines' = book /\ raced' = raced \cup {a \in Appliers : job[a].stage = "read"}
        /\ touched' = TRUE /\ setting' = setting /\ due' = due /\ job' = job
        /\ scripts' = scripts /\ failures' = failures
    BY <1>8 DEF UserEdits
  <2>2. book \in Seq(Bookmarks)
    BY <1>a, EditsType
  <2>3. ReadIsKept'
    BY <2>1 DEF ReadIsKept
  <2>4. \A b \in Appliers : WithTheConfig(b) => WithTheConfig(b)'
    BY <2>1 DEF WithTheConfig
  <2>5. ScriptsFit => ScriptsFit'
    BY <2>1 DEF ScriptsFit
  <2> QED BY <1>0, <1>a, <1>d, <1>f, <2>1, <2>2, <2>3, <2>4, <2>5 DEF ShortcutsInv
<1>9. ASSUME NEW n \in ScriptNames, UserScripts(n) PROVE ShortcutsInv'
  <2>1. /\ scripts' = [scripts EXCEPT ![n] = "theirs"] /\ touched' = TRUE
        /\ setting' = setting /\ due' = due /\ job' = job /\ lines' = lines /\ raced' = raced
        /\ failures' = failures
    BY <1>9 DEF UserScripts
  <2>2. ReadIsKept'
    BY <1>b, <2>1 DEF ReadIsKept
  <2>3. \A b \in Appliers : WithTheConfig(b) => WithTheConfig(b)'
    BY <2>1 DEF WithTheConfig
  <2>4. scripts' \in [ScriptNames -> {"none", "ours", "theirs"}]
    BY <1>a, <2>1
  <2>5. \A i \in ScriptNames : scripts'[i] = IF i = n THEN "theirs" ELSE scripts[i]
    BY <1>a, <2>1
  <2>6. ScriptsFit => ScriptsFit'
    BY <2>1, <2>5 DEF ScriptsFit
  <2> QED BY <1>0, <1>a, <1>d, <1>f, <2>1, <2>2, <2>3, <2>4, <2>6 DEF ShortcutsInv
<1>10. ASSUME UNCHANGED fmVars PROVE ShortcutsInv'
  <2>1. /\ setting' = setting /\ due' = due /\ job' = job /\ lines' = lines /\ raced' = raced
        /\ touched' = touched /\ scripts' = scripts /\ failures' = failures
    BY <1>10 DEF fmVars
  <2> QED BY <2>1 DEF ShortcutsInv, ReadIsKept, WithTheConfig, AsWanted, ScriptsFit
<1> QED BY <1>1, <1>2, <1>3, <1>4, <1>5, <1>6, <1>7, <1>8, <1>9, <1>10
           DEF FileManagerNext, ApplierStep

LEMMA FittingShortcutsAgree == ShortcutsInv => ShortcutsAgree
<1> SUFFICES ASSUME ShortcutsInv, ~due, ~touched, failures = 0, \A a \in Appliers : job[a] = NoJob
             PROVE  ShortcutsAgree
  BY DEF ShortcutsAgree
<1> DEFINE D == DesiredBookmarks(setting)
           T == Theirs(lines)
           Asked == {D[i] : i \in 1..Len(D)}
           wanted == {f \in SpotsOf(lines) \cup Spots : \E i \in 1..Len(D) : D[i] = f}
<1>1. job[TrayApp].stage = "idle"
  BY DEF Appliers, NoJob
<1>2. AsWanted /\ ScriptsFit /\ Distinct(T) /\ setting \in Configs /\ lines \in Seq(Bookmarks)
  BY <1>1 DEF ShortcutsInv
<1>3. D \in Seq(Spots) /\ T \in Seq(TheirBookmarks)
  BY <1>2, ConfigsType, DesiredType, TheirsType
<1>4. IsMerge(lines, T, D, Len(D))
  <2>1. IsMerge(AddMissing(T, D), T, D, Len(D))
    <3> HIDE DEF D, T
    <3> QED BY <1>3, AddedIs
  <2> QED BY <1>2, <2>1 DEF AsWanted
<1> HIDE DEF D, T
<1>5. OursIn(lines) = Asked \ SpotsOf(T) /\ Distinct(lines)
  BY <1>2, <1>4 DEF IsMerge
<1>6. \A i \in 1..Len(D) : D[i] \in Spots
  BY <1>3
<1>7. wanted = Asked
  BY <1>6
<1>8. Cardinality(SpotsOf(lines)) = Len(lines)
  BY <1>2, <1>5, AsManyPlaces
<1> HIDE DEF Asked, wanted
<1>9. OursIn(lines) = wanted \ SpotsOf(T)
  BY <1>5, <1>7
<1> QED BY <1>2, <1>8, <1>9 DEF ShortcutsAgree, wanted, D, T, OursIn, ScriptsFit

\* Once both have applied the config the bookmarks and scripts are what it asks for, and
\* applying changes only ours unless the file was written while it was being merged: for any
\* folders and scripts, however the window, the tray and the user take turns.
THEOREM OnlyOursAreTouched == FileManagerSpec => ShortcutsAreOurs
<1>1. ShortcutsInv /\ [FileManagerNext]_fmVars =>
        [/\ \A a \in Appliers \ raced : WriteBookmarks(a) => Theirs(lines') = Theirs(lines)
         /\ ApplierStep => \A n \in ScriptNames : scripts[n] = "theirs" => scripts'[n] = "theirs"
        ]_fmVars
  <2> SUFFICES ASSUME ShortcutsInv
               PROVE  /\ \A a \in Appliers \ raced :
                            WriteBookmarks(a) => Theirs(lines') = Theirs(lines)
                      /\ ApplierStep =>
                            \A n \in ScriptNames : scripts[n] = "theirs" => scripts'[n] = "theirs"
    OBVIOUS
  <2>1. ASSUME NEW a \in Appliers \ raced, WriteBookmarks(a) PROVE Theirs(lines') = Theirs(lines)
    <3> DEFINE merged == MergeBookmarks(job[a].read, DesiredBookmarks(job[a]))
    <3>1. /\ job[a].stage = "read"
          /\ lines' = IF merged = job[a].read THEN lines ELSE merged
      BY <2>1 DEF WriteBookmarks
    <3>2. job[a].read = lines
      BY <3>1 DEF ShortcutsInv, ReadIsKept
    <3>3. job[a].read \in Seq(Bookmarks) /\ job[a].folders \in Seq(Spots)
      BY DEF ShortcutsInv, Jobs
    <3>4. Theirs(merged) = Theirs(job[a].read)
      BY <3>3, MergedIs
    <3> HIDE DEF merged
    <3> QED BY <3>1, <3>2, <3>4
  <2>2. ASSUME ApplierStep, NEW n \in ScriptNames, scripts[n] = "theirs"
        PROVE  scripts'[n] = "theirs"
    <3>1. CASE UNCHANGED scripts
      BY <2>2, <3>1
    <3>2. ASSUME NEW a \in Appliers, ApplyScripts(a) PROVE scripts'[n] = "theirs"
      BY <2>2, <3>2 DEF ApplyScripts, SyncScript
    <3> QED BY <2>2, <3>1, <3>2 DEF ApplierStep, TrayReloads, ReadBookmarks, WriteBookmarks
  <2> QED BY <2>1, <2>2
<1>2. FileManagerSpec => []ShortcutsInv
  BY ShortcutsBegin, ShortcutsStep, PTL DEF FileManagerSpec
<1>3. FileManagerSpec => []ShortcutsAgree
  BY <1>2, FittingShortcutsAgree, PTL
<1>4. FileManagerSpec => OnlyOursChange
  BY <1>1, <1>2, PTL DEF FileManagerSpec, OnlyOursChange
<1> QED BY <1>3, <1>4 DEF ShortcutsAreOurs

-----------------------------------------------------------------------------
(***************************************************************************)
(* The parts side by side: each behaves as it does by itself, so what was   *)
(* proved of it holds in every behaviour the instances of MCStores have.    *)
(***************************************************************************)
LEMMA PartsBegin ==
  StoresInit => /\ MergeInit /\ Init /\ DbInit /\ NoticesInit /\ SettingsInit
                /\ FileManagerInit /\ MarksInit /\ RemoteInit /\ TermInit /\ ControllerInit
BY DEF StoresInit, MergeIdle, LockIdle, DbIdle, NoticesIdle, SettingsIdle, FileManagerIdle,
       MarksIdle, RemoteIdle

LEMMA PartsStep ==
  ASSUME [StoresNext]_storeVars
  PROVE  /\ [Evaluate]_mergeVars /\ [Next]_vars /\ [DbNext]_dbVars /\ [NoticesNext]_noticeVars
         /\ [SettingsNext]_setVars /\ [FileManagerNext]_fmVars /\ [MarksNext]_markVars
         /\ [RemoteNext]_remoteVars /\ [TermNext]_termVars /\ [ControllerNext]_ctlVars
<1>1. CASE UNCHANGED storeVars
  BY <1>1 DEF storeVars
<1>2. ASSUME NEW p, Only(p)
      PROVE  /\ p # "merge" => UNCHANGED mergeVars
             /\ p # "lock" => UNCHANGED vars
             /\ p # "database" => UNCHANGED dbVars
             /\ p # "notices" => UNCHANGED noticeVars
             /\ p # "settings" => UNCHANGED setVars
             /\ p # "shortcuts" => UNCHANGED fmVars
             /\ p # "marks" => UNCHANGED markVars
             /\ p # "remote" => UNCHANGED remoteVars
             /\ p # "terminal" => UNCHANGED termVars
             /\ p # "runs" => UNCHANGED ctlVars
  BY <1>2 DEF Only
<1> QED BY <1>1, <1>2 DEF StoresNext

\* In the instances TLC checks side by side, every part begins and steps as its own
\* specification says, or stands still.
THEOREM EachPartIsItself ==
  StoresSpec => /\ MergeSpec /\ Spec /\ DbSpec /\ NoticesSpec /\ SettingsSpec
                /\ FileManagerSpec /\ MarksSpec /\ RemoteSpec /\ TermSpec /\ ControllerSpec
BY PartsBegin, PartsStep, PTL
   DEF StoresSpec, MergeSpec, Spec, DbSpec, NoticesSpec, SettingsSpec, FileManagerSpec, MarksSpec,
       RemoteSpec, TermSpec, ControllerSpec

\* The typing of the merge, the lock, the database, the notices, the config file, the
\* shortcuts, the emblems, the client, the terminal and the Controller's runs.
THEOREM StoresTypeCorrect == StoresSpec => []StoresTypeOK
<1>1. MarksSpec => []MarksTypeOK
  BY MarksAlwaysSettle, PTL
<1>2. TermSpec => []TermTypeOK
  BY TerminalAlwaysAgrees, PTL
<1>3. MergeTypeOK /\ TypeOK /\ DbTypeOK /\ NoticesTypeOK /\ SettingsTypeOK /\ FileManagerTypeOK
         /\ MarksTypeOK /\ RemoteTypeOK /\ TermTypeOK /\ ControllerTypeOK => StoresTypeOK
  BY DEF StoresTypeOK
<1> QED
  BY <1>1, <1>2, <1>3, EachPartIsItself, MergeTypeCorrect, TypeCorrect, DbTypeCorrect,
     NoticesTypeCorrect, SettingsTypeCorrect, FileManagerTypeCorrect, RemoteTypesKept,
     ControllerTypeCorrect, PTL
=============================================================================
