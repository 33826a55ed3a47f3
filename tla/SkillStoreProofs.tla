-------------------------- MODULE SkillStoreProofs --------------------------
(***************************************************************************)
(* Proofs about SkillStore, for any number of processes, skills, versions  *)
(* and files: type correctness, that the recording of an install is atomic *)
(* (RecordIsAtomic), that only what was written is recorded                *)
(* (RecordedIsInstalled), and that a swap keeps the old files until it     *)
(* ends (OldFilesSurvive) and ends with all of one skill (AllOrNothing).   *)
(***************************************************************************)
EXTENDS SkillStore, TLAPS

(* The lock file is used under its lock only; what its holder has read is  *)
(* still all that was recorded; and it is empty while it is rewritten.     *)
LockInv ==
    /\ \A p \in Procs : pc[p] \in Recording \ {"lock"} => lock = p
    /\ \A p \in Procs : pc[p] \in {"truncate", "write"} => mem[p] = recorded
    /\ \A p \in Procs : pc[p] = "write" => entries = [s \in Skills |-> None]
    /\ RecordIsAtomic

Inv == TypeOK /\ LockInv

-----------------------------------------------------------------------------
(* Facts about the operators of the model.                                 *)

(* The contents that the model assigns are contents.                       *)
LEMMA ContentFacts ==
    /\ Empty \in Content
    /\ \A v \in Versions : Whole(v) \in Content /\ PartsOf[v] \subseteq Parts
    /\ \A p \in Procs : Staging(p) \in Places /\ Backup(p) \in Places
    /\ \A s \in Skills : <<"skill", s>> \in Places
BY PartsOfAssumption DEF Empty, Whole, Content, Places, Staging, Backup, Installed

(* Touch only adds processes.                                              *)
LEMMA TouchType ==
    ASSUME NEW p, NEW ds, disturbed \subseteq Procs, Touch(p, ds)
    PROVE  disturbed' \subseteq Procs
BY DEF Touch

(* One entry of a directory is set.                                        *)
LEMMA EntryType ==
    ASSUME NEW d \in Places, NEW x \in Parts, NEW v \in Versions \cup {None},
           content \in [Places -> Content], content' = [content EXCEPT ![d][x] = v]
    PROVE  content' \in [Places -> Content]
BY DEF Content

(* A renamed entry stays an entry.                                         *)
LEMMA RenameType ==
    ASSUME NEW p, NEW x \in Parts, NEW from \in Places, NEW to \in Places,
           content \in [Places -> Content], Rename(p, x, from, to)
    PROVE  content' \in [Places -> Content]
BY DEF Rename, Content

(* Removing directories leaves directories.                                *)
LEMMA RemoveAllType ==
    ASSUME NEW p, NEW ds, content \in [Places -> Content], RemoveAll(p, ds)
    PROVE  content' \in [Places -> Content]
BY ContentFacts DEF RemoveAll

-----------------------------------------------------------------------------
(* Type correctness.                                                       *)

LEMMA TypeStep ==
    ASSUME TypeOK, [Next]_vars
    PROVE  TypeOK'
<1> USE DEF TypeOK, Pcs, Recording, Swapping, Ended, files, call, work, swap, history
<1>1. ASSUME NEW p \in Procs, NEW ss \in SUBSET Skills, NEW v \in Versions, BeginInstall(p, ss, v)
      PROVE  TypeOK'
  BY <1>1, ContentFacts, CommandsAssumption DEF BeginInstall, Begin, Move, Goto
<1>2. ASSUME NEW p \in Procs, NEW d \in Places, NEW s \in Skills, BeginUpdate(p, d, s)
      PROVE  TypeOK'
  BY <1>2, ContentFacts, LatestAssumption DEF BeginUpdate, Begin, Move, Goto
<1>3. ASSUME NEW p \in Procs, NEW s \in Skills, WorkerFails(p, s)
      PROVE  TypeOK'
  BY <1>3 DEF WorkerFails
<1>4. ASSUME NEW p \in Procs, NEW s \in Skills, NEW x \in Parts, WriteFile(p, s, x)
      PROVE  TypeOK'
  <2>1. Target(p, s) \in Places /\ want[p] \in Versions
    BY ContentFacts DEF Target
  <2>2. content' \in [Places -> Content]
    BY <1>4, <2>1, EntryType DEF WriteFile
  <2>3. disturbed' \subseteq Procs
    BY <1>4, TouchType DEF WriteFile
  <2> QED
    BY <1>4, <2>2, <2>3 DEF WriteFile
<1>5. ASSUME NEW p \in Procs, WorkersEnd(p)
      PROVE  TypeOK'
  BY <1>5, TouchType, RemoveAllType DEF WorkersEnd, Move, Goto, Succeeded, RemoveAll
<1>6. ASSUME NEW p \in Procs, AcquireLock(p)
      PROVE  TypeOK'
  BY <1>6 DEF AcquireLock, Move, Goto
<1>7. ASSUME NEW p \in Procs, GiveUpLock(p)
      PROVE  TypeOK'
  BY <1>7 DEF GiveUpLock, NextRecord, AfterRecord, Goto
<1>8. ASSUME NEW p \in Procs, ReadFrom(p)
      PROVE  TypeOK'
  BY <1>8 DEF ReadFrom, Move, Goto
<1>9. ASSUME NEW p \in Procs, Truncate(p)
      PROVE  TypeOK'
  BY <1>9 DEF Truncate, Move, Goto, Entries
<1>10. ASSUME NEW p \in Procs, WriteTo(p)
       PROVE  TypeOK'
  BY <1>10 DEF WriteTo, NextRecord, AfterRecord, Goto, Forget, Entries
<1>11. ASSUME NEW p \in Procs, RecordFails(p)
       PROVE  TypeOK'
  BY <1>11 DEF RecordFails, NextRecord, AfterRecord, Goto, Forget, Tear, Entries
<1>12. ASSUME NEW p \in Procs, MakeBackup(p)
       PROVE  TypeOK'
  BY <1>12 DEF MakeBackup, Move, Goto, Present
<1>13. ASSUME NEW p \in Procs, MakeBackupFails(p)
       PROVE  TypeOK'
  BY <1>13, TouchType, RemoveAllType DEF MakeBackupFails, Move, Goto, RemoveAll
<1>14. ASSUME NEW p \in Procs, NEW x \in Parts, MoveOut(p, x)
       PROVE  TypeOK'
  BY <1>14, TouchType, RenameType, ContentFacts DEF MoveOut, Rename
<1>15. ASSUME NEW p \in Procs, ReadStaging(p)
       PROVE  TypeOK'
  BY <1>15 DEF ReadStaging, Move, Goto, Present
<1>16. ASSUME NEW p \in Procs, NEW x \in Parts, MoveIn(p, x)
       PROVE  TypeOK'
  BY <1>16, TouchType, RenameType, ContentFacts DEF MoveIn, Rename
<1>17. ASSUME NEW p \in Procs, Restore(p)
       PROVE  TypeOK'
  BY <1>17 DEF Restore, Goto
<1>18. ASSUME NEW p \in Procs, NEW x \in Parts, RemoveIn(p, x)
       PROVE  TypeOK'
  BY <1>18, TouchType, EntryType DEF RemoveIn
<1>19. ASSUME NEW p \in Procs, RemovedIn(p)
       PROVE  TypeOK'
  BY <1>19 DEF RemovedIn, Move, Goto
<1>20. ASSUME NEW p \in Procs, NEW x \in Parts, MoveBack(p, x)
       PROVE  TypeOK'
  BY <1>20, TouchType, RenameType, ContentFacts DEF MoveBack, Rename
<1>21. ASSUME NEW p \in Procs, DropBackup(p)
       PROVE  TypeOK'
  BY <1>21, TouchType, RemoveAllType DEF DropBackup, Goto, RemoveAll, LoopEnds
<1>22. ASSUME NEW p \in Procs, Kill(p)
       PROVE  TypeOK'
  BY <1>22 DEF Kill, Goto, Tear, Forget, Entries
<1>23. CASE UNCHANGED vars
  BY <1>23 DEF vars
<1> QED
  BY <1>1, <1>2, <1>3, <1>4, <1>5, <1>6, <1>7, <1>8, <1>9, <1>10, <1>11, <1>12, <1>13, <1>14, <1>15, <1>16, <1>17, <1>18, <1>19, <1>20, <1>21, <1>22, <1>23 DEF Next, Start, Step

(* TypeOK holds of every behaviour.                                        *)
THEOREM TypeCorrect == Spec => []TypeOK
<1>1. Init => TypeOK
  <2> SUFFICES ASSUME Init PROVE TypeOK
    OBVIOUS
  <2>1. ASSUME NEW d \in Places, d \in Installed, entries[d[2]] # None
        PROVE  Whole(entries[d[2]]) \in Content
    BY <2>1, ContentFacts DEF Init, Installed, Entries
  <2>2. content \in [Places -> Content]
    BY <2>1, ContentFacts DEF Init
  <2> QED
    BY <2>2, ContentFacts, LatestAssumption DEF Init, TypeOK, Pcs, Entries
<1>2. TypeOK /\ [Next]_vars => TypeOK'
  BY TypeStep
<1> QED
  BY <1>1, <1>2, PTL DEF Spec

-----------------------------------------------------------------------------
(* The recording of an install.                                            *)

(* What neither writes the lock file nor is its holder leaves LockInv.     *)
LEMMA LockFrame ==
    ASSUME TypeOK, LockInv, NEW p \in Procs,
           UNCHANGED <<entries, lock, recorded, mem>>,
           pc[p] \notin Recording \ {"lock"},
           NEW to \in Pcs \ (Recording \ {"lock"}), Goto(p, to)
    PROVE  LockInv'
BY DEF TypeOK, LockInv, RecordIsAtomic, Goto, Recording, Pcs

(* Who leaves the recording of a skill is at none of its steps.            *)
LEMMA AfterRecordFacts ==
    ASSUME NEW p \in Procs, NEW s \in Skills, TypeOK, NextRecord(p, s)
    PROVE  \E to \in Pcs \ (Recording \ {"lock"}) : Goto(p, to)
BY DEF NextRecord, AfterRecord, Pcs, Recording, Ended

LEMMA LockStep ==
    ASSUME Inv, [Next]_vars
    PROVE  LockInv'
<1> USE DEF Inv
<1> DEFINE Quiet == Pcs \ (Recording \ {"lock"})
<1>0. {"install", "lock", "swap", "done", "failed", "dead"} \cup Swapping \subseteq Quiet
  BY DEF Pcs, Recording, Swapping, Ended
<1>1. ASSUME NEW p \in Procs, Start(p)
      PROVE  LockInv'
  BY <1>0, <1>1, LockFrame DEF Start, BeginInstall, BeginUpdate, Begin, Move, files, Recording
<1>2. ASSUME NEW p \in Procs, NEW s \in Skills,
             WorkerFails(p, s) \/ \E x \in Parts : WriteFile(p, s, x)
      PROVE  LockInv'
  BY <1>2 DEF WorkerFails, WriteFile, LockInv, RecordIsAtomic, files, history
<1>3. ASSUME NEW p \in Procs, WorkersEnd(p)
      PROVE  LockInv'
  BY <1>0, <1>3, LockFrame DEF WorkersEnd, Move, Recording
<1>4. ASSUME NEW p \in Procs, AcquireLock(p)
      PROVE  LockInv'
  BY <1>4, NoProcAssumption
  DEF AcquireLock, Move, Goto, LockInv, RecordIsAtomic, TypeOK, Recording, work, history
<1>5. ASSUME NEW p \in Procs, GiveUpLock(p)
      PROVE  LockInv'
  <2>1. PICK s \in Skills : NextRecord(p, s)
    BY <1>5 DEF GiveUpLock, TypeOK
  <2>2. PICK to \in Quiet : Goto(p, to)
    BY <2>1, AfterRecordFacts
  <2> QED
    BY <1>5, <2>2, LockFrame DEF GiveUpLock, files, history, Recording
<1>6. ASSUME NEW p \in Procs, ReadFrom(p)
      PROVE  LockInv'
  <2>1. \A q \in Procs : pc[q] # "write"
    BY <1>6 DEF ReadFrom, Move, LockInv, TypeOK, Recording
  <2>2. entries = recorded
    BY <2>1 DEF LockInv, RecordIsAtomic
  <2> QED
    BY <1>6, <2>2
    DEF ReadFrom, Move, Goto, LockInv, RecordIsAtomic, TypeOK, Recording, files, history
<1>7. ASSUME NEW p \in Procs, Truncate(p)
      PROVE  LockInv'
  BY <1>7
  DEF Truncate, Move, Goto, LockInv, RecordIsAtomic, TypeOK, Recording, work, history
<1>8. ASSUME NEW p \in Procs, WriteTo(p)
      PROVE  LockInv'
  <2>1. PICK s \in Skills : /\ entries' = [mem[p] EXCEPT ![s] = want[p]]
                            /\ recorded' = [recorded EXCEPT ![s] = want[p]]
                            /\ NextRecord(p, s)
    BY <1>8 DEF WriteTo, TypeOK
  <2>2. PICK to \in Quiet : Goto(p, to)
    BY <2>1, AfterRecordFacts
  <2>3. lock = p /\ entries' = recorded'
    BY <1>8, <2>1 DEF WriteTo, LockInv, Recording
  <2>4. \A q \in Procs : pc'[q] \notin Recording \ {"lock"}
    BY <2>2, <2>3, <1>0 DEF Goto, LockInv, TypeOK
  <2> QED
    BY <2>3, <2>4 DEF LockInv, RecordIsAtomic, Recording
<1>9. ASSUME NEW p \in Procs, RecordFails(p)
      PROVE  LockInv'
  <2>1. PICK s \in Skills : NextRecord(p, s)
    BY <1>9 DEF RecordFails, TypeOK
  <2>2. PICK to \in Quiet : Goto(p, to)
    BY <2>1, AfterRecordFacts
  <2>3. lock = p
    BY <1>9 DEF RecordFails, LockInv
  <2>4. \A q \in Procs : pc'[q] \notin Recording \ {"lock"}
    BY <2>2, <2>3, <1>0 DEF Goto, LockInv, TypeOK
  <2>5. entries' = recorded'
    BY <1>9, <2>3 DEF RecordFails, Tear, LockInv, RecordIsAtomic, Recording
  <2> QED
    BY <2>4, <2>5 DEF LockInv, RecordIsAtomic, Recording
<1>10. ASSUME NEW p \in Procs,
              \/ MakeBackup(p) \/ MakeBackupFails(p) \/ ReadStaging(p)
              \/ Restore(p) \/ RemovedIn(p) \/ DropBackup(p)
       PROVE  LockInv'
  BY <1>0, <1>10, LockFrame
  DEF MakeBackup, MakeBackupFails, ReadStaging, Restore, RemovedIn, DropBackup, LoopEnds,
      Move, Recording, Swapping, files, work, history
<1>11. ASSUME NEW p \in Procs, NEW x \in Parts,
              MoveOut(p, x) \/ MoveIn(p, x) \/ RemoveIn(p, x) \/ MoveBack(p, x)
       PROVE  LockInv'
  BY <1>11 DEF MoveOut, MoveIn, RemoveIn, MoveBack, LockInv, RecordIsAtomic, work
<1>12. ASSUME NEW p \in Procs, Kill(p)
       PROVE  LockInv'
  <2>1. Goto(p, "dead") /\ UNCHANGED entries /\ \A q \in Procs \ {p} : mem'[q] = mem[q]
    BY <1>12 DEF Kill, Forget, TypeOK
  <2>2. CASE pc[p] = "write"
    <3>1. lock = p /\ entries' = recorded'
      BY <1>12, <2>1, <2>2 DEF Kill, Tear, LockInv, Recording
    <3>2. \A q \in Procs : pc'[q] \notin Recording \ {"lock"}
      BY <2>1, <3>1 DEF Goto, LockInv, TypeOK, Recording
    <3> QED
      BY <3>1, <3>2 DEF LockInv, RecordIsAtomic, Recording
  <2>3. CASE pc[p] # "write"
    <3>1. recorded' = recorded
      BY <1>12, <2>3 DEF Kill, Tear
    <3>2. \A q \in Procs : q # p => pc'[q] = pc[q]
      BY <2>1 DEF Goto, TypeOK
    <3>3. pc'[p] = "dead"
      BY <2>1 DEF Goto, TypeOK
    <3>4. \A q \in Procs : pc'[q] \in Recording \ {"lock"} => lock' = q
      BY <1>12, <3>2, <3>3 DEF Kill, LockInv, Recording
    <3> QED
      BY <2>1, <2>3, <3>1, <3>2, <3>3, <3>4 DEF LockInv, RecordIsAtomic, Recording
  <2> QED
    BY <2>2, <2>3
<1>13. CASE UNCHANGED vars
  BY <1>13 DEF vars, files, work, history, LockInv, RecordIsAtomic
<1> QED
  BY <1>1, <1>2, <1>3, <1>4, <1>5, <1>6, <1>7, <1>8, <1>9, <1>10, <1>11, <1>12, <1>13
  DEF Next, Step

(* RecordIsAtomic: no recording is lost to another one (RecordInstall).    *)
THEOREM RecordingIsAtomic == Spec => []RecordIsAtomic
<1>1. Init => LockInv
  BY DEF Init, LockInv, RecordIsAtomic, Recording
<1>2. Inv /\ [Next]_vars => LockInv'
  BY LockStep
<1>3. LockInv => RecordIsAtomic
  BY DEF LockInv
<1>4. TypeOK /\ LockInv => Inv
  BY DEF Inv
<1> QED
  BY <1>1, <1>2, <1>3, <1>4, TypeCorrect, PTL DEF Spec

-----------------------------------------------------------------------------
(* What is recorded.                                                       *)

(* A skill waits to be recorded only when all its files are written.       *)
WaitingInv ==
    \A p \in Procs :
        /\ pc[p] \in {"idle", "install"} => unrecorded[p] = {}
        /\ \A s \in unrecorded[p] : s \in skills[p] /\ left[p][s] = {}

(* After a recording step at most one skill waits less.                    *)
LEMMA NextRecordFacts ==
    ASSUME TypeOK, NEW p \in Procs, NEW s \in Skills, NextRecord(p, s)
    PROVE  /\ \A q \in Procs : q # p => pc'[q] = pc[q] /\ unrecorded'[q] = unrecorded[q]
           /\ pc'[p] \notin {"idle", "install"}
           /\ unrecorded'[p] \subseteq unrecorded[p]
BY DEF NextRecord, AfterRecord, Goto, TypeOK

LEMMA WaitingStep ==
    ASSUME TypeOK, WaitingInv, [Next]_vars
    PROVE  WaitingInv'
<1> USE DEF WaitingInv
<1>1. ASSUME NEW p \in Procs, Start(p)
      PROVE  WaitingInv'
  <2>1. pc[p] = "idle" /\ pc'[p] = "install" /\ UNCHANGED unrecorded
    BY <1>1 DEF Start, BeginInstall, BeginUpdate, Begin, Move, Goto, TypeOK
  <2>2. \A q \in Procs : q # p => /\ pc'[q] = pc[q] /\ skills'[q] = skills[q]
                                  /\ left'[q] = left[q]
    BY <1>1 DEF Start, BeginInstall, BeginUpdate, Begin, Move, Goto, TypeOK
  <2> QED
    BY <2>1, <2>2
<1>2. ASSUME NEW p \in Procs, NEW s \in Skills, NEW x \in Parts, WriteFile(p, s, x)
      PROVE  WaitingInv'
  <2>1. pc[p] = "install" /\ UNCHANGED <<pc, skills, unrecorded>>
    BY <1>2 DEF WriteFile, Writing, call
  <2>2. \A q \in Procs : q # p => left'[q] = left[q]
    BY <1>2 DEF WriteFile, TypeOK
  <2> QED
    BY <2>1, <2>2
<1>3. ASSUME NEW p \in Procs, WorkersEnd(p)
      PROVE  WaitingInv'
  <2>1. \A s \in Succeeded(p) : s \in skills[p] /\ left[p][s] = {}
    BY <1>3 DEF WorkersEnd, Succeeded
  <2>2. /\ unrecorded' = [unrecorded EXCEPT ![p] = Succeeded(p)]
        /\ UNCHANGED <<skills, left>> /\ pc'[p] \notin {"idle", "install"}
        /\ \A q \in Procs : q # p => pc'[q] = pc[q]
    BY <1>3 DEF WorkersEnd, Move, Goto, TypeOK, call
  <2> QED
    BY <2>1, <2>2 DEF TypeOK
<1>4. ASSUME NEW p \in Procs, GiveUpLock(p) \/ WriteTo(p) \/ RecordFails(p)
      PROVE  WaitingInv'
  <2>1. PICK s \in Skills : NextRecord(p, s)
    BY <1>4 DEF GiveUpLock, WriteTo, RecordFails, TypeOK
  <2>2. UNCHANGED <<skills, left>>
    BY <1>4 DEF GiveUpLock, WriteTo, RecordFails, call
  <2> QED
    BY <2>1, <2>2, NextRecordFacts
<1>5. ASSUME NEW p \in Procs,
             \/ AcquireLock(p) \/ ReadFrom(p) \/ Truncate(p) \/ MakeBackup(p)
             \/ MakeBackupFails(p) \/ ReadStaging(p) \/ Restore(p) \/ RemovedIn(p)
             \/ DropBackup(p)
      PROVE  WaitingInv'
  <2>1. /\ UNCHANGED <<skills, left, unrecorded>> /\ pc'[p] \notin {"idle", "install"}
        /\ \A q \in Procs : q # p => pc'[q] = pc[q]
    BY <1>5 DEF AcquireLock, ReadFrom, Truncate, MakeBackup, MakeBackupFails, ReadStaging,
                Restore, RemovedIn, DropBackup, Move, Goto, TypeOK, call, work
  <2> QED
    BY <2>1
<1>6. ASSUME NEW p \in Procs, NEW x \in Parts,
             MoveOut(p, x) \/ MoveIn(p, x) \/ RemoveIn(p, x) \/ MoveBack(p, x)
      PROVE  WaitingInv'
  BY <1>6 DEF MoveOut, MoveIn, RemoveIn, MoveBack, call, work
<1>7. ASSUME NEW p \in Procs, Kill(p)
      PROVE  WaitingInv'
  <2>1. /\ unrecorded'[p] = {} /\ UNCHANGED skills
        /\ \A q \in Procs : q # p => /\ pc'[q] = pc[q] /\ unrecorded'[q] = unrecorded[q]
                                     /\ left'[q] = left[q]
    BY <1>7 DEF Kill, Goto, TypeOK, call
  <2> QED
    BY <2>1
<1>8. ASSUME NEW p \in Procs, NEW s \in Skills, WorkerFails(p, s)
      PROVE  WaitingInv'
  BY <1>8 DEF WorkerFails, call
<1>9. CASE UNCHANGED vars
  BY <1>9 DEF vars, call, work
<1> QED
  BY <1>1, <1>2, <1>3, <1>4, <1>5, <1>6, <1>7, <1>8, <1>9 DEF Next, Step

(* RecordedIsInstalled: only what a process has wholly written is recorded *)
(* (Install).                                                              *)
THEOREM RecordedSkillIsInstalled == Spec => RecordedIsInstalled
<1> DEFINE Recorded ==
      \A s \in Skills : recorded'[s] \notin {None, recorded[s]} =>
          \E p \in Procs : s \in skills[p] /\ left[p][s] = {} /\ want[p] = recorded'[s]
<1>1. Init => WaitingInv
  BY DEF Init, WaitingInv
<1>2. TypeOK /\ WaitingInv /\ [Next]_vars => WaitingInv'
  BY WaitingStep
<1>3. TypeOK /\ WaitingInv /\ [Next]_vars => [Recorded]_vars
  <2> SUFFICES ASSUME TypeOK, WaitingInv, Next, ~UNCHANGED recorded
               PROVE  Recorded
    BY DEF vars, history, TypeOK, Entries
  <2>0. PICK p \in Procs : Start(p) \/ Step(p) \/ Kill(p)
    BY DEF Next
  <2>1. WriteTo(p) \/ RecordFails(p) \/ Kill(p)
    <3>1. ~Start(p)
      BY DEF Start, BeginInstall, BeginUpdate, Begin
    <3>2. \A x \in Parts : ~MoveOut(p, x) /\ ~MoveIn(p, x) /\ ~RemoveIn(p, x) /\ ~MoveBack(p, x)
      BY DEF MoveOut, MoveIn, RemoveIn, MoveBack
    <3>3. /\ ~WorkersEnd(p) /\ ~AcquireLock(p) /\ ~GiveUpLock(p) /\ ~ReadFrom(p)
          /\ ~Truncate(p) /\ ~MakeBackup(p) /\ ~MakeBackupFails(p) /\ ~ReadStaging(p)
          /\ ~Restore(p) /\ ~RemovedIn(p) /\ ~DropBackup(p)
      BY DEF WorkersEnd, AcquireLock, GiveUpLock, ReadFrom, Truncate, MakeBackup,
             MakeBackupFails, ReadStaging, Restore, RemovedIn, DropBackup, history
    <3>4. \A s \in Skills : ~WorkerFails(p, s) /\ \A x \in Parts : ~WriteFile(p, s, x)
      BY DEF WorkerFails, WriteFile, history
    <3> QED
      BY <2>0, <3>1, <3>2, <3>3, <3>4 DEF Step
  <2>2. CASE WriteTo(p)
    <3>1. PICK s \in unrecorded[p] : recorded' = [recorded EXCEPT ![s] = want[p]]
      BY <2>2 DEF WriteTo
    <3>2. s \in skills[p] /\ left[p][s] = {} /\ want[p] = recorded'[s]
      BY <3>1 DEF WaitingInv, TypeOK, Entries
    <3>3. \A r \in Skills : r # s => recorded'[r] = recorded[r]
      BY <3>1 DEF TypeOK, Entries
    <3> QED
      BY <3>2, <3>3
  <2>3. CASE RecordFails(p) \/ Kill(p)
    BY <2>3 DEF RecordFails, Kill, Tear, TypeOK, Entries
  <2> QED
    BY <2>1, <2>2, <2>3
<1> QED
  BY <1>1, <1>2, <1>3, TypeCorrect, PTL DEF Spec, RecordedIsInstalled

-----------------------------------------------------------------------------
(* The swap.                                                               *)

(* Until a swap begins, nothing of it is there.                            *)
Unbegun == {"idle", "install", "swap"} \cup Recording

(* Whose directories a process works in: an update those of a skill or of  *)
(* another update, and its own; nobody those of a process that does not    *)
(* update.                                                                 *)
PlaceOf(p) ==
    command[p] = "update" =>
        \/ place[p] \in Installed
        \/ \E q \in Procs \ {p} : place[p] \in {Staging(q), Backup(q)} /\ command[q] = "update"

FreshOf(p) ==
    /\ command[p] # "update" => content[Staging(p)] = Empty /\ content[Backup(p)] = Empty
    /\ pc[p] \in {"swap"} \cup Swapping => command[p] = "update"
    /\ pc[p] = "idle" => command[p] = "none"
    /\ pc[p] \in Unbegun => before[p] = Empty /\ movedOut[p] = {} /\ movedIn[p] = {}

(* What the backup directory holds, what the staging directory holds.      *)
BackedUp(p, X) ==
    \A x \in Parts : content[Backup(p)][x] = IF x \in X THEN before[p][x] ELSE None

Staged(p, X) ==
    \A x \in Parts : content[Staging(p)][x] = IF x \in X THEN want[p] ELSE None

StagingOf(p) ==
    /\ pc[p] = "install" =>
          \E s \in Skills : /\ skills[p] = {s} /\ left[p][s] \subseteq PartsOf[want[p]]
                            /\ Staged(p, PartsOf[want[p]] \ left[p][s])
    /\ pc[p] \in Recording \cup {"swap"} => Staged(p, PartsOf[want[p]])
    /\ pc[p] \in {"install", "swap"} \cup Recording => content[Backup(p)] = Empty

OutOf(p) ==
    pc[p] = "moveOut" =>
        /\ Staged(p, PartsOf[want[p]]) /\ BackedUp(p, movedOut[p]) /\ movedIn[p] = {}
        /\ toMove[p] \cap movedOut[p] = {}
        /\ \A x \in Parts : before[p][x] # None <=> x \in toMove[p] \cup movedOut[p]
        /\ \A x \in Parts : content[place[p]][x] = IF x \in movedOut[p] THEN None ELSE before[p][x]

InOf(p) ==
    pc[p] = "moveIn" =>
        /\ Staged(p, toMove[p]) /\ BackedUp(p, movedOut[p])
        /\ toMove[p] \cap movedIn[p] = {} /\ toMove[p] \cup movedIn[p] = PartsOf[want[p]]
        /\ \A x \in Parts : before[p][x] # None <=> x \in movedOut[p]
        /\ \A x \in Parts : content[place[p]][x] = IF x \in movedIn[p] THEN want[p] ELSE None

RemoveOf(p) ==
    pc[p] = "removeIn" =>
        /\ BackedUp(p, movedOut[p])
        /\ \A x \in movedOut[p] : before[p][x] # None
        /\ \A x \in toMove[p] : x \in movedOut[p] \/ before[p][x] = None
        /\ \A x \in Parts \ toMove[p] :
               content[place[p]][x] = IF x \in movedOut[p] THEN None ELSE before[p][x]

BackOf(p) ==
    pc[p] = "moveBack" =>
        /\ BackedUp(p, toMove[p])
        /\ \A x \in Parts : content[place[p]][x] = IF x \in toMove[p] THEN None ELSE before[p][x]

DeadOf(p) ==
    pc[p] = "dead" => \A x \in Parts : before[p][x] # None =>
        before[p][x] \in {content[place[p]][x], content[Backup(p)][x]}

(* A swap at each of its points, if nobody disturbs it.                    *)
SwapOf(p) == StagingOf(p) /\ OutOf(p) /\ InOf(p) /\ RemoveOf(p) /\ BackOf(p) /\ DeadOf(p)

SwapInv ==
    \A p \in Procs :
        /\ PlaceOf(p) /\ FreshOf(p)
        /\ command[p] = "update" /\ p \notin disturbed \cup unrestored => SwapOf(p)


(* The three directories of an update differ, and are not those of others  *)
(* that do not update.                                                     *)
LEMMA DirsFacts ==
    ASSUME NEW p \in Procs, PlaceOf(p), command[p] = "update"
    PROVE  /\ place[p] # Staging(p) /\ place[p] # Backup(p) /\ Staging(p) # Backup(p)
           /\ \A q \in Procs \ {p} : command[q] # "update" =>
                  Staging(q) \notin Dirs(p) /\ Backup(q) \notin Dirs(p)
<1>1. \A q, r \in Procs : /\ Staging(q) # Backup(r)
                          /\ Staging(q) = Staging(r) => q = r
                          /\ Backup(q) = Backup(r) => q = r
  BY DEF Staging, Backup
<1>2. \A q \in Procs : Staging(q) \notin Installed /\ Backup(q) \notin Installed
  BY DEF Staging, Backup, Installed
<1>3. CASE place[p] \in Installed
  BY <1>1, <1>2, <1>3 DEF Dirs
<1>4. CASE place[p] \notin Installed
  <2>1. PICK r \in Procs \ {p} : place[p] \in {Staging(r), Backup(r)} /\ command[r] = "update"
    BY <1>4 DEF PlaceOf
  <2> QED
    BY <1>1, <2>1 DEF Dirs
<1> QED
  BY <1>3, <1>4

(* What a rename does.                                                     *)
LEMMA RenameEffect ==
    ASSUME TypeOK, NEW p, NEW x \in Parts, NEW from \in Places, NEW to \in Places, from # to,
           Rename(p, x, from, to)
    PROVE  /\ content'[to][x] = content[from][x] /\ content'[from][x] = None
           /\ \A y \in Parts \ {x} : /\ content'[to][y] = content[to][y]
                                     /\ content'[from][y] = content[from][y]
           /\ \A d \in Places \ {from, to} : content'[d] = content[d]
BY DEF Rename, TypeOK, Content

(* What setting one entry of a directory does.                             *)
LEMMA EntryEffect ==
    ASSUME TypeOK, NEW d \in Places, NEW x \in Parts, NEW v,
           content' = [content EXCEPT ![d][x] = v]
    PROVE  /\ content'[d][x] = v
           /\ \A y \in Parts \ {x} : content'[d][y] = content[d][y]
           /\ \A e \in Places \ {d} : content'[e] = content[e]
BY DEF TypeOK, Content

(* What a process does to the directories of others: it works in its own   *)
(* ones, or writes to a skill.                                             *)
Outside(q) ==
    \A p \in Procs \ {q} :
        /\ /\ Updating(p) /\ p \notin disturbed'
           => p \notin disturbed /\ \A d \in Dirs(p) : content'[d] = content[d]
        /\ command[p] # "update" => /\ content'[Staging(p)] = content[Staging(p)]
                                    /\ content'[Backup(p)] = content[Backup(p)]

LEMMA OutsideFacts ==
    ASSUME TypeOK, SwapInv, NEW q \in Procs, NEW ds, Touch(q, ds),
           (ds \subseteq Dirs(q) /\ command[q] = "update") \/ ds \subseteq Installed,
           \A d \in Places \ ds : content'[d] = content[d]
    PROVE  Outside(q)
<1> SUFFICES ASSUME NEW p \in Procs, p # q
             PROVE  /\ /\ Updating(p) /\ p \notin disturbed'
                       => p \notin disturbed /\ \A d \in Dirs(p) : content'[d] = content[d]
                    /\ command[p] # "update" => /\ content'[Staging(p)] = content[Staging(p)]
                                                /\ content'[Backup(p)] = content[Backup(p)]
  BY DEF Outside
<1>1. Dirs(p) \subseteq Places
  BY ContentFacts DEF Dirs, TypeOK
<1>2. Updating(p) /\ p \notin disturbed' => p \notin disturbed /\ Dirs(p) \cap ds = {}
  BY DEF Touch
<1>3. command[p] # "update" => Staging(p) \notin ds /\ Backup(p) \notin ds
  <2>1. CASE ds \subseteq Installed
    BY <2>1 DEF Installed, Staging, Backup
  <2>2. CASE ds \subseteq Dirs(q) /\ command[q] = "update"
    BY <2>2, DirsFacts DEF SwapInv
  <2> QED
    BY <2>1, <2>2
<1> QED
  BY <1>1, <1>2, <1>3, ContentFacts

(* The local state of the other processes stays.                           *)
Local(p) == <<pc[p], command[p], skills[p], want[p], place[p], left[p],
              toMove[p], movedOut[p], movedIn[p], before[p]>>

LEMMA LocalFacts ==
    ASSUME TypeOK, NEW q \in Procs, Start(q) \/ Step(q) \/ Kill(q)
    PROVE  \A p \in Procs \ {q} : /\ Local(p)' = Local(p)
                                  /\ p \notin unrestored' => p \notin unrestored
<1> USE DEF TypeOK, Local, files, call, work, swap, history
<1>1. ASSUME Start(q)
      PROVE  \A p \in Procs \ {q} : Local(p)' = Local(p) /\ UNCHANGED unrestored
  BY <1>1 DEF Start, BeginInstall, BeginUpdate, Begin, Move, Goto
<1>2. ASSUME NEW s \in Skills, WorkerFails(q, s) \/ \E x \in Parts : WriteFile(q, s, x)
      PROVE  \A p \in Procs \ {q} : Local(p)' = Local(p) /\ UNCHANGED unrestored
  BY <1>2 DEF WorkerFails, WriteFile
<1>3. ASSUME WorkersEnd(q) \/ AcquireLock(q) \/ ReadFrom(q) \/ Truncate(q)
      PROVE  \A p \in Procs \ {q} : Local(p)' = Local(p) /\ UNCHANGED unrestored
  BY <1>3 DEF WorkersEnd, AcquireLock, ReadFrom, Truncate, Move, Goto
<1>4. ASSUME GiveUpLock(q) \/ WriteTo(q) \/ RecordFails(q)
      PROVE  \A p \in Procs \ {q} : Local(p)' = Local(p) /\ UNCHANGED unrestored
  BY <1>4 DEF GiveUpLock, WriteTo, RecordFails, NextRecord, Goto
<1>5. ASSUME \/ MakeBackup(q) \/ MakeBackupFails(q) \/ ReadStaging(q)
             \/ Restore(q) \/ RemovedIn(q) \/ DropBackup(q)
      PROVE  \A p \in Procs \ {q} : Local(p)' = Local(p) /\ UNCHANGED unrestored
  BY <1>5 DEF MakeBackup, MakeBackupFails, ReadStaging, Restore, RemovedIn, DropBackup, Move, Goto
<1>6. ASSUME NEW x \in Parts,
             MoveOut(q, x) \/ MoveIn(q, x) \/ RemoveIn(q, x) \/ MoveBack(q, x)
      PROVE  \A p \in Procs \ {q} : /\ Local(p)' = Local(p)
                                    /\ p \notin unrestored' => p \notin unrestored
  BY <1>6 DEF MoveOut, MoveIn, RemoveIn, MoveBack
<1>7. ASSUME Kill(q)
      PROVE  \A p \in Procs \ {q} : Local(p)' = Local(p) /\ UNCHANGED unrestored
  BY <1>7 DEF Kill, Goto
<1> QED
  BY <1>1, <1>2, <1>3, <1>4, <1>5, <1>6, <1>7 DEF Step

(* Every step leaves the directories of others alone, or disturbs them.    *)
LEMMA OutsideStep ==
    ASSUME TypeOK, SwapInv, NEW q \in Procs, Start(q) \/ Step(q) \/ Kill(q)
    PROVE  Outside(q)
<1>0. /\ place[q] \in Places /\ Staging(q) \in Places /\ Backup(q) \in Places
      /\ PlaceOf(q) /\ FreshOf(q)
  BY ContentFacts DEF TypeOK, SwapInv
<1>1. ASSUME UNCHANGED <<content, disturbed>>
      PROVE  Outside(q)
  BY <1>1 DEF Outside
<1>2. ASSUME NEW ds \in SUBSET Dirs(q), RemoveAll(q, ds), command[q] = "update"
      PROVE  Outside(q)
  BY <1>2, OutsideFacts DEF RemoveAll
<1>3. ASSUME NEW x \in Parts, NEW from \in Dirs(q), NEW to \in Dirs(q), from # to,
             Rename(q, x, from, to), command[q] = "update"
      PROVE  Outside(q)
  <2>1. from \in Places /\ to \in Places
    BY <1>0 DEF Dirs
  <2>2. \A d \in Places \ {from, to} : content'[d] = content[d]
    BY <1>3, <2>1, RenameEffect
  <2>3. Touch(q, {from, to})
    BY <1>3 DEF Rename
  <2> QED
    BY <1>3, <2>2, <2>3, OutsideFacts
<1>4. ASSUME NEW s \in Skills, NEW x \in Parts, WriteFile(q, s, x)
      PROVE  Outside(q)
  <2>1. /\ content' = [content EXCEPT ![Target(q, s)][x] = want[q]]
        /\ Touch(q, {Target(q, s)})
    BY <1>4 DEF WriteFile
  <2>2. \/ Target(q, s) \in Dirs(q) /\ command[q] = "update"
        \/ Target(q, s) \in Installed
    BY DEF Target, Dirs, Installed
  <2>3. Target(q, s) \in Places
    BY ContentFacts DEF Target
  <2>4. \A d \in Places \ {Target(q, s)} : content'[d] = content[d]
    BY <2>1, <2>3, EntryEffect DEF TypeOK
  <2> QED
    BY <2>1, <2>2, <2>4, OutsideFacts
<1>5. ASSUME WorkersEnd(q)
      PROVE  Outside(q)
  BY <1>1, <1>2, <1>5 DEF WorkersEnd, Dirs
<1>6. ASSUME MakeBackupFails(q) \/ DropBackup(q)
      PROVE  Outside(q)
  <2>1. command[q] = "update"
    BY <1>0, <1>6 DEF MakeBackupFails, DropBackup, LoopEnds, Move, FreshOf, Swapping
  <2> QED
    BY <1>2, <1>6, <2>1 DEF MakeBackupFails, DropBackup, Dirs
<1>7. ASSUME NEW x \in Parts,
             MoveOut(q, x) \/ MoveIn(q, x) \/ RemoveIn(q, x) \/ MoveBack(q, x)
      PROVE  Outside(q)
  <2>1. command[q] = "update"
    BY <1>0, <1>7 DEF MoveOut, MoveIn, RemoveIn, MoveBack, FreshOf, Swapping
  <2>2. {place[q], Staging(q), Backup(q)} \subseteq Dirs(q)
    BY DEF Dirs
  <2>3. place[q] # Staging(q) /\ place[q] # Backup(q)
    BY <1>0, <2>1, DirsFacts
  <2>4. CASE MoveOut(q, x)
    BY <1>3, <2>1, <2>2, <2>3, <2>4 DEF MoveOut
  <2>5. CASE MoveIn(q, x)
    BY <1>3, <2>1, <2>2, <2>3, <2>5 DEF MoveIn
  <2>6. CASE MoveBack(q, x)
    <3>1. CASE Rename(q, x, Backup(q), place[q])
      BY <1>3, <2>1, <2>2, <2>3, <3>1
    <3> QED
      BY <1>1, <2>6, <3>1 DEF MoveBack
  <2>7. CASE RemoveIn(q, x)
    <3>1. CASE content' = [content EXCEPT ![place[q]][x] = None] /\ Touch(q, {place[q]})
      <4>1. \A d \in Places \ {place[q]} : content'[d] = content[d]
        BY <1>0, <3>1, EntryEffect DEF TypeOK
      <4> QED
        BY <2>1, <2>2, <3>1, <4>1, OutsideFacts
    <3> QED
      BY <1>1, <2>7, <3>1 DEF RemoveIn
  <2> QED
    BY <1>7, <2>4, <2>5, <2>6, <2>7
<1>8. ASSUME \/ Start(q) \/ \E s \in Skills : WorkerFails(q, s)
             \/ AcquireLock(q) \/ GiveUpLock(q) \/ ReadFrom(q) \/ Truncate(q) \/ WriteTo(q)
             \/ RecordFails(q) \/ MakeBackup(q) \/ ReadStaging(q) \/ Restore(q) \/ RemovedIn(q)
             \/ Kill(q)
      PROVE  UNCHANGED <<content, disturbed>>
  BY <1>8 DEF Start, BeginInstall, BeginUpdate, Begin, WorkerFails, AcquireLock, GiveUpLock,
              ReadFrom, Truncate, WriteTo, RecordFails, MakeBackup, ReadStaging, Restore,
              RemovedIn, Kill, files, history
<1> QED
  BY <1>1, <1>4, <1>5, <1>6, <1>7, <1>8 DEF Step

(* A process and its directories: PlaceOf and FreshOf after its own step.  *)
LEMMA OwnPlace ==
    ASSUME TypeOK, SwapInv, NEW q \in Procs, Start(q) \/ Step(q) \/ Kill(q)
    PROVE  PlaceOf(q)' /\ \A p \in Procs : command[p] = "update" => command'[p] = "update"
<1> USE DEF TypeOK, files, call, work, swap, history
<1>0. FreshOf(q) /\ PlaceOf(q)
  BY DEF SwapInv
<1>1. ASSUME UNCHANGED <<command, place>>
      PROVE  PlaceOf(q)'
  BY <1>0, <1>1 DEF PlaceOf
<1>2. ASSUME NEW ss \in SUBSET Skills, NEW v \in Versions, BeginInstall(q, ss, v)
      PROVE  PlaceOf(q)' /\ \A p \in Procs : command[p] = "update" => command'[p] = "update"
  BY <1>0, <1>2 DEF BeginInstall, Begin, Move, FreshOf, PlaceOf
<1>3. ASSUME NEW d \in Places, NEW s \in Skills, BeginUpdate(q, d, s)
      PROVE  PlaceOf(q)' /\ \A p \in Procs : command[p] = "update" => command'[p] = "update"
  <2>1. /\ command[q] = "none" /\ place'[q] = d
        /\ \A p \in Procs \ {q} : command'[p] = command[p]
    BY <1>0, <1>3 DEF BeginUpdate, Begin, Move, FreshOf
  <2>2. d \in Installed \/ \E r \in Procs \ {q} : /\ d \in {Staging(r), Backup(r)}
                                                  /\ command[r] = "update"
    <3> SUFFICES ASSUME d \notin Installed
                 PROVE  \E r \in Procs \ {q} : /\ d \in {Staging(r), Backup(r)}
                                               /\ command[r] = "update"
      OBVIOUS
    <3>1. PICK k \in {"staging", "backup"}, r \in Procs : d = <<k, r>>
      BY DEF Places
    <3>2. command[r] = "update"
      BY <1>3, <3>1 DEF BeginUpdate, SkillIn
    <3> QED
      BY <2>1, <3>1, <3>2 DEF Staging, Backup
  <2> QED
    BY <2>1, <2>2 DEF PlaceOf, Staging, Backup
<1>4. ASSUME Step(q) \/ Kill(q)
      PROVE  UNCHANGED <<command, place>>
  BY <1>4 DEF Step, WorkerFails, WriteFile, WorkersEnd, AcquireLock, GiveUpLock, ReadFrom, Truncate,
              WriteTo, RecordFails, MakeBackup, MakeBackupFails, MoveOut, ReadStaging, MoveIn,
              Restore, RemoveIn, RemovedIn, MoveBack, DropBackup, Kill
<1> QED
  BY <1>1, <1>2, <1>3, <1>4 DEF Start

LEMMA OwnFresh ==
    ASSUME TypeOK, SwapInv, NEW q \in Procs, Start(q) \/ Step(q) \/ Kill(q)
    PROVE  FreshOf(q)'
<1> USE DEF TypeOK, files, call, work, swap, history, Pcs, Unbegun, Recording, Swapping, Ended
<1>0. FreshOf(q)
  BY DEF SwapInv
<1> USE <1>0 DEF FreshOf
<1>1. ASSUME Start(q)
      PROVE  FreshOf(q)'
  BY <1>1 DEF Start, BeginInstall, BeginUpdate, Begin, Move, Goto, Staging, Backup
<1>2. ASSUME NEW s \in Skills, NEW x \in Parts, WriteFile(q, s, x)
      PROVE  FreshOf(q)'
  <2>1. command[q] # "update" => Target(q, s) = <<"skill", s>> /\ Target(q, s) \in Places
    BY ContentFacts DEF Target
  <2>2. command[q] # "update" =>
            \A d \in Places \ {<<"skill", s>>} : content'[d] = content[d]
    BY <1>2, <2>1, EntryEffect DEF WriteFile
  <2>3. \A p \in Procs : Staging(p) # <<"skill", s>> /\ Backup(p) # <<"skill", s>>
    BY DEF Staging, Backup
  <2>4. command[q] # "update" => /\ content'[Staging(q)] = content[Staging(q)]
                                 /\ content'[Backup(q)] = content[Backup(q)]
    BY <2>2, <2>3, ContentFacts
  <2> QED
    BY <1>2, <2>4 DEF WriteFile, Staging, Backup
<1>3. ASSUME WorkersEnd(q)
      PROVE  FreshOf(q)'
  BY <1>3 DEF WorkersEnd, Move, Goto, Staging, Backup
<1>4. ASSUME AcquireLock(q) \/ ReadFrom(q) \/ Truncate(q)
      PROVE  FreshOf(q)'
  BY <1>4 DEF AcquireLock, ReadFrom, Truncate, Move, Goto, Staging, Backup
<1>5. ASSUME GiveUpLock(q) \/ WriteTo(q) \/ RecordFails(q)
      PROVE  FreshOf(q)'
  <2>1. PICK s \in Skills : NextRecord(q, s)
    BY <1>5 DEF GiveUpLock, WriteTo, RecordFails
  <2>2. /\ pc'[q] \in {"lock", "swap", "failed", "done"} /\ pc[q] \in Recording
        /\ pc'[q] = "swap" => command[q] = "update"
    BY <1>5, <2>1 DEF NextRecord, AfterRecord, Goto, GiveUpLock, WriteTo, RecordFails
  <2>3. UNCHANGED <<content, command, before, movedOut, movedIn>>
    BY <1>5 DEF GiveUpLock, WriteTo, RecordFails
  <2> QED
    BY <2>2, <2>3 DEF Staging, Backup
<1>6. ASSUME NEW to \in Ended \cup Swapping, Goto(q, to), command[q] = "update", UNCHANGED command
      PROVE  FreshOf(q)'
  BY <1>6 DEF Goto
<1>7. ASSUME \/ MakeBackup(q) \/ MakeBackupFails(q) \/ ReadStaging(q)
             \/ Restore(q) \/ RemovedIn(q) \/ DropBackup(q)
      PROVE  FreshOf(q)'
  <2>1. command[q] = "update" /\ UNCHANGED command
    BY <1>7 DEF MakeBackup, MakeBackupFails, ReadStaging, Restore, RemovedIn, DropBackup,
                LoopEnds, Move
  <2>2. \E to \in Ended \cup Swapping : Goto(q, to)
    BY <1>7 DEF MakeBackup, MakeBackupFails, ReadStaging, Restore, RemovedIn, DropBackup, Move
  <2> QED
    BY <1>6, <2>1, <2>2
<1>8. ASSUME NEW x \in Parts,
             MoveOut(q, x) \/ MoveIn(q, x) \/ RemoveIn(q, x) \/ MoveBack(q, x)
      PROVE  FreshOf(q)'
  BY <1>8 DEF MoveOut, MoveIn, RemoveIn, MoveBack
<1>9. ASSUME Kill(q)
      PROVE  FreshOf(q)'
  BY <1>9 DEF Kill, Goto, Staging, Backup
<1>10. ASSUME NEW s \in Skills, WorkerFails(q, s)
       PROVE  FreshOf(q)'
  BY <1>10 DEF WorkerFails, Staging, Backup
<1> QED
  BY <1>1, <1>2, <1>3, <1>4, <1>5, <1>7, <1>8, <1>9, <1>10 DEF Step

(* The swap of a process after its own step, one lemma per loop.           *)
Undisturbed(q) ==
    command[q] = "update" /\ q \notin disturbed \cup unrestored

LEMMA UndisturbedFacts ==
    ASSUME NEW q \in Procs, Step(q) \/ Kill(q)
    PROVE  Undisturbed(q)' => Undisturbed(q)
BY DEF Undisturbed, Touch, RemoveAll, Rename, Step, WorkerFails, WriteFile, WorkersEnd, AcquireLock,
       GiveUpLock, ReadFrom, Truncate, WriteTo, RecordFails, MakeBackup, MakeBackupFails, MoveOut,
       ReadStaging, MoveIn, Restore, RemoveIn, RemovedIn, MoveBack, DropBackup, Kill,
       call, history, files

(* An update goes on to the swap when its skill is recorded.               *)
LEMMA RecordOfUpdate ==
    ASSUME TypeOK, NEW q \in Procs, NEW s, NextRecord(q, s), command[q] = "update"
    PROVE  pc'[q] \in {"lock", "swap"}
<1>1. AfterRecord(q, unrecorded[q] \ {s}) \in {"lock", "swap"}
  BY DEF AfterRecord
<1> QED
  BY <1>1 DEF NextRecord, Goto, TypeOK

(* The installation into the staging directory, and its recording.         *)
LEMMA StagingStep ==
    ASSUME TypeOK, SwapInv, NEW q \in Procs, Undisturbed(q)',
           \/ Start(q)
           \/ \E s \in Skills : WorkerFails(q, s) \/ \E x \in Parts : WriteFile(q, s, x)
           \/ WorkersEnd(q) \/ AcquireLock(q) \/ GiveUpLock(q)
           \/ ReadFrom(q) \/ Truncate(q) \/ WriteTo(q) \/ RecordFails(q)
    PROVE  SwapOf(q)'
<1> USE DEF TypeOK, files, call, work, swap, history, Recording, Undisturbed
<1>0. /\ Staging(q) \in Places /\ Backup(q) \in Places /\ Staging(q) # Backup(q)
      /\ FreshOf(q) /\ PlaceOf(q)
  BY ContentFacts DEF SwapInv, Staging, Backup
<1>1. ASSUME pc'[q] \in {"install", "swap"} \cup Recording, StagingOf(q)'
      PROVE  SwapOf(q)'
  BY <1>1 DEF SwapOf, OutOf, InOf, RemoveOf, BackOf, DeadOf
<1>2. ASSUME ~Start(q)
      PROVE  Undisturbed(q) /\ StagingOf(q)
  BY <1>2, UndisturbedFacts DEF Step, SwapInv, SwapOf
<1>3. ASSUME Start(q)
      PROVE  SwapOf(q)'
  <2>1. PICK d \in Places, s \in Skills : BeginUpdate(q, d, s)
    BY <1>3 DEF Start, BeginInstall, Begin
  <2>2. content[Staging(q)] = Empty /\ content[Backup(q)] = Empty
    BY <1>0, <2>1 DEF BeginUpdate, Begin, Move, FreshOf
  <2>3. /\ pc'[q] = "install" /\ skills'[q] = {s} /\ want'[q] = Latest /\ UNCHANGED content
        /\ left'[q][s] = PartsOf[Latest]
    BY <2>1 DEF BeginUpdate, Begin, Move, Goto
  <2> QED
    BY <1>1, <2>2, <2>3 DEF StagingOf, Staged, Empty, Staging, Backup
<1>4. ASSUME NEW s \in Skills, NEW x \in Parts, WriteFile(q, s, x)
      PROVE  SwapOf(q)'
  <2>1. ~Start(q)
    BY <1>4 DEF WriteFile, Writing, Start, BeginInstall, BeginUpdate, Begin, Move
  <2>2. /\ pc[q] = "install" /\ pc'[q] = "install" /\ skills[q] = {s} /\ x \in left[q][s]
        /\ left[q][s] \subseteq PartsOf[want[q]] /\ Staged(q, PartsOf[want[q]] \ left[q][s])
        /\ content[Backup(q)] = Empty /\ UNCHANGED <<skills, want>>
        /\ left'[q][s] = left[q][s] \ {x}
    BY <1>2, <1>4, <2>1 DEF WriteFile, Writing, StagingOf
  <2>3. content' = [content EXCEPT ![Staging(q)][x] = want[q]]
    BY <1>2, <1>4, <2>1 DEF WriteFile, Target
  <2>4. /\ content'[Staging(q)][x] = want[q]
        /\ \A y \in Parts \ {x} : content'[Staging(q)][y] = content[Staging(q)][y]
        /\ content'[Backup(q)] = Empty
    <3> HIDE DEF TypeOK
    <3>1. /\ content'[Staging(q)][x] = want[q]
          /\ \A y \in Parts \ {x} : content'[Staging(q)][y] = content[Staging(q)][y]
          /\ \A e \in Places \ {Staging(q)} : content'[e] = content[e]
      BY <1>0, <2>3, EntryEffect
    <3> QED
      BY <1>0, <2>2, <3>1
  <2>5. (Staged(q, PartsOf[want[q]] \ left[q][s]))'
    BY <2>2, <2>4 DEF Staged, Staging
  <2> QED
    BY <1>1, <2>2, <2>4, <2>5 DEF StagingOf, Backup
<1>5. ASSUME NEW s \in Skills, WorkerFails(q, s)
      PROVE  SwapOf(q)'
  <2>1. ~Start(q)
    BY <1>5 DEF WorkerFails, Writing, Start, BeginInstall, BeginUpdate, Begin, Move
  <2> QED
    BY <1>1, <1>2, <1>5, <2>1 DEF WorkerFails, Writing, StagingOf, Staged, Staging, Backup
<1>6. ASSUME WorkersEnd(q)
      PROVE  SwapOf(q)'
  <2>1. ~Start(q) /\ pc[q] = "install"
    BY <1>6 DEF WorkersEnd, Start, BeginInstall, BeginUpdate, Begin, Move
  <2>2. CASE Succeeded(q) = {}
    BY <1>6, <2>2 DEF WorkersEnd, Move, Goto, SwapOf, StagingOf, OutOf, InOf, RemoveOf, BackOf, DeadOf
  <2>3. CASE Succeeded(q) # {}
    <3>1. PICK s \in Skills : /\ skills[q] = {s} /\ left[q][s] \subseteq PartsOf[want[q]]
                              /\ Staged(q, PartsOf[want[q]] \ left[q][s])
      BY <1>2, <2>1 DEF StagingOf
    <3>2. left[q][s] = {} /\ pc'[q] = "lock" /\ UNCHANGED <<content, want>>
      BY <1>6, <2>3, <3>1 DEF WorkersEnd, Succeeded, Move, Goto
    <3>3. content[Backup(q)] = Empty
      BY <1>2, <2>1 DEF StagingOf
    <3> QED
      BY <1>1, <3>1, <3>2, <3>3 DEF StagingOf, Staged, Staging, Backup
  <2> QED
    BY <2>2, <2>3
<1>7. ASSUME AcquireLock(q) \/ ReadFrom(q) \/ Truncate(q)
      PROVE  SwapOf(q)'
  <2>1. ~Start(q)
    BY <1>7 DEF AcquireLock, ReadFrom, Truncate, Start, BeginInstall, BeginUpdate, Begin, Move
  <2>2. /\ pc[q] \in Recording /\ pc'[q] \in Recording
        /\ UNCHANGED <<content, want>>
    BY <1>7 DEF AcquireLock, ReadFrom, Truncate, Move, Goto
  <2> QED
    BY <1>1, <1>2, <2>1, <2>2 DEF StagingOf, Staged, Staging, Backup
<1>8. ASSUME GiveUpLock(q) \/ WriteTo(q) \/ RecordFails(q)
      PROVE  SwapOf(q)'
  <2>1. ~Start(q)
    BY <1>8 DEF GiveUpLock, WriteTo, RecordFails, Start, BeginInstall, BeginUpdate, Begin, Move
  <2>2. PICK s \in Skills : NextRecord(q, s)
    BY <1>8 DEF GiveUpLock, WriteTo, RecordFails
  <2>3. pc[q] \in Recording /\ UNCHANGED <<content, want>>
    BY <1>8 DEF GiveUpLock, WriteTo, RecordFails
  <2>4. pc'[q] \in {"lock", "swap"}
    <3>1. command[q] = "update"
      BY <1>2, <2>1
    <3> QED
      BY <2>2, <3>1, RecordOfUpdate
  <2> QED
    BY <1>1, <1>2, <2>1, <2>3, <2>4 DEF StagingOf, Staged, Staging, Backup
<1> QED
  BY <1>3, <1>4, <1>5, <1>6, <1>7, <1>8

(* At every point of an undisturbed swap each old file is in one of two    *)
(* places.                                                                 *)
LEMMA SurvivesNow ==
    ASSUME TypeOK, NEW q \in Procs, SwapOf(q), FreshOf(q), pc[q] \notin {"done", "failed"}
    PROVE  \A x \in Parts : before[q][x] # None =>
               before[q][x] \in {content[place[q]][x], content[Backup(q)][x]}
<1> SUFFICES ASSUME NEW x \in Parts, before[q][x] # None
             PROVE  before[q][x] \in {content[place[q]][x], content[Backup(q)][x]}
  OBVIOUS
<1>1. CASE pc[q] \in Unbegun
  BY <1>1 DEF FreshOf, Empty
<1>2. CASE pc[q] = "moveOut"
  BY <1>2 DEF SwapOf, OutOf, BackedUp
<1>3. CASE pc[q] = "moveIn"
  BY <1>3 DEF SwapOf, InOf, BackedUp
<1>4. CASE pc[q] = "removeIn"
  BY <1>4 DEF SwapOf, RemoveOf, BackedUp
<1>5. CASE pc[q] = "moveBack"
  BY <1>5 DEF SwapOf, BackOf, BackedUp
<1>6. CASE pc[q] = "dead"
  BY <1>6 DEF SwapOf, DeadOf
<1> QED
  BY <1>1, <1>2, <1>3, <1>4, <1>5, <1>6 DEF TypeOK, Pcs, Unbegun, Recording, Swapping, Ended

(* The renames of a swap, and the way back.                                *)
LEMMA SwapLoops ==
    ASSUME TypeOK, SwapInv, NEW q \in Procs, Undisturbed(q)', Step(q) \/ Kill(q),
           \/ MakeBackup(q) \/ MakeBackupFails(q) \/ ReadStaging(q) \/ Restore(q)
           \/ RemovedIn(q) \/ DropBackup(q) \/ Kill(q)
           \/ \E x \in Parts : MoveOut(q, x) \/ MoveIn(q, x) \/ RemoveIn(q, x) \/ MoveBack(q, x)
    PROVE  SwapOf(q)'
<1>0. /\ place[q] \in Places /\ Staging(q) \in Places /\ Backup(q) \in Places
      /\ command[q] = "update" /\ SwapOf(q) /\ FreshOf(q)
      /\ \A d \in Places : content[d] \in Content
      /\ want[q] \in Versions /\ want[q] # None /\ PartsOf[want[q]] \subseteq Parts
  BY UndisturbedFacts, ContentFacts, NoneAssumption DEF TypeOK, SwapInv, Undisturbed
<1>1. place[q] # Staging(q) /\ place[q] # Backup(q) /\ Staging(q) # Backup(q)
  BY <1>0, DirsFacts DEF SwapInv
<1>p. /\ place[q] \in Places /\ Staging(q) \in Places /\ Backup(q) \in Places
      /\ place[q] # Staging(q) /\ place[q] # Backup(q) /\ Staging(q) # Backup(q)
  BY <1>0, <1>1
<1>2. Staging(q)' = Staging(q) /\ Backup(q)' = Backup(q)
  BY DEF Staging, Backup
<1>3. ASSUME pc'[q] = "moveOut", OutOf(q)'
      PROVE  SwapOf(q)'
  BY <1>3 DEF SwapOf, StagingOf, InOf, RemoveOf, BackOf, DeadOf, Recording
<1>4. ASSUME pc'[q] = "moveIn", InOf(q)'
      PROVE  SwapOf(q)'
  BY <1>4 DEF SwapOf, StagingOf, OutOf, RemoveOf, BackOf, DeadOf, Recording
<1>5. ASSUME pc'[q] = "removeIn", RemoveOf(q)'
      PROVE  SwapOf(q)'
  BY <1>5 DEF SwapOf, StagingOf, OutOf, InOf, BackOf, DeadOf, Recording
<1>6. ASSUME pc'[q] = "moveBack", BackOf(q)'
      PROVE  SwapOf(q)'
  BY <1>6 DEF SwapOf, StagingOf, OutOf, InOf, RemoveOf, DeadOf, Recording
<1>7. CASE MakeBackup(q)
  <2>1. /\ pc[q] = "swap" /\ pc'[q] = "moveOut" /\ toMove'[q] = Present(place[q])
        /\ before'[q] = content[place[q]]
        /\ UNCHANGED <<content, want, place, movedOut, movedIn>>
    BY <1>7 DEF MakeBackup, Move, Goto, TypeOK, files, call
  <2>2. Staged(q, PartsOf[want[q]]) /\ content[Backup(q)] = Empty
    BY <1>0, <2>1 DEF SwapOf, StagingOf
  <2>3. movedOut[q] = {} /\ movedIn[q] = {}
    BY <1>0, <2>1 DEF FreshOf, Unbegun
  <2>4. OutOf(q)'
    BY <1>2, <2>1, <2>2, <2>3 DEF OutOf, Staged, BackedUp, Present, Empty
  <2> QED
    BY <1>3, <2>1, <2>4
<1>8. CASE MakeBackupFails(q) \/ DropBackup(q)
  <2>1. pc'[q] \in {"done", "failed"}
    BY <1>8 DEF MakeBackupFails, DropBackup, Move, Goto, TypeOK
  <2> QED
    BY <2>1 DEF SwapOf, StagingOf, OutOf, InOf, RemoveOf, BackOf, DeadOf, Recording
<1>9. ASSUME NEW x \in Parts, MoveOut(q, x)
      PROVE  SwapOf(q)'
  <2>1. /\ pc[q] = "moveOut" /\ pc'[q] = "moveOut" /\ x \in toMove[q]
        /\ toMove'[q] = toMove[q] \ {x} /\ movedOut'[q] = movedOut[q] \cup {x}
        /\ UNCHANGED <<want, place, movedIn, before>>
    BY <1>9 DEF MoveOut, TypeOK, call
  <2>2. /\ content'[Backup(q)][x] = content[place[q]][x] /\ content'[place[q]][x] = None
        /\ \A y \in Parts \ {x} : /\ content'[Backup(q)][y] = content[Backup(q)][y]
                                  /\ content'[place[q]][y] = content[place[q]][y]
        /\ content'[Staging(q)] = content[Staging(q)]
    <3>1. Rename(q, x, place[q], Backup(q))
      BY <1>9 DEF MoveOut
    <3>2. /\ content'[Backup(q)][x] = content[place[q]][x] /\ content'[place[q]][x] = None
          /\ \A y \in Parts \ {x} : /\ content'[Backup(q)][y] = content[Backup(q)][y]
                                    /\ content'[place[q]][y] = content[place[q]][y]
          /\ \A d \in Places \ {place[q], Backup(q)} : content'[d] = content[d]
      BY <1>p, <3>1 DEF Rename, TypeOK, Content
    <3> QED
      BY <1>0, <1>1, <3>2
  <2>3. OutOf(q)
    BY <1>0 DEF SwapOf
  <2>4. OutOf(q)'
    BY <1>2, <2>1, <2>2, <2>3 DEF OutOf, Staged, BackedUp
  <2> QED
    BY <1>3, <2>1, <2>4
<1>10. CASE ReadStaging(q)
  <2>1. /\ pc[q] = "moveOut" /\ pc'[q] = "moveIn" /\ toMove[q] = {}
        /\ toMove'[q] = Present(Staging(q))
        /\ UNCHANGED <<content, want, place, movedOut, movedIn, before>>
    BY <1>10 DEF ReadStaging, Move, Goto, TypeOK, files, call, history
  <2>2. OutOf(q)
    BY <1>0 DEF SwapOf
  <2>3. Present(Staging(q)) = PartsOf[want[q]]
    BY <1>0, <2>1, <2>2 DEF OutOf, Staged, Present
  <2>4. InOf(q)'
    BY <1>2, <2>1, <2>2, <2>3 DEF OutOf, InOf, Staged, BackedUp
  <2> QED
    BY <1>4, <2>1, <2>4
<1>11. ASSUME NEW x \in Parts, MoveIn(q, x)
       PROVE  SwapOf(q)'
  <2>1. /\ pc[q] = "moveIn" /\ pc'[q] = "moveIn" /\ x \in toMove[q]
        /\ toMove'[q] = toMove[q] \ {x} /\ movedIn'[q] = movedIn[q] \cup {x}
        /\ UNCHANGED <<want, place, movedOut, before>>
    BY <1>11 DEF MoveIn, TypeOK, call
  <2>2. /\ content'[place[q]][x] = content[Staging(q)][x] /\ content'[Staging(q)][x] = None
        /\ \A y \in Parts \ {x} : /\ content'[Staging(q)][y] = content[Staging(q)][y]
                                  /\ content'[place[q]][y] = content[place[q]][y]
        /\ content'[Backup(q)] = content[Backup(q)]
    <3>1. Rename(q, x, Staging(q), place[q])
      BY <1>11 DEF MoveIn
    <3>2. /\ content'[place[q]][x] = content[Staging(q)][x] /\ content'[Staging(q)][x] = None
          /\ \A y \in Parts \ {x} : /\ content'[place[q]][y] = content[place[q]][y]
                                    /\ content'[Staging(q)][y] = content[Staging(q)][y]
          /\ \A d \in Places \ {Staging(q), place[q]} : content'[d] = content[d]
      BY <1>p, <3>1 DEF Rename, TypeOK, Content
    <3> QED
      BY <1>0, <1>1, <3>2
  <2>3. InOf(q)
    BY <1>0 DEF SwapOf
  <2>4. InOf(q)'
    BY <1>2, <2>1, <2>2, <2>3 DEF InOf, Staged, BackedUp
  <2> QED
    BY <1>4, <2>1, <2>4
<1>12. CASE Restore(q)
  <2>1. /\ pc[q] \in {"moveOut", "moveIn"} /\ pc'[q] = "removeIn" /\ toMove'[q] = movedIn[q]
        /\ UNCHANGED <<content, want, place, movedOut, movedIn, before>>
    BY <1>12 DEF Restore, Goto, TypeOK, files, call, history
  <2>2. OutOf(q) /\ InOf(q)
    BY <1>0 DEF SwapOf
  <2>3. before[q] \in Content /\ movedOut[q] \subseteq Parts /\ movedIn[q] \subseteq Parts
    BY DEF TypeOK
  <2>4. RemoveOf(q)'
    BY <1>2, <2>1, <2>2, <2>3 DEF OutOf, InOf, RemoveOf, Staged, BackedUp
  <2> QED
    BY <1>5, <2>1, <2>4
<1>13. ASSUME NEW x \in Parts, RemoveIn(q, x)
       PROVE  SwapOf(q)'
  <2>1. /\ pc[q] = "removeIn" /\ pc'[q] = "removeIn" /\ x \in toMove[q]
        /\ toMove'[q] = toMove[q] \ {x}
        /\ content' = [content EXCEPT ![place[q]][x] = None]
        /\ UNCHANGED <<want, place, movedOut, before>>
    BY <1>13 DEF RemoveIn, TypeOK, call, Undisturbed
  <2>2. /\ content'[place[q]][x] = None
        /\ \A y \in Parts \ {x} : content'[place[q]][y] = content[place[q]][y]
        /\ content'[Backup(q)] = content[Backup(q)]
    <3>1. /\ content'[place[q]][x] = None
          /\ \A y \in Parts \ {x} : content'[place[q]][y] = content[place[q]][y]
          /\ \A d \in Places \ {place[q]} : content'[d] = content[d]
      BY <1>0, <2>1, EntryEffect
    <3> QED
      BY <1>0, <1>1, <3>1
  <2>3. RemoveOf(q)
    BY <1>0 DEF SwapOf
  <2>4. RemoveOf(q)'
    BY <1>2, <2>1, <2>2, <2>3 DEF RemoveOf, BackedUp
  <2> QED
    BY <1>5, <2>1, <2>4
<1>14. CASE RemovedIn(q)
  <2>1. /\ pc[q] = "removeIn" /\ pc'[q] = "moveBack" /\ toMove[q] = {}
        /\ toMove'[q] = movedOut[q] /\ UNCHANGED <<content, want, place, movedOut, before>>
    BY <1>14 DEF RemovedIn, Move, Goto, TypeOK, files, call, history
  <2>2. RemoveOf(q)
    BY <1>0 DEF SwapOf
  <2>3. BackOf(q)'
    BY <1>2, <2>1, <2>2 DEF RemoveOf, BackOf, BackedUp
  <2> QED
    BY <1>6, <2>1, <2>3
<1>15. ASSUME NEW x \in Parts, MoveBack(q, x)
       PROVE  SwapOf(q)'
  <2>1. /\ pc[q] = "moveBack" /\ pc'[q] = "moveBack" /\ x \in toMove[q]
        /\ toMove'[q] = toMove[q] \ {x} /\ Rename(q, x, Backup(q), place[q])
        /\ UNCHANGED <<want, place, before>>
    BY <1>15 DEF MoveBack, TypeOK, call, Undisturbed
  <2>2. /\ content'[place[q]][x] = content[Backup(q)][x] /\ content'[Backup(q)][x] = None
        /\ \A y \in Parts \ {x} : /\ content'[Backup(q)][y] = content[Backup(q)][y]
                                  /\ content'[place[q]][y] = content[place[q]][y]
    <3>1. Rename(q, x, Backup(q), place[q])
      BY <2>1
    <3>2. /\ content'[place[q]][x] = content[Backup(q)][x] /\ content'[Backup(q)][x] = None
          /\ \A y \in Parts \ {x} : /\ content'[place[q]][y] = content[place[q]][y]
                                    /\ content'[Backup(q)][y] = content[Backup(q)][y]
          /\ \A d \in Places \ {Backup(q), place[q]} : content'[d] = content[d]
      BY <1>p, <3>1 DEF Rename, TypeOK, Content
    <3> QED
      BY <1>0, <1>1, <3>2
  <2>3. BackOf(q)
    BY <1>0 DEF SwapOf
  <2>4. BackOf(q)'
    BY <1>2, <2>1, <2>2, <2>3 DEF BackOf, BackedUp
  <2> QED
    BY <1>6, <2>1, <2>4
<1>16. CASE Kill(q)
  <2>1. /\ pc[q] \notin Ended \cup {"idle"} /\ pc'[q] = "dead" /\ UNCHANGED <<content, place, before>>
    BY <1>16 DEF Kill, Goto, TypeOK, call
  <2>2. DeadOf(q)'
    BY <1>0, <1>2, <2>1, SurvivesNow DEF DeadOf, Ended
  <2> QED
    BY <2>1, <2>2 DEF SwapOf, StagingOf, OutOf, InOf, RemoveOf, BackOf, Recording
<1> QED
  BY <1>7, <1>8, <1>9, <1>10, <1>11, <1>12, <1>13, <1>14, <1>15, <1>16

(* A process that another one leaves alone is where it was.                *)
LEMMA SwapFrame ==
    ASSUME TypeOK, SwapInv, NEW q \in Procs, Outside(q),
           \A r \in Procs : command[r] = "update" => command'[r] = "update",
           NEW p \in Procs, p # q, Local(p)' = Local(p),
           p \notin unrestored' => p \notin unrestored
    PROVE  /\ PlaceOf(p)' /\ FreshOf(p)'
           /\ command'[p] = "update" /\ p \notin disturbed' \cup unrestored' => SwapOf(p)'
<1>0. /\ pc'[p] = pc[p] /\ command'[p] = command[p] /\ skills'[p] = skills[p]
      /\ want'[p] = want[p] /\ place'[p] = place[p] /\ left'[p] = left[p]
      /\ toMove'[p] = toMove[p] /\ movedOut'[p] = movedOut[p] /\ movedIn'[p] = movedIn[p]
      /\ before'[p] = before[p]
  BY DEF Local
<1>1. PlaceOf(p) /\ FreshOf(p)
  BY DEF SwapInv
<1>2. PlaceOf(p)'
  BY <1>0, <1>1 DEF PlaceOf, Staging, Backup
<1>3. FreshOf(p)'
  BY <1>0, <1>1 DEF FreshOf, Outside, Staging, Backup
<1>4. ASSUME command'[p] = "update", p \notin disturbed' \cup unrestored'
      PROVE  SwapOf(p)'
  <2>1. CASE pc[p] \in {"done", "failed"}
    BY <1>0, <2>1 DEF SwapOf, StagingOf, OutOf, InOf, RemoveOf, BackOf, DeadOf, Recording
  <2>2. CASE pc[p] \notin {"done", "failed"}
    <3>1. p \notin disturbed /\ \A d \in Dirs(p) : content'[d] = content[d]
      BY <1>0, <1>4, <2>2 DEF Outside, Updating
    <3>2. /\ content'[place[p]] = content[place[p]]
          /\ content'[Staging(p)] = content[Staging(p)]
          /\ content'[Backup(p)] = content[Backup(p)]
      BY <3>1 DEF Dirs
    <3>3. SwapOf(p)
      BY <1>0, <1>4, <3>1 DEF SwapInv
    <3>4. StagingOf(p)'
      BY <1>0, <3>2, <3>3 DEF SwapOf, StagingOf, Staged, Staging, Backup
    <3>5. OutOf(p)' /\ InOf(p)'
      BY <1>0, <3>2, <3>3 DEF SwapOf, OutOf, InOf, Staged, BackedUp, Staging, Backup
    <3>6. RemoveOf(p)' /\ BackOf(p)' /\ DeadOf(p)'
      BY <1>0, <3>2, <3>3 DEF SwapOf, RemoveOf, BackOf, DeadOf, BackedUp, Staging, Backup
    <3> QED
      BY <3>4, <3>5, <3>6 DEF SwapOf
  <2> QED
    BY <2>1, <2>2
<1> QED
  BY <1>2, <1>3, <1>4

LEMMA SwapStep ==
    ASSUME TypeOK, SwapInv, [Next]_vars
    PROVE  SwapInv'
<1>1. CASE UNCHANGED vars
  <2> SUFFICES ASSUME NEW p \in Procs
               PROVE  /\ PlaceOf(p)' /\ FreshOf(p)'
                      /\ command'[p] = "update" /\ p \notin disturbed' \cup unrestored' => SwapOf(p)'
    BY DEF SwapInv
  <2> USE <1>1 DEF vars, files, call, work, swap, history, Staging, Backup, Staged, BackedUp
  <2>1. PlaceOf(p)' /\ FreshOf(p)'
    BY DEF SwapInv, PlaceOf, FreshOf
  <2>2. SwapOf(p) => SwapOf(p)'
    <3>1. StagingOf(p) => StagingOf(p)'
      BY DEF StagingOf
    <3>2. (OutOf(p) => OutOf(p)') /\ (InOf(p) => InOf(p)')
      BY DEF OutOf, InOf
    <3>3. (RemoveOf(p) => RemoveOf(p)') /\ (BackOf(p) => BackOf(p)') /\ (DeadOf(p) => DeadOf(p)')
      BY DEF RemoveOf, BackOf, DeadOf
    <3> QED
      BY <3>1, <3>2, <3>3 DEF SwapOf
  <2> QED
    BY <2>1, <2>2 DEF SwapInv
<1>2. CASE Next
  <2>1. PICK q \in Procs : Start(q) \/ Step(q) \/ Kill(q)
    BY <1>2 DEF Next
  <2>2. Outside(q)
    BY <2>1, OutsideStep
  <2>3. ASSUME NEW p \in Procs, p # q
        PROVE  /\ PlaceOf(p)' /\ FreshOf(p)'
               /\ command'[p] = "update" /\ p \notin disturbed' \cup unrestored' => SwapOf(p)'
    BY <2>1, <2>2, <2>3, LocalFacts, OwnPlace, SwapFrame
  <2>4. PlaceOf(q)' /\ FreshOf(q)'
    BY <2>1, OwnPlace, OwnFresh
  <2>5. Undisturbed(q)' => SwapOf(q)'
    <3>1. CASE Start(q)
      BY <3>1, StagingStep
    <3>2. CASE Step(q) \/ Kill(q)
      BY <3>2, StagingStep, SwapLoops DEF Step
    <3> QED
      BY <2>1, <3>1, <3>2
  <2> QED
    BY <2>3, <2>4, <2>5 DEF SwapInv, Undisturbed
<1> QED
  BY <1>1, <1>2

LEMMA SwapInit == Init => SwapInv
<1> SUFFICES ASSUME Init, NEW p \in Procs
             PROVE  PlaceOf(p) /\ FreshOf(p) /\ command[p] = "none"
  BY DEF SwapInv
<1>1. command[p] = "none" /\ pc[p] = "idle"
  BY DEF Init
<1>2. Staging(p) \notin Installed /\ Backup(p) \notin Installed
  BY DEF Staging, Backup, Installed
<1>3. content[Staging(p)] = Empty /\ content[Backup(p)] = Empty
  BY <1>2, ContentFacts DEF Init
<1> QED
  BY <1>1, <1>3 DEF PlaceOf, FreshOf, Swapping, Init

(* OldFilesSurvive: during a swap, and after a death in it, every old file *)
(* is in its place or in the backup (swapDirectoryContents).               *)
THEOREM SwapKeepsOldFiles == Spec => []OldFilesSurvive
<1>1. TypeOK /\ SwapInv /\ [Next]_vars => SwapInv'
  BY SwapStep
<1>2. TypeOK /\ SwapInv => OldFilesSurvive
  BY SurvivesNow DEF SwapInv, OldFilesSurvive, Swapping
<1> QED
  BY <1>1, <1>2, SwapInit, TypeCorrect, PTL DEF Spec

(* AllOrNothing: a swap that comes to its end leaves the new skill or the  *)
(* old one (updateSkillInPlace).                                           *)
THEOREM SwapIsAllOrNothing == Spec => AllOrNothing
<1> DEFINE Ending ==
      \A p \in Procs :
          /\ pc[p] \in Swapping /\ pc'[p] \in {"done", "failed"}
          /\ p \notin disturbed \cup unrestored
          => content'[place[p]] =
                IF pc'[p] = "done" THEN Whole(want[p]) ELSE before[p]
<1>1. TypeOK /\ SwapInv /\ [Next]_vars => SwapInv'
  BY SwapStep
<1>2. TypeOK /\ SwapInv /\ [Next]_vars => [Ending]_vars
  <2> SUFFICES ASSUME TypeOK, SwapInv, Next,
                      NEW p \in Procs, pc[p] \in Swapping, pc'[p] \in {"done", "failed"},
                      p \notin disturbed \cup unrestored
               PROVE  content'[place[p]] =
                          IF pc'[p] = "done" THEN Whole(want[p]) ELSE before[p]
    OBVIOUS
  <2>1. PICK q \in Procs : Start(q) \/ Step(q) \/ Kill(q)
    BY DEF Next
  <2>2. q = p
    BY <2>1, LocalFacts DEF Local, Swapping
  <2>3. DropBackup(p)
    BY <2>1, <2>2
    DEF Start, BeginInstall, BeginUpdate, Begin, Step, WorkerFails, WriteFile, Writing, WorkersEnd,
        AcquireLock, GiveUpLock, ReadFrom, Truncate, WriteTo, RecordFails, MakeBackup,
        MakeBackupFails, MoveOut, ReadStaging, MoveIn, Restore, RemoveIn, RemovedIn, MoveBack,
        Kill, Move, Goto, TypeOK, Swapping, Recording, Ended
  <2>4. /\ command[p] = "update" /\ SwapOf(p) /\ PlaceOf(p)
        /\ place[p] \in Places /\ content[place[p]] \in Content /\ before[p] \in Content
    BY DEF SwapInv, FreshOf, TypeOK
  <2>5. content'[place[p]] = content[place[p]]
    BY <2>3, <2>4, DirsFacts DEF DropBackup, RemoveAll
  <2>6. CASE pc[p] = "moveIn"
    <3>1. pc'[p] = "done" /\ toMove[p] = {}
      BY <2>3, <2>6 DEF DropBackup, LoopEnds, Goto, TypeOK
    <3>2. \A x \in Parts : content[place[p]][x] = Whole(want[p])[x]
      BY <2>4, <2>6, <3>1 DEF SwapOf, InOf, Whole
    <3>3. content[place[p]] = Whole(want[p])
      BY <2>4, <3>2 DEF Content, Whole
    <3> QED
      BY <2>5, <3>1, <3>3
  <2>7. CASE pc[p] = "moveBack"
    <3>1. pc'[p] = "failed" /\ toMove[p] = {}
      BY <2>3, <2>7 DEF DropBackup, LoopEnds, Goto, TypeOK
    <3>2. \A x \in Parts : content[place[p]][x] = before[p][x]
      BY <2>4, <2>7, <3>1 DEF SwapOf, BackOf
    <3>3. content[place[p]] = before[p]
      BY <2>4, <3>2 DEF Content
    <3> QED
      BY <2>5, <3>1, <3>3
  <2> QED
    BY <2>3, <2>6, <2>7 DEF DropBackup, LoopEnds
<1> QED
  BY <1>1, <1>2, SwapInit, TypeCorrect, PTL DEF Spec, AllOrNothing

=============================================================================
