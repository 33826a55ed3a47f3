----------------------------- MODULE SkillStore -----------------------------
(***************************************************************************)
(* `gh skill install` and `gh skill update` on one skills directory and on *)
(* the lock file that records what is installed.  An install writes the    *)
(* files of its skills in place, in parallel, and records those that       *)
(* succeeded.  An update installs one skill into a staging directory,      *)
(* which records it, and then swaps it with the installed one by way of a  *)
(* backup directory.  Staging and backup directories are siblings of the   *)
(* skill, and a scan for installed skills may find them too.               *)
(*                                                                         *)
(* One action is one access to the file system.  With Faults any of them   *)
(* may fail and a process may be killed at any step.                       *)
(***************************************************************************)
EXTENDS Naturals

CONSTANTS
    Procs, NoProc,
    Skills,
    Versions,
    Latest,       \* what the source repository has now
    None,         \* "no file", "no entry", "no version"
    Parts,        \* directory entries of a skill; "SKILL.md" is one of them
    PartsOf,      \* the entries each version has
    Commands,     \* the commands that run
    Faults        \* may a step fail, a process be killed?

Meta == "SKILL.md"   \* its front matter names the version (github-tree-sha)

ASSUME NoProcAssumption == NoProc \notin Procs
ASSUME NoneAssumption == None \notin Versions
ASSUME LatestAssumption == Latest \in Versions
ASSUME PartsOfAssumption == /\ PartsOf \in [Versions -> SUBSET Parts]
                            /\ \A v \in Versions : Meta \in PartsOf[v]
ASSUME CommandsAssumption == Commands \subseteq {"install", "update"}
ASSUME FaultsAssumption == Faults \in BOOLEAN

(* Directories: of a skill, and a process's staging and backup directory.  *)
Installed == {"skill"} \X Skills
Staging(p) == <<"staging", p>>
Backup(p) == <<"backup", p>>
Places == Installed \cup ({"staging", "backup"} \X Procs)

Content == [Parts -> Versions \cup {None}]
Empty == [x \in Parts |-> None]
Whole(v) == [x \in Parts |-> IF x \in PartsOf[v] THEN v ELSE None]
Entries == [Skills -> Versions \cup {None}]

Recording == {"lock", "read", "truncate", "write"}
Swapping == {"moveOut", "moveIn", "removeIn", "moveBack"}
Ended == {"done", "failed", "dead"}
Pcs == {"idle", "install", "swap"} \cup Recording \cup Swapping \cup Ended

VARIABLES
    content,     \* what is in each directory
    entries,     \* .skill-lock.json: the recorded version of each skill
    lock,        \* the file lock on it
    pc, command, \* each process's control point and its command
    skills,      \* the skills it installs or updates
    want,        \* the version it installs
    place,       \* the directory an update replaces
    left,        \* what each worker has still to write
    broken,      \* skills whose worker failed
    unrecorded,  \* skills installed and not yet recorded
    mem,         \* the lock file as this process has read it
    toMove,      \* directory entries that the current loop has still to rename
    movedOut, movedIn,
    recorded,    \* history: what the lock file would hold were it written atomically
    before,      \* history: the updated directory before the swap
    disturbed,   \* history: updates with another process in their directories
    unrestored   \* history: updates that failed to move an old file back

files == <<content, entries, lock>>
call == <<command, skills, want, place>>
work == <<left, broken, unrecorded, mem>>
swap == <<toMove, movedOut, movedIn>>
history == <<recorded, before, disturbed, unrestored>>
vars == <<files, pc, call, work, swap, history>>

TypeOK ==
    /\ content \in [Places -> Content]
    /\ entries \in Entries
    /\ lock \in Procs \cup {NoProc}
    /\ pc \in [Procs -> Pcs]
    /\ command \in [Procs -> Commands \cup {"none"}]
    /\ skills \in [Procs -> SUBSET Skills]
    /\ want \in [Procs -> Versions]
    /\ place \in [Procs -> Places]
    /\ left \in [Procs -> [Skills -> SUBSET Parts]]
    /\ broken \in [Procs -> SUBSET Skills]
    /\ unrecorded \in [Procs -> SUBSET Skills]
    /\ mem \in [Procs -> Entries]
    /\ toMove \in [Procs -> SUBSET Parts]
    /\ movedOut \in [Procs -> SUBSET Parts]
    /\ movedIn \in [Procs -> SUBSET Parts]
    /\ recorded \in Entries
    /\ before \in [Procs -> Content]
    /\ disturbed \subseteq Procs
    /\ unrestored \subseteq Procs

(* Some skills are installed and recorded, in any version.                 *)
Init ==
    /\ entries \in Entries
    /\ content = [d \in Places |->
          IF d \in Installed /\ entries[d[2]] # None THEN Whole(entries[d[2]]) ELSE Empty]
    /\ lock = NoProc
    /\ pc = [p \in Procs |-> "idle"]
    /\ command = [p \in Procs |-> "none"]
    /\ skills = [p \in Procs |-> {}]
    /\ want = [p \in Procs |-> Latest]
    /\ place = [p \in Procs |-> Staging(p)]
    /\ left = [p \in Procs |-> [s \in Skills |-> {}]]
    /\ broken = [p \in Procs |-> {}]
    /\ unrecorded = [p \in Procs |-> {}]
    /\ mem = [p \in Procs |-> [s \in Skills |-> None]]
    /\ toMove = [p \in Procs |-> {}]
    /\ movedOut = [p \in Procs |-> {}] /\ movedIn = [p \in Procs |-> {}]
    /\ recorded = entries
    /\ before = [p \in Procs |-> Empty]
    /\ disturbed = {} /\ unrestored = {}

-----------------------------------------------------------------------------
(* Helpers.                                                                *)

Goto(p, to) == pc' = [pc EXCEPT ![p] = to]
Move(p, from, to) == pc[p] = from /\ Goto(p, to)

Present(d) == {x \in Parts : content[d][x] # None}
Updating(p) == command[p] = "update" /\ pc[p] \notin {"done", "failed"}
Dirs(p) == {place[p], Staging(p), Backup(p)}

(* A process changes a directory: an update of another one that works with *)
(* it is disturbed.                                                        *)
Touch(p, ds) ==
    disturbed' = disturbed \cup {q \in Procs \ {p} : Updating(q) /\ Dirs(q) \cap ds # {}}

(* rename of one entry, over what has the name in the other directory.     *)
Rename(p, x, from, to) ==
    /\ content[from][x] # None
    /\ content' = [content EXCEPT ![to][x] = content[from][x], ![from][x] = None]
    /\ Touch(p, {from, to})

RemoveAll(p, ds) ==
    /\ content' = [d \in Places |-> IF d \in ds THEN Empty ELSE content[d]]
    /\ Touch(p, ds)

(* Where a worker writes.                                                  *)
Target(p, s) == IF command[p] = "update" THEN Staging(p) ELSE <<"skill", s>>

Begin(p, c, ss, v) ==
    /\ c \in Commands
    /\ Move(p, "idle", "install")
    /\ command' = [command EXCEPT ![p] = c]
    /\ skills' = [skills EXCEPT ![p] = ss]
    /\ want' = [want EXCEPT ![p] = v]
    /\ left' = [left EXCEPT ![p] = [s \in Skills |-> IF s \in ss THEN PartsOf[v] ELSE {}]]
    /\ UNCHANGED <<files, broken, unrecorded, mem, swap, recorded, before>>

-----------------------------------------------------------------------------
(* Commands start.                                                         *)

BeginInstall(p, ss, v) ==
    /\ ss # {} /\ Begin(p, "install", ss, v)
    /\ UNCHANGED <<place, disturbed, unrestored>>

(* The skill a directory looks like: a staging or backup directory is one  *)
(* of its owner's.                                                         *)
SkillIn(d, s) ==
    IF d \in Installed THEN d[2] = s ELSE s \in skills[d[2]] /\ command[d[2]] = "update"

(* scanInstalledSkills goes through every directory and takes one with a   *)
(* SKILL.md for a skill; updateRun takes those whose version differs.      *)
BeginUpdate(p, d, s) ==
    /\ content[d][Meta] \notin {None, Latest} /\ SkillIn(d, s)
    /\ Begin(p, "update", {s}, Latest)
    /\ place' = [place EXCEPT ![p] = d]
    /\ UNCHANGED <<disturbed, unrestored>>

-----------------------------------------------------------------------------
(* installer.Install: workers write the files one by one.                  *)

Writing(p, s) == pc[p] = "install" /\ s \in skills[p] \ broken[p]

WriteFile(p, s, x) ==
    /\ Writing(p, s) /\ x \in left[p][s]
    /\ content' = [content EXCEPT ![Target(p, s)][x] = want[p]]
    /\ left' = [left EXCEPT ![p][s] = @ \ {x}]
    /\ Touch(p, {Target(p, s)})
    /\ UNCHANGED <<entries, lock, pc, call, broken, unrecorded, mem, swap,
                   recorded, before, unrestored>>

(* Listing, fetching or writing a file fails: so does this skill.          *)
WorkerFails(p, s) ==
    /\ Faults /\ Writing(p, s) /\ left[p][s] # {}
    /\ broken' = [broken EXCEPT ![p] = @ \cup {s}]
    /\ UNCHANGED <<files, pc, call, left, unrecorded, mem, swap, history>>

(* Mutant of Succeeded: the failed workers are not left out.               *)
AllOf(p) == skills[p]

Succeeded(p) == skills[p] \ broken[p]

(* wg.Wait; then what succeeded is recorded, one skill after the other.    *)
WorkersEnd(p) ==
    /\ \A s \in skills[p] : left[p][s] = {} \/ s \in broken[p]
    /\ unrecorded' = [unrecorded EXCEPT ![p] = Succeeded(p)]
    /\ Move(p, "install", IF Succeeded(p) # {} THEN "lock" ELSE "failed")
    /\ IF Succeeded(p) = {} /\ command[p] = "update"
       THEN RemoveAll(p, {Staging(p)})
       ELSE UNCHANGED <<content, disturbed>>
    /\ UNCHANGED <<entries, lock, call, left, broken, mem, swap,
                   recorded, before, unrestored>>

-----------------------------------------------------------------------------
(* RecordInstall, for one skill at a time.  Its failure is a warning.      *)

AfterRecord(p, rest) ==
    CASE rest # {}                          -> "lock"
      [] rest = {} /\ command[p] = "update" -> "swap"
      [] rest = {} /\ command[p] # "update" -> IF broken[p] # {} THEN "failed" ELSE "done"

NextRecord(p, s) ==
    /\ unrecorded' = [unrecorded EXCEPT ![p] = @ \ {s}]
    /\ Goto(p, AfterRecord(p, unrecorded[p] \ {s}))

Forget(p) == mem' = [mem EXCEPT ![p] = [s \in Skills |-> None]]

(* Mutant of AcquireLock: it does not exclude.                             *)
AcquireShared(p) ==
    /\ lock' = p
    /\ Move(p, "lock", "read")
    /\ UNCHANGED <<content, entries, call, work, swap, history>>

(* acquireFLock: a bounded number of attempts.                             *)
AcquireLock(p) ==
    /\ lock = NoProc /\ lock' = p
    /\ Move(p, "lock", "read")
    /\ UNCHANGED <<content, entries, call, work, swap, history>>

GiveUpLock(p) ==
    /\ pc[p] = "lock" /\ (Faults \/ lock # NoProc)
    /\ \E s \in unrecorded[p] : NextRecord(p, s)
    /\ UNCHANGED <<files, call, left, broken, mem, swap, history>>

(* Mutant of ReadFrom: a file without entries gives no map to write to.    *)
ReadNil(p) ==
    /\ Move(p, "read", "truncate")
    /\ mem' = [mem EXCEPT ![p] =
                  IF \A s \in Skills : entries[s] = None THEN None ELSE entries]
    /\ UNCHANGED <<files, call, left, broken, unrecorded, swap, history>>

ReadFrom(p) ==
    /\ Move(p, "read", "truncate")
    /\ mem' = [mem EXCEPT ![p] = entries]
    /\ UNCHANGED <<files, call, left, broken, unrecorded, swap, history>>

(* writeTo: truncate ...                                                   *)
Truncate(p) ==
    /\ Move(p, "truncate", "write")
    /\ entries' = [s \in Skills |-> None]
    /\ UNCHANGED <<content, lock, call, work, swap, history>>

(* ... and write; the deferred unlock follows.                             *)
WriteTo(p) ==
    /\ pc[p] = "write"
    /\ \E s \in unrecorded[p] :
          /\ entries' = [mem[p] EXCEPT ![s] = want[p]]
          /\ recorded' = [recorded EXCEPT ![s] = want[p]]
          /\ NextRecord(p, s)
    /\ lock' = NoProc
    /\ Forget(p)
    /\ UNCHANGED <<content, call, left, broken, swap, before, disturbed, unrestored>>

(* Between truncating and writing, a failure leaves the file empty.        *)
Tear(p) ==
    recorded' = IF pc[p] = "write" THEN [s \in Skills |-> None] ELSE recorded

RecordFails(p) ==
    /\ Faults /\ pc[p] \in Recording \ {"lock"}
    /\ \E s \in unrecorded[p] : NextRecord(p, s)
    /\ lock' = NoProc
    /\ Tear(p)
    /\ Forget(p)
    /\ UNCHANGED <<content, entries, call, left, broken, swap, before, disturbed, unrestored>>

-----------------------------------------------------------------------------
(* updateSkillInPlace after the staged install: swapDirectoryContents.     *)

MakeBackup(p) ==
    /\ Move(p, "swap", "moveOut")
    /\ toMove' = [toMove EXCEPT ![p] = Present(place[p])]
    /\ before' = [before EXCEPT ![p] = content[place[p]]]
    /\ UNCHANGED <<files, call, work, movedOut, movedIn, recorded, disturbed, unrestored>>

(* No backup directory, or the skill cannot be read: nothing has changed.  *)
MakeBackupFails(p) ==
    /\ Faults /\ Move(p, "swap", "failed")
    /\ RemoveAll(p, {Staging(p), Backup(p)})
    /\ UNCHANGED <<entries, lock, call, work, swap, recorded, before, unrestored>>

MoveOut(p, x) ==
    /\ pc[p] = "moveOut" /\ x \in toMove[p]
    /\ Rename(p, x, place[p], Backup(p))
    /\ toMove' = [toMove EXCEPT ![p] = @ \ {x}]
    /\ movedOut' = [movedOut EXCEPT ![p] = @ \cup {x}]
    /\ UNCHANGED <<entries, lock, pc, call, work, movedIn, recorded, before, unrestored>>

(* Mutant of ReadStaging: the backup is not kept until the end.            *)
ReadStagingDropBackup(p) ==
    /\ toMove[p] = {} /\ Move(p, "moveOut", "moveIn")
    /\ toMove' = [toMove EXCEPT ![p] = Present(Staging(p))]
    /\ RemoveAll(p, {Backup(p)})
    /\ UNCHANGED <<entries, lock, call, work, movedOut, movedIn, recorded, before, unrestored>>

ReadStaging(p) ==
    /\ toMove[p] = {} /\ Move(p, "moveOut", "moveIn")
    /\ toMove' = [toMove EXCEPT ![p] = Present(Staging(p))]
    /\ UNCHANGED <<files, call, work, movedOut, movedIn, history>>

MoveIn(p, x) ==
    /\ pc[p] = "moveIn" /\ x \in toMove[p]
    /\ Rename(p, x, Staging(p), place[p])
    /\ toMove' = [toMove EXCEPT ![p] = @ \ {x}]
    /\ movedIn' = [movedIn EXCEPT ![p] = @ \cup {x}]
    /\ UNCHANGED <<entries, lock, pc, call, work, movedOut, recorded, before, unrestored>>

LoopEnds(p) == pc[p] \in {"moveIn", "moveBack"} /\ toMove[p] = {}

(* A rename fails, its entry may be gone; or the staged skill cannot be    *)
(* read.                                                                   *)
Restore(p) ==
    /\ \/ Faults /\ pc[p] \in {"moveOut", "moveIn"} /\ ~LoopEnds(p)
       \/ pc[p] = "moveOut" /\ \E x \in toMove[p] : content[place[p]][x] = None
       \/ pc[p] = "moveIn" /\ \E x \in toMove[p] : content[Staging(p)][x] = None
    /\ Goto(p, "removeIn")
    /\ toMove' = [toMove EXCEPT ![p] = movedIn[p]]
    /\ UNCHANGED <<files, call, work, movedOut, movedIn, history>>

(* Mutant of RemoveIn: the new files stay.                                 *)
KeepIn(p, x) ==
    /\ pc[p] = "removeIn" /\ x \in toMove[p]
    /\ toMove' = [toMove EXCEPT ![p] = @ \ {x}]
    /\ UNCHANGED <<files, pc, call, work, movedOut, movedIn, history>>

(* restoreBackup: the new files go.                                        *)
RemoveIn(p, x) ==
    /\ pc[p] = "removeIn" /\ x \in toMove[p]
    /\ \/ /\ content' = [content EXCEPT ![place[p]][x] = None]
          /\ Touch(p, {place[p]}) /\ UNCHANGED unrestored
       \/ /\ Faults /\ unrestored' = unrestored \cup {p}
          /\ UNCHANGED <<content, disturbed>>
    /\ toMove' = [toMove EXCEPT ![p] = @ \ {x}]
    /\ UNCHANGED <<entries, lock, pc, call, work, movedOut, movedIn, recorded, before>>

RemovedIn(p) ==
    /\ toMove[p] = {} /\ Move(p, "removeIn", "moveBack")
    /\ toMove' = [toMove EXCEPT ![p] = movedOut[p]]
    /\ UNCHANGED <<files, call, work, movedOut, movedIn, history>>

(* The old ones come back; an error is ignored.                            *)
MoveBack(p, x) ==
    /\ pc[p] = "moveBack" /\ x \in toMove[p]
    /\ \/ Rename(p, x, Backup(p), place[p]) /\ UNCHANGED unrestored
       \/ /\ Faults \/ content[Backup(p)][x] = None
          /\ unrestored' = unrestored \cup {p}
          /\ UNCHANGED <<content, disturbed>>
    /\ toMove' = [toMove EXCEPT ![p] = @ \ {x}]
    /\ UNCHANGED <<entries, lock, pc, call, work, movedOut, movedIn, recorded, before>>

(* Backup and staging directory are removed at the end of either path.     *)
DropBackup(p) ==
    /\ LoopEnds(p)
    /\ Goto(p, IF pc[p] = "moveIn" THEN "done" ELSE "failed")
    /\ RemoveAll(p, {Staging(p), Backup(p)})
    /\ UNCHANGED <<entries, lock, call, work, swap, recorded, before, unrestored>>

(* The death of a process releases its file lock; its memory is gone.      *)
Kill(p) ==
    /\ Faults /\ pc[p] \notin Ended \cup {"idle"}
    /\ Goto(p, "dead")
    /\ lock' = IF lock = p THEN NoProc ELSE lock
    /\ Tear(p)
    /\ left' = [left EXCEPT ![p] = [s \in Skills |-> {}]]
    /\ broken' = [broken EXCEPT ![p] = {}]
    /\ unrecorded' = [unrecorded EXCEPT ![p] = {}]
    /\ toMove' = [toMove EXCEPT ![p] = {}]
    /\ movedOut' = [movedOut EXCEPT ![p] = {}]
    /\ movedIn' = [movedIn EXCEPT ![p] = {}]
    /\ Forget(p)
    /\ UNCHANGED <<content, entries, call, before, disturbed, unrestored>>

-----------------------------------------------------------------------------
Step(p) ==
    \/ \E s \in Skills : WorkerFails(p, s) \/ \E x \in Parts : WriteFile(p, s, x)
    \/ WorkersEnd(p)
    \/ AcquireLock(p) \/ GiveUpLock(p)
    \/ ReadFrom(p) \/ Truncate(p) \/ WriteTo(p) \/ RecordFails(p)
    \/ MakeBackup(p) \/ MakeBackupFails(p)
    \/ \E x \in Parts : MoveOut(p, x) \/ MoveIn(p, x) \/ RemoveIn(p, x) \/ MoveBack(p, x)
    \/ ReadStaging(p) \/ Restore(p) \/ RemovedIn(p) \/ DropBackup(p)

Start(p) ==
    \/ \E ss \in SUBSET Skills, v \in Versions : BeginInstall(p, ss, v)
    \/ \E d \in Places, s \in Skills : BeginUpdate(p, d, s)

Next == \E p \in Procs : Start(p) \/ Step(p) \/ Kill(p)

Spec == Init /\ [][Next]_vars

-----------------------------------------------------------------------------
(* Properties.                                                             *)

(* RecordInstall is a read-modify-write of the whole file: outside of a    *)
(* write the file holds all that was recorded, entry by entry, in the      *)
(* order of the calls.  Only a write that was cut off loses entries.       *)
RecordIsAtomic ==
    (\A p \in Procs : pc[p] # "write") => entries = recorded

(* A skill is recorded only in a version of which some process has written *)
(* every file (Install, results of the workers).                           *)
RecordedIsInstalled ==
    [][\A s \in Skills : recorded'[s] \notin {None, recorded[s]} =>
          \E p \in Procs : s \in skills[p] /\ left[p][s] = {} /\ want[p] = recorded'[s]]_vars

(* updateSkillInPlace: a swap that ends leaves the new skill and nothing   *)
(* else, or the old one as it was, if no other process was in the same     *)
(* directories and every file could be moved back.                         *)
AllOrNothing ==
    [][\A p \in Procs :
          /\ pc[p] \in Swapping /\ pc'[p] \in {"done", "failed"}
          /\ p \notin disturbed \cup unrestored
          => content'[place[p]] =
                IF pc'[p] = "done" THEN Whole(want[p]) ELSE before[p]]_vars

(* While a swap is under way, and after a process has died in it, each old *)
(* file is in its place or in the backup directory.                        *)
OldFilesSurvive ==
    \A p \in Procs :
        /\ command[p] = "update" /\ pc[p] \in Swapping \cup {"dead"}
        /\ p \notin disturbed \cup unrestored
        => \A x \in Parts : before[p][x] # None =>
               before[p][x] \in {content[place[p]][x], content[Backup(p)][x]}

=============================================================================
