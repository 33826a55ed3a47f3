--------------------------- MODULE ReleaseUpload ---------------------------
(***************************************************************************)
(* `gh release create`, `upload` and `delete` on one tag.  A process is    *)
(* one command.  `create` with files saves a draft, uploads the files to   *)
(* it by a bounded number of workers, publishes it, and deletes it again   *)
(* when one of these steps fails.  `upload` finds the tag's release, and   *)
(* with --clobber replaces assets of the same name: it deletes, then       *)
(* uploads.  An upload is tried again after a network or server error.     *)
(*                                                                         *)
(* One action is one request, that is, its effect at the server together   *)
(* with the answer the command sees: with Faults the request may fail with *)
(* or without its effect, and a command may be killed between two steps.   *)
(***************************************************************************)
EXTENDS Naturals, FiniteSets

CONSTANTS
    Procs,        \* commands, each creating at most one release, named after it
    Old,          \* the release the tag had before, if any
    Files,        \* asset names (base names of the arguments)
    NoAsset,
    NumWorkers,   \* --concurrency: 5 in the code
    MaxAttempts,  \* attempts of one upload: 4 in the code
    Commands,     \* the commands that run
    Faults        \* may a request fail, an answer be lost, a command be killed?

AllCommands == {"create", "createDraft", "upload", "clobber", "delete"}
Releases == Procs \cup {Old}
Asset == Releases \X (0..MaxAttempts)

ASSUME OldAssumption == Old \notin Procs
ASSUME NoAssetAssumption == NoAsset \notin Asset
ASSUME NumWorkersAssumption == NumWorkers \in Nat \ {0}
ASSUME MaxAttemptsAssumption == MaxAttempts \in Nat \ {0}
ASSUME CommandsAssumption == Commands \subseteq AllCommands
ASSUME FaultsAssumption == Faults \in BOOLEAN

Ended == {"done", "failed", "dead"}
Pcs == {"idle", "check", "create", "fetch", "upload", "publish", "cleanup",
        "delete"} \cup Ended
Active == {"delete", "upload"}
Jobs == {"none", "queued", "done", "failed"} \cup Active

VARIABLES
    status,     \* the server: each release is none, draft, published or deleted
    assets,     \* the server: the asset a release has under a name
    pc,         \* each command's control point
    command,    \* what it was asked to do
    files,      \* the files it was given
    release,    \* the release it works on
    existing,   \* AssetForUpload.ExistingURL of each file
    job,        \* the goroutine of each file
    tries,      \* its attempts so far
    hitches,    \* history: requests of a command that failed or were not answered
    clobbered   \* history: the assets, by release and name, that a --clobber deleted

server == <<status, assets>>
call == <<command, files, release, existing>>
work == <<job, tries>>
history == <<hitches, clobbered>>
vars == <<server, pc, call, work, history>>

Requests == {"create", "upload", "publish", "cleanup"}

TypeOK ==
    /\ status \in [Releases -> {"none", "draft", "published", "deleted"}]
    /\ assets \in [Releases -> [Files -> Asset \cup {NoAsset}]]
    /\ pc \in [Procs -> Pcs]
    /\ command \in [Procs -> Commands \cup {"none"}]
    /\ files \in [Procs -> SUBSET Files]
    /\ release \in [Procs -> Releases]
    /\ existing \in [Procs -> [Files -> Asset \cup {NoAsset}]]
    /\ job \in [Procs -> [Files -> Jobs]]
    /\ tries \in [Procs -> [Files -> 0..MaxAttempts]]
    /\ hitches \in [Procs -> SUBSET Requests]
    /\ clobbered \subseteq Releases \X Files \X Asset

(* The tag may have a release, draft or public, with some assets.          *)
Init ==
    /\ \E s \in {"none", "draft", "published"}, have \in SUBSET Files :
          /\ s = "none" => have = {}
          /\ status = [r \in Releases |-> IF r = Old THEN s ELSE "none"]
          /\ assets = [r \in Releases |-> [f \in Files |->
                IF r = Old /\ f \in have THEN <<Old, 0>> ELSE NoAsset]]
    /\ pc = [p \in Procs |-> "idle"]
    /\ command = [p \in Procs |-> "none"]
    /\ files = [p \in Procs |-> {}]
    /\ release = [p \in Procs |-> p]
    /\ existing = [p \in Procs |-> [f \in Files |-> NoAsset]]
    /\ job = [p \in Procs |-> [f \in Files |-> "none"]]
    /\ tries = [p \in Procs |-> [f \in Files |-> 0]]
    /\ hitches = [p \in Procs |-> {}]
    /\ clobbered = {}

-----------------------------------------------------------------------------
(* Helpers.                                                                *)

Goto(p, to) == pc' = [pc EXCEPT ![p] = to]
Move(p, from, to) == pc[p] = from /\ Goto(p, to)

Public(r) == status[r] = "published"
Exists(r) == status[r] \in {"draft", "published"}

(* The server keeps at most one public release of a tag.                   *)
TagIsTaken == \E r \in Releases : Public(r)

(* A request that failed, or whose answer did not arrive.                  *)
Hitch(p, request) ==
    Faults /\ hitches' = [hitches EXCEPT ![p] = @ \cup {request}]

(* createRun saves a release with files as a draft and publishes it later. *)
DraftWhileUploading(p) == command[p] = "create" /\ files[p] # {}

(* Assets that this command has uploaded.                                  *)
Own(p) == {p} \X (0..MaxAttempts)
Stored(p, f) == assets[release[p]][f] \in Own(p)
SetJob(p, f, to) == job' = [job EXCEPT ![p][f] = to]

-----------------------------------------------------------------------------
(* A command starts.  Only `create` with files first looks for a public    *)
(* release of the tag.                                                     *)

FirstStep(c, fs) ==
    CASE c = "create" /\ fs # {}           -> "check"
      [] c \in {"upload", "clobber", "delete"} -> "fetch"
      [] OTHER                             -> "create"

Start(p) ==
    \E c \in Commands, fs \in SUBSET Files :
        /\ c \in {"upload", "clobber"} => fs # {}
        /\ c = "delete" => fs = {}
        /\ Move(p, "idle", FirstStep(c, fs))
        /\ command' = [command EXCEPT ![p] = c]
        /\ files' = [files EXCEPT ![p] = fs]
        /\ UNCHANGED <<server, release, existing, work, history>>

Check(p) ==
    /\ \/ ~TagIsTaken /\ Move(p, "check", "create")
       \/ (TagIsTaken \/ Faults) /\ Move(p, "check", "failed")
    /\ UNCHANGED <<server, call, work, history>>

-----------------------------------------------------------------------------
(* createRelease.                                                          *)

(* Mutant of CreateStatus: the release is public from the start.           *)
PublicAtOnce(p) == IF command[p] = "create" THEN "published" ELSE "draft"

CreateStatus(p) ==
    IF command[p] = "create" /\ files[p] = {} THEN "published" ELSE "draft"

QueueJobs(p) ==
    job' = [job EXCEPT ![p] =
                [f \in Files |-> IF f \in files[p] THEN "queued" ELSE "none"]]

CreateRelease(p) ==
    /\ CreateStatus(p) = "published" => ~TagIsTaken
    /\ status' = [status EXCEPT ![p] = CreateStatus(p)]
    /\ \/ /\ Move(p, "create", IF files[p] = {} THEN "done" ELSE "upload")
          /\ QueueJobs(p)
          /\ UNCHANGED hitches
       \/ /\ Move(p, "create", "failed")
          /\ Hitch(p, "create")
          /\ UNCHANGED job
    /\ UNCHANGED <<assets, call, tries, clobbered>>

CreateRefused(p) ==
    /\ Faults \/ (TagIsTaken /\ CreateStatus(p) = "published")
    /\ Move(p, "create", "failed")
    /\ UNCHANGED <<server, call, work, history>>

-----------------------------------------------------------------------------
(* FetchRelease takes whichever of the two lookups, for a public release   *)
(* and for a draft, answers first.                                         *)

FetchForDelete(p, r) ==
    /\ command[p] = "delete" /\ Exists(r)
    /\ Move(p, "fetch", "delete")
    /\ release' = [release EXCEPT ![p] = r]
    /\ UNCHANGED <<server, command, files, existing, work, history>>

(* uploadRun notes which of its files the release has.                     *)
FetchForUpload(p, r) ==
    LET taken == {f \in files[p] : assets[r][f] # NoAsset} IN
    /\ command[p] \in {"upload", "clobber"} /\ Exists(r)
    /\ taken # {} => command[p] = "clobber"
    /\ Move(p, "fetch", "upload")
    /\ release' = [release EXCEPT ![p] = r]
    /\ existing' = [existing EXCEPT ![p] =
           [f \in Files |-> IF f \in taken THEN assets[r][f] ELSE NoAsset]]
    /\ QueueJobs(p)
    /\ UNCHANGED <<server, command, files, tries, history>>

(* Nothing found, a name in use without --clobber, or no answer.           *)
FetchFails(p) ==
    /\ \/ Faults
       \/ ~\E r \in Releases : Exists(r)
       \/ /\ command[p] = "upload"
          /\ \E r \in Releases : Exists(r) /\ \E f \in files[p] : assets[r][f] # NoAsset
    /\ Move(p, "fetch", "failed")
    /\ UNCHANGED <<server, call, work, history>>

-----------------------------------------------------------------------------
(* ConcurrentUpload: an error group with a limit.  The first failing job   *)
(* cancels the context of all; a job that starts later still starts, and   *)
(* its first request fails.                                                *)

Cancelled(p) == \E f \in Files : job[p][f] = "failed"

StartJob(p, f) ==
    /\ pc[p] = "upload" /\ job[p][f] = "queued"
    /\ Cardinality({g \in Files : job[p][g] \in Active}) < NumWorkers
    /\ SetJob(p, f, IF existing[p][f] # NoAsset THEN "delete" ELSE "upload")
    /\ UNCHANGED <<server, pc, call, tries, history>>

(* uploadWithDelete: the old asset goes first, by its own URL ...          *)
DeleteAsset(p, f) ==
    /\ pc[p] = "upload" /\ job[p][f] = "delete" /\ ~Cancelled(p)
    /\ Exists(release[p]) /\ assets[release[p]][f] = existing[p][f]
    /\ assets' = [assets EXCEPT ![release[p]][f] = NoAsset]
    /\ clobbered' = clobbered \cup {<<release[p], f, existing[p][f]>>}
    /\ \/ SetJob(p, f, "upload") /\ UNCHANGED hitches
       \/ SetJob(p, f, "failed") /\ Hitch(p, "upload")
    /\ UNCHANGED <<status, pc, call, tries>>

(* ... and an error, a 404 among them, ends the job.                       *)
DeleteAssetFails(p, f) ==
    /\ pc[p] = "upload" /\ job[p][f] = "delete"
    /\ \/ Cancelled(p) \/ Faults
       \/ ~Exists(release[p]) \/ assets[release[p]][f] # existing[p][f]
    /\ SetJob(p, f, "failed")
    /\ UNCHANGED <<server, pc, call, tries, history>>

(* A failed attempt is retried unless it was the last, its error is not a  *)
(* network or server error, or the context is done.                        *)
Attempt(p, f) ==
    /\ pc[p] = "upload" /\ job[p][f] = "upload"
    /\ tries' = [tries EXCEPT ![p][f] = @ + 1]

(* Mutant of RetryOrFail: when the attempts are used up, no error is left. *)
RetryOrForget(p, f) ==
    SetJob(p, f, IF tries[p][f] + 1 < MaxAttempts THEN "upload" ELSE "done")

(* Mutant of RetryOrFail: the retries have no limit.                       *)
RetryAlways(p, f) == UNCHANGED job

RetryOrFail(p, f) ==
    \/ tries[p][f] + 1 < MaxAttempts /\ UNCHANGED job
    \/ SetJob(p, f, "failed")

(* Mutant of UploadAsset: a name that is taken is overwritten.             *)
UploadOver(p, f) ==
    /\ Attempt(p, f) /\ ~Cancelled(p) /\ Exists(release[p])
    /\ assets' = [assets EXCEPT ![release[p]][f] = <<p, tries[p][f] + 1>>]
    /\ SetJob(p, f, "done")
    /\ UNCHANGED <<status, pc, call, history>>

(* Mutant of UploadAsset: the answer 201 is not taken for a success.       *)
UploadMisread(p, f) ==
    /\ Attempt(p, f) /\ ~Cancelled(p)
    /\ Exists(release[p]) /\ assets[release[p]][f] = NoAsset
    /\ assets' = [assets EXCEPT ![release[p]][f] = <<p, tries[p][f] + 1>>]
    /\ SetJob(p, f, "failed")
    /\ UNCHANGED <<status, pc, call, history>>

UploadAsset(p, f) ==
    /\ Attempt(p, f) /\ ~Cancelled(p)
    /\ Exists(release[p]) /\ assets[release[p]][f] = NoAsset
    /\ assets' = [assets EXCEPT ![release[p]][f] = <<p, tries[p][f] + 1>>]
    /\ \/ SetJob(p, f, "done") /\ UNCHANGED hitches
       \/ RetryOrFail(p, f) /\ Hitch(p, "upload")
    /\ UNCHANGED <<status, pc, call, clobbered>>

(* The name is taken (422), or the release is gone (404): permanent.       *)
UploadRefused(p, f) ==
    /\ Attempt(p, f) /\ ~Cancelled(p)
    /\ ~Exists(release[p]) \/ assets[release[p]][f] # NoAsset
    /\ SetJob(p, f, "failed")
    /\ UNCHANGED <<server, pc, call, history>>

UploadFails(p, f) ==
    /\ Faults /\ Attempt(p, f) /\ ~Cancelled(p)
    /\ RetryOrFail(p, f)
    /\ UNCHANGED <<server, pc, call, history>>

UploadCancelled(p, f) ==
    /\ pc[p] = "upload" /\ job[p][f] = "upload" /\ Cancelled(p)
    /\ SetJob(p, f, "failed")
    /\ UNCHANGED <<server, pc, call, tries, history>>

(* Mutant of UploadsEnd: the error of g.Wait is dropped.                   *)
UploadsEndUnchecked(p) ==
    /\ \A f \in files[p] : job[p][f] \in {"done", "failed"}
    /\ Move(p, "upload", IF DraftWhileUploading(p) THEN "publish" ELSE "done")
    /\ UNCHANGED <<server, call, work, history>>

(* g.Wait returns the first error when all jobs have ended.                *)
UploadsEnd(p) ==
    /\ \A f \in files[p] : job[p][f] \in {"done", "failed"}
    /\ Move(p, "upload",
            IF DraftWhileUploading(p)
            THEN IF Cancelled(p) THEN "cleanup" ELSE "publish"
            ELSE IF Cancelled(p) THEN "failed" ELSE "done")
    /\ UNCHANGED <<server, call, work, history>>

-----------------------------------------------------------------------------
(* publishRelease, and cleanupDraftRelease after a failure.                *)

PublishRelease(p) ==
    /\ status[p] = "draft" /\ ~TagIsTaken
    /\ status' = [status EXCEPT ![p] = "published"]
    /\ \/ Move(p, "publish", "done") /\ UNCHANGED hitches
       \/ Move(p, "publish", "cleanup") /\ Hitch(p, "publish")
    /\ UNCHANGED <<assets, call, work, clobbered>>

(* Mutant of PublishFails: its error is returned without a clean-up.       *)
PublishGivesUp(p) ==
    /\ Faults \/ status[p] # "draft" \/ TagIsTaken
    /\ Move(p, "publish", "failed")
    /\ UNCHANGED <<server, call, work, history>>

PublishFails(p) ==
    /\ Faults \/ status[p] # "draft" \/ TagIsTaken
    /\ Move(p, "publish", "cleanup")
    /\ UNCHANGED <<server, call, work, history>>

Cleanup(p) ==
    /\ Move(p, "cleanup", "failed")
    /\ \/ status' = [status EXCEPT ![p] = "deleted"] /\ UNCHANGED hitches
       \/ UNCHANGED status /\ Hitch(p, "cleanup")
    /\ UNCHANGED <<assets, call, work, clobbered>>

-----------------------------------------------------------------------------
(* `gh release delete`.                                                    *)

DeleteRelease(p) ==
    /\ Exists(release[p])
    /\ \E to \in (IF Faults THEN {"done", "failed"} ELSE {"done"}) : Move(p, "delete", to)
    /\ status' = [status EXCEPT ![release[p]] = "deleted"]
    /\ UNCHANGED <<assets, call, work, history>>

DeleteReleaseFails(p) ==
    /\ Faults \/ ~Exists(release[p])
    /\ Move(p, "delete", "failed")
    /\ UNCHANGED <<server, call, work, history>>

(* The process dies, and what it remembers with it.                        *)
Kill(p) ==
    /\ Faults /\ pc[p] \notin Ended \cup {"idle"}
    /\ Goto(p, "dead")
    /\ existing' = [existing EXCEPT ![p] = [f \in Files |-> NoAsset]]
    /\ job' = [job EXCEPT ![p] = [f \in Files |-> "none"]]
    /\ tries' = [tries EXCEPT ![p] = [f \in Files |-> 0]]
    /\ UNCHANGED <<server, command, files, release, history>>

-----------------------------------------------------------------------------
JobStep(p, f) ==
    \/ StartJob(p, f)
    \/ DeleteAsset(p, f) \/ DeleteAssetFails(p, f)
    \/ UploadAsset(p, f) \/ UploadRefused(p, f) \/ UploadFails(p, f)
    \/ UploadCancelled(p, f)

Step(p) ==
    \/ Check(p) \/ CreateRelease(p) \/ CreateRefused(p)
    \/ \E r \in Releases : FetchForDelete(p, r) \/ FetchForUpload(p, r)
    \/ FetchFails(p)
    \/ \E f \in Files : JobStep(p, f)
    \/ UploadsEnd(p)
    \/ PublishRelease(p) \/ PublishFails(p) \/ Cleanup(p)
    \/ DeleteRelease(p) \/ DeleteReleaseFails(p)

Next == \E p \in Procs : Start(p) \/ Step(p) \/ Kill(p)

Spec == Init /\ [][Next]_vars

-----------------------------------------------------------------------------
(* Properties.                                                             *)

(* `create` makes a release public only with all its files: one that is    *)
(* missing from a public release was taken away by a --clobber             *)
(* (createRun, publishRelease after ConcurrentUpload).                     *)
PublicHasItsFiles ==
    \A p \in Procs : command[p] = "create" /\ Public(p) =>
        \A f \in files[p] :
            \/ Stored(p, f)
            \/ \E a \in Own(p) : <<p, f, a>> \in clobbered

(* What has become public is deleted by `gh release delete` only, or by    *)
(* the clean-up of a `create` that has not seen the answer to its publish  *)
(* request and takes the release for a draft (cleanupDraftRelease).        *)
PublicIsDeletedOnPurpose ==
    [][\A r \in Releases : Public(r) /\ status'[r] = "deleted" =>
          \E p \in Procs :
              \/ pc[p] = "delete" /\ release[p] = r
              \/ r = p /\ pc[p] = "cleanup" /\ "publish" \in hitches[p]]_vars

(* A `create` with files that reports a failure leaves no release behind,  *)
(* unless it never learned that it had one or could not delete it.         *)
FailedCreateLeavesNothing ==
    \A p \in Procs : pc[p] = "failed" /\ DraftWhileUploading(p) /\ Exists(p) =>
        hitches[p] \cap {"create", "cleanup"} # {}

(* When a command reports success, its files are there: one is missing or  *)
(* another's only if a --clobber deleted the very asset, or somebody the   *)
(* release (ConcurrentUpload, uploadWithDelete).                           *)
SuccessIsStored ==
    \A p \in Procs : pc[p] = "done" =>
        \A f \in files[p] :
            \/ Stored(p, f)
            \/ \E a \in Own(p) : <<release[p], f, a>> \in clobbered
            \/ status[release[p]] = "deleted"

(* The help of upload: "If the upload fails, the original assets will be   *)
(* lost."  They are lost only so: behind each asset that was deleted and   *)
(* not replaced stands a command that did not succeed.                     *)
LostOnlyByFailure ==
    \A r \in Releases, f \in Files :
        (\E a \in Asset : <<r, f, a>> \in clobbered) /\ assets[r][f] = NoAsset =>
            \E p \in Procs :
                /\ command[p] = "clobber" /\ release[p] = r /\ f \in files[p]
                /\ pc[p] # "done" /\ job[p][f] # "done"

(* An upload whose files have all arrived reports a failure only if an     *)
(* answer was lost: the retry is then refused as a duplicate of itself     *)
(* (uploadWithDelete, shouldRetry).                                        *)
UploadFailsForACause ==
    \A p \in Procs :
        /\ pc[p] = "failed" /\ ~DraftWhileUploading(p)
        /\ files[p] # {} /\ \A f \in files[p] : Stored(p, f)
        => "upload" \in hitches[p]

=============================================================================
