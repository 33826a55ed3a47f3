------------------------- MODULE ReleaseUploadProofs -------------------------
(***************************************************************************)
(* Proofs about ReleaseUpload, for any number of commands, files, workers  *)
(* and attempts, with or without faults.                                   *)
(***************************************************************************)
EXTENDS ReleaseUpload, TLAPS

-----------------------------------------------------------------------------
(* The parts of the inductive invariant.                                   *)

(* Before the uploads there are no jobs.                                   *)
Early == {"idle", "check", "create", "fetch"}
EarlyInv ==
    \A p \in Procs :
        /\ pc[p] \in Early => \A f \in Files : job[p][f] = "none"
        /\ pc[p] \in {"idle", "check", "create"} => status[p] = "none"
        /\ pc[p] \in Early => \A r \in Releases, f \in Files : assets[r][f] \notin Own(p)

(* A job that is not over has an attempt left; only --clobber deletes.     *)
JobOf(p, f) ==
    /\ job[p][f] \notin {"done", "failed"} => tries[p][f] < MaxAttempts
    /\ job[p][f] = "delete" => existing[p][f] # NoAsset
    /\ existing[p][f] # NoAsset => command[p] = "clobber" /\ f \in files[p]

JobInv == \A p \in Procs, f \in Files : JobOf(p, f)

(* Each command's steps, files and release.                                *)
CommandInv ==
    \A p \in Procs :
        /\ pc[p] = "idle" => command[p] = "none"
        /\ command[p] \in {"none", "create", "createDraft"} => release[p] = p
        /\ pc[p] \in {"publish", "cleanup"} => DraftWhileUploading(p)
        /\ pc[p] = "delete" => command[p] = "delete"
        /\ pc[p] = "fetch" => command[p] \in {"upload", "clobber", "delete"}
        /\ command[p] = "delete" => files[p] = {}

(* What a command has uploaded is there, unless a --clobber deleted it.    *)
Kept(p, f) ==
    \/ Stored(p, f)
    \/ \E a \in Own(p) : <<release[p], f, a>> \in clobbered

KeptOf(p) ==
    /\ \A f \in Files : job[p][f] = "done" => Kept(p, f)
    /\ pc[p] = "done" => \A f \in files[p] : Kept(p, f)
    /\ DraftWhileUploading(p) /\ (pc[p] = "publish" \/ Public(p))
         => \A f \in files[p] : Kept(p, f)

KeptInv == \A p \in Procs : KeptOf(p)

(* A release with files is a draft until its `create` publishes it, and a  *)
(* clean-up finds it public only after an unanswered request.              *)
DraftInv ==
    \A p \in Procs :
        /\ DraftWhileUploading(p) /\ pc[p] \in {"upload", "publish"} => ~Public(p)
        /\ pc[p] = "cleanup" /\ Public(p) => "publish" \in hitches[p]

(* Behind an asset that was deleted and not replaced stands a command that *)
(* has not replaced it.                                                    *)
Owes(p, r, f) ==
    /\ command[p] = "clobber" /\ release[p] = r /\ f \in files[p]
    /\ pc[p] \in {"upload", "failed", "dead"} /\ job[p][f] # "done"

Lost(r, f) == (\E a \in Asset : <<r, f, a>> \in clobbered) /\ assets[r][f] = NoAsset

LossInv ==
    \A r \in Releases, f \in Files : Lost(r, f) => \E p \in Procs : Owes(p, r, f)

(* An asset arrives unnoticed only when its answer is lost; and only a job *)
(* of one of the files fails.                                              *)
CauseOf(p, f) ==
    /\ Stored(p, f) /\ job[p][f] # "done" /\ pc[p] # "dead"
         => "upload" \in hitches[p]
    /\ job[p][f] # "none" => f \in files[p]

CauseInv == \A p \in Procs, f \in Files : CauseOf(p, f)

(* An upload that failed has a file whose job is not done.                 *)
UndoneOf(p) ==
    pc[p] = "failed" /\ ~DraftWhileUploading(p) /\ files[p] # {} =>
        \E f \in files[p] : job[p][f] # "done"

UndoneInv == \A p \in Procs : UndoneOf(p)

(* FailedCreateLeavesNothing for one command.                              *)
FailedOf(p) ==
    pc[p] = "failed" /\ DraftWhileUploading(p) /\ Exists(p) =>
        hitches[p] \cap {"create", "cleanup"} # {}

Inv ==
    /\ TypeOK /\ EarlyInv /\ JobInv /\ CommandInv /\ KeptInv
    /\ DraftInv /\ LossInv /\ CauseInv /\ UndoneInv /\ FailedCreateLeavesNothing

-----------------------------------------------------------------------------
(* Facts about the operators of the model.                                 *)

(* Every command's release is a release.                                   *)
LEMMA ProcsAreReleases == \A p \in Procs : p \in Releases
BY DEF Releases

(* Each command uploads assets of its own.                                 *)
LEMMA OwnFacts ==
    \A p \in Procs :
        /\ \A a \in Own(p) : a \in Asset
        /\ \A q \in Procs, n \in 0..MaxAttempts :
               <<q, n>> \in Asset /\ (<<q, n>> \in Own(p) <=> q = p)
BY NoAssetAssumption, OldAssumption DEF Own, Asset, Releases

(* What it has not uploaded.                                               *)
LEMMA NotOwn ==
    \A p \in Procs : NoAsset \notin Own(p) /\ <<Old, 0>> \notin Own(p)
BY NoAssetAssumption, OldAssumption DEF Own, Asset, Releases

(* The workers' queue.                                                     *)
LEMMA QueueFacts ==
    ASSUME TypeOK, NEW p \in Procs, QueueJobs(p)
    PROVE  /\ job' \in [Procs -> [Files -> Jobs]]
           /\ \A q \in Procs : q # p => job'[q] = job[q]
           /\ \A f \in Files :
                  job'[p][f] = IF f \in files[p] THEN "queued" ELSE "none"
BY DEF TypeOK, QueueJobs, Jobs

(* A job that makes an attempt has one left.                               *)
LEMMA AttemptType ==
    ASSUME TypeOK, JobInv, NEW p \in Procs, NEW f \in Files, Attempt(p, f)
    PROVE  /\ tries[p][f] + 1 \in 0..MaxAttempts
           /\ tries' \in [Procs -> [Files -> 0..MaxAttempts]]
<1>1. job[p][f] = "upload"
  BY DEF Attempt
<1>2. tries[p][f] \in 0..MaxAttempts
  BY DEF TypeOK
<1>3. tries[p][f] < MaxAttempts
  BY <1>1 DEF JobInv, JobOf
<1>4. tries[p][f] + 1 \in 0..MaxAttempts
  BY <1>2, <1>3, MaxAttemptsAssumption
<1>5. tries' = [tries EXCEPT ![p][f] = tries[p][f] + 1]
  BY DEF Attempt
<1>6. tries \in [Procs -> [Files -> 0..MaxAttempts]]
  BY DEF TypeOK
<1> QED
  BY <1>4, <1>5, <1>6

(* History only grows.                                                     *)
Grows(p, request) ==
    /\ hitches' \in [Procs -> SUBSET Requests]
    /\ \A q \in Procs : hitches[q] \subseteq hitches'[q]
    /\ request \in hitches'[p]

(* A request that failed is noted.                                         *)
LEMMA HitchGrows ==
    ASSUME TypeOK, NEW p \in Procs, NEW request \in Requests, Hitch(p, request)
    PROVE  Grows(p, request)
<1>1. hitches \in [Procs -> SUBSET Requests]
  BY DEF TypeOK
<1> QED
  BY <1>1 DEF Hitch, Grows

(* What a successful deletion of an asset changes.                         *)
DeleteEffect(p, f) ==
    /\ pc[p] = "upload" /\ job[p][f] = "delete"
    /\ command[p] = "clobber" /\ f \in files[p] /\ release[p] \in Releases
    /\ existing[p][f] \in Asset /\ assets[release[p]][f] = existing[p][f]
    /\ assets' = [assets EXCEPT ![release[p]][f] = NoAsset]
    /\ clobbered' = clobbered \cup {<<release[p], f, existing[p][f]>>}
    /\ \E to \in {"upload", "failed"} : job' = [job EXCEPT ![p][f] = to]
    /\ \/ hitches' = hitches
       \/ Grows(p, "upload")
    /\ status' = status /\ pc' = pc /\ command' = command /\ files' = files
    /\ release' = release /\ existing' = existing /\ tries' = tries

(* A deletion has that effect.                                             *)
LEMMA DeleteAssetEffect ==
    ASSUME TypeOK, JobInv
    PROVE  \A p \in Procs, f \in Files : DeleteAsset(p, f) => DeleteEffect(p, f)
<1> SUFFICES ASSUME NEW p \in Procs, NEW f \in Files, DeleteAsset(p, f)
             PROVE  DeleteEffect(p, f)
  OBVIOUS
<1>1. job[p][f] = "delete"
  BY DEF DeleteAsset
<1>2. existing[p][f] # NoAsset /\ command[p] = "clobber" /\ f \in files[p]
  BY <1>1 DEF JobInv, JobOf
<1>3. existing[p][f] \in Asset /\ release[p] \in Releases
  BY <1>2 DEF TypeOK
<1>4. hitches' = hitches \/ Grows(p, "upload")
  BY HitchGrows DEF DeleteAsset, Requests
<1>5. \E to \in {"upload", "failed"} : job' = [job EXCEPT ![p][f] = to]
  BY DEF DeleteAsset, SetJob
<1> QED
  BY <1>1, <1>2, <1>3, <1>4, <1>5 DEF DeleteAsset, DeleteEffect, call

(* What a successful upload changes.                                       *)
UploadEffect(p, f, a) ==
    /\ pc[p] = "upload" /\ job[p][f] = "upload" /\ release[p] \in Releases
    /\ a \in Asset /\ a \in Own(p) /\ \A q \in Procs : a \in Own(q) => q = p
    /\ assets[release[p]][f] = NoAsset
    /\ assets' = [assets EXCEPT ![release[p]][f] = a]
    /\ tries' = [tries EXCEPT ![p][f] = tries[p][f] + 1]
    /\ \/ job' = [job EXCEPT ![p][f] = "done"] /\ hitches' = hitches
       \/ /\ \/ job' = job /\ tries[p][f] + 1 < MaxAttempts
             \/ job' = [job EXCEPT ![p][f] = "failed"]
          /\ Grows(p, "upload")
    /\ status' = status /\ pc' = pc /\ command' = command /\ files' = files
    /\ release' = release /\ existing' = existing /\ clobbered' = clobbered

(* An upload has that effect.                                              *)
LEMMA UploadAssetEffect ==
    ASSUME TypeOK, JobInv
    PROVE  \A p \in Procs, f \in Files :
               UploadAsset(p, f) => UploadEffect(p, f, <<p, tries[p][f] + 1>>)
<1> SUFFICES ASSUME NEW p \in Procs, NEW f \in Files, UploadAsset(p, f)
             PROVE  UploadEffect(p, f, <<p, tries[p][f] + 1>>)
  OBVIOUS
<1>1. Attempt(p, f)
  BY DEF UploadAsset
<1>2. tries[p][f] + 1 \in 0..MaxAttempts
  BY <1>1, AttemptType
<1>3. /\ <<p, tries[p][f] + 1>> \in Asset /\ <<p, tries[p][f] + 1>> \in Own(p)
      /\ \A q \in Procs : <<p, tries[p][f] + 1>> \in Own(q) => q = p
  BY <1>2, OwnFacts
<1>4. release[p] \in Releases
  BY DEF TypeOK
<1>5. Hitch(p, "upload") => Grows(p, "upload")
  BY HitchGrows DEF Requests
<1> QED
  BY <1>1, <1>3, <1>4, <1>5 DEF UploadAsset, Attempt, SetJob, RetryOrFail, UploadEffect, call

-----------------------------------------------------------------------------
(* The invariant holds at the start.                                       *)
LEMMA InitStep == Init => Inv
<1> SUFFICES ASSUME Init PROVE Inv
  OBVIOUS
<1> USE DEF Init
<1>1. TypeOK
  BY MaxAttemptsAssumption DEF TypeOK, Pcs, Jobs, Asset, Releases
<1>2. EarlyInv
  <2>1. \A p \in Procs : status[p] = "none"
    BY ProcsAreReleases, OldAssumption
  <2>2. ASSUME NEW r \in Releases, NEW f \in Files
        PROVE  assets[r][f] \in {NoAsset, <<Old, 0>>}
    OBVIOUS
  <2>3. \A p \in Procs, r \in Releases, f \in Files : assets[r][f] \notin Own(p)
    BY <2>2, NotOwn
  <2> QED
    BY <2>1, <2>3 DEF EarlyInv, Early
<1>3. JobInv /\ CommandInv /\ UndoneInv
  BY MaxAttemptsAssumption DEF JobInv, JobOf, CommandInv, UndoneInv, UndoneOf
<1>4. KeptInv /\ DraftInv /\ FailedCreateLeavesNothing
  BY ProcsAreReleases, OldAssumption DEF KeptInv, KeptOf, Public, DraftInv, DraftWhileUploading, FailedCreateLeavesNothing
<1>5. LossInv
  BY DEF LossInv, Lost
<1>6. CauseInv
  <2>1. ASSUME NEW p \in Procs, NEW f \in Files
        PROVE  ~Stored(p, f)
    <3>1. assets[release[p]][f] \in {NoAsset, <<Old, 0>>}
      BY ProcsAreReleases
    <3> QED
      BY <3>1, NotOwn DEF Stored
  <2> QED
    BY <2>1 DEF CauseInv, CauseOf
<1> QED
  BY <1>1, <1>2, <1>3, <1>4, <1>5, <1>6 DEF Inv

-----------------------------------------------------------------------------
(* Each part is kept by every step.                                        *)

(* The variables keep their types.                                         *)
LEMMA TypeStep ==
    ASSUME TypeOK, JobInv, [Next]_vars
    PROVE  TypeOK'
<1>d. ASSUME NEW p \in Procs, NEW f \in Files, DeleteAsset(p, f)
      PROVE  DeleteEffect(p, f)
  BY <1>d, DeleteAssetEffect
<1>u. ASSUME NEW p \in Procs, NEW f \in Files, UploadAsset(p, f)
      PROVE  \E a : UploadEffect(p, f, a)
  BY <1>u, UploadAssetEffect
<1>t. ASSUME NEW p \in Procs, NEW f \in Files, Attempt(p, f)
      PROVE  tries' \in [Procs -> [Files -> 0..MaxAttempts]]
  BY <1>t, AttemptType
<1>q. ASSUME NEW p \in Procs, QueueJobs(p)
      PROVE  /\ job' \in [Procs -> [Files -> Jobs]]
             /\ \A q \in Procs : q # p => job'[q] = job[q]
             /\ \A f \in Files :
                    job'[p][f] = IF f \in files[p] THEN "queued" ELSE "none"
  BY <1>q, QueueFacts
<1>h. \A p \in Procs, request \in Requests : Hitch(p, request) => hitches' \in [Procs -> SUBSET Requests]
  BY HitchGrows DEF Grows
<1> USE DEF TypeOK, Pcs, Ended, Jobs, Active, server, call, work, history
<1>1. ASSUME NEW p \in Procs, Start(p)
      PROVE  TypeOK'
  BY <1>1 DEF Start, FirstStep, Move, Goto
<1>2. ASSUME NEW p \in Procs, Check(p)
      PROVE  TypeOK'
  BY <1>2 DEF Check, Move, Goto
<1>3. ASSUME NEW p \in Procs, CreateRelease(p)
      PROVE  TypeOK'
  <2>1. hitches' \in [Procs -> SUBSET Requests]
    BY <1>3, <1>h DEF CreateRelease, Requests
  <2>2. status' \in [Releases -> {"none", "draft", "published", "deleted"}]
    BY <1>3, ProcsAreReleases DEF CreateRelease, CreateStatus
  <2>3. job' \in [Procs -> [Files -> Jobs]]
    BY <1>3, <1>q DEF CreateRelease
  <2>4. pc' \in [Procs -> Pcs]
    BY <1>3 DEF CreateRelease, Move, Goto
  <2> QED
    BY <1>3, <2>1, <2>2, <2>3, <2>4 DEF CreateRelease
<1>4. ASSUME NEW p \in Procs, CreateRefused(p)
      PROVE  TypeOK'
  BY <1>4 DEF CreateRefused, CreateStatus, Move, Goto
<1>5. ASSUME NEW p \in Procs, NEW rel \in Releases, FetchForDelete(p, rel)
      PROVE  TypeOK'
  BY <1>5 DEF FetchForDelete, Exists, Move, Goto
<1>6. ASSUME NEW p \in Procs, NEW rel \in Releases, FetchForUpload(p, rel)
      PROVE  TypeOK'
  BY <1>6, ProcsAreReleases DEF FetchForUpload, Exists, QueueJobs, Move, Goto
<1>7. ASSUME NEW p \in Procs, FetchFails(p)
      PROVE  TypeOK'
  BY <1>7 DEF FetchFails, Move, Goto
<1>8. ASSUME NEW p \in Procs, NEW f \in Files, StartJob(p, f)
      PROVE  TypeOK'
  BY <1>8 DEF StartJob, SetJob, Active
<1>9. ASSUME NEW p \in Procs, NEW f \in Files, DeleteAsset(p, f)
      PROVE  TypeOK'
  <2>d. DeleteEffect(p, f)
    BY <1>9, <1>d
  <2>1. assets' \in [Releases -> [Files -> Asset \cup {NoAsset}]]
    BY <2>d DEF DeleteEffect
  <2>2. clobbered' \subseteq Releases \X Files \X Asset
    BY <2>d DEF DeleteEffect
  <2>3. job' \in [Procs -> [Files -> Jobs]]
    BY <2>d DEF DeleteEffect
  <2>4. hitches' \in [Procs -> SUBSET Requests]
    BY <2>d DEF DeleteEffect, Grows
  <2> QED
    BY <2>d, <2>1, <2>2, <2>3, <2>4 DEF DeleteEffect
<1>10. ASSUME NEW p \in Procs, NEW f \in Files, DeleteAssetFails(p, f)
       PROVE  TypeOK'
  BY <1>10 DEF DeleteAssetFails, SetJob
<1>11. ASSUME NEW p \in Procs, NEW f \in Files, UploadAsset(p, f)
       PROVE  TypeOK'
  <2>u. PICK a : UploadEffect(p, f, a)
    BY <1>11, <1>u
  <2>1. assets' \in [Releases -> [Files -> Asset \cup {NoAsset}]]
    BY <2>u DEF UploadEffect
  <2>2. tries' \in [Procs -> [Files -> 0..MaxAttempts]]
    BY <1>11, <1>t DEF UploadAsset
  <2>3. job' \in [Procs -> [Files -> Jobs]]
    <3>1. CASE job' = job
      BY <3>1
    <3>2. ASSUME NEW to \in {"done", "failed"}, job' = [job EXCEPT ![p][f] = to]
          PROVE  job' \in [Procs -> [Files -> Jobs]]
      BY <3>2
    <3> QED
      BY <2>u, <3>1, <3>2 DEF UploadEffect
  <2>4. hitches' \in [Procs -> SUBSET Requests]
    BY <2>u DEF UploadEffect, Grows
  <2> QED
    BY <2>u, <2>1, <2>2, <2>3, <2>4 DEF UploadEffect
<1>12. ASSUME NEW p \in Procs, NEW f \in Files, UploadRefused(p, f)
       PROVE  TypeOK'
  <2>1. tries' \in [Procs -> [Files -> 0..MaxAttempts]]
    BY <1>12, <1>t DEF UploadRefused
  <2> QED
    BY <1>12, <2>1 DEF UploadRefused, SetJob
<1>13. ASSUME NEW p \in Procs, NEW f \in Files, UploadFails(p, f)
       PROVE  TypeOK'
  <2>1. tries' \in [Procs -> [Files -> 0..MaxAttempts]]
    BY <1>13, <1>t DEF UploadFails
  <2>2. CASE UNCHANGED job
    BY <1>13, <2>1, <2>2 DEF UploadFails
  <2>3. CASE SetJob(p, f, "failed")
    BY <1>13, <2>1, <2>3 DEF UploadFails, SetJob
  <2> QED
    BY <1>13, <2>2, <2>3 DEF UploadFails, RetryOrFail
<1>14. ASSUME NEW p \in Procs, NEW f \in Files, UploadCancelled(p, f)
       PROVE  TypeOK'
  BY <1>14 DEF UploadCancelled, SetJob
<1>15. ASSUME NEW p \in Procs, UploadsEnd(p)
       PROVE  TypeOK'
  BY <1>15 DEF UploadsEnd, Cancelled, DraftWhileUploading, Move, Goto
<1>16. ASSUME NEW p \in Procs, PublishRelease(p)
       PROVE  TypeOK'
  <2>1. hitches' \in [Procs -> SUBSET Requests]
    BY <1>16, <1>h DEF PublishRelease, Requests
  <2>2. pc' \in [Procs -> Pcs]
    BY <1>16 DEF PublishRelease, Move, Goto
  <2> QED
    BY <1>16, <2>1, <2>2, ProcsAreReleases DEF PublishRelease
<1>17. ASSUME NEW p \in Procs, PublishFails(p)
       PROVE  TypeOK'
  BY <1>17 DEF PublishFails, Move, Goto
<1>18. ASSUME NEW p \in Procs, Cleanup(p)
       PROVE  TypeOK'
  <2>1. hitches' \in [Procs -> SUBSET Requests]
    BY <1>18, <1>h DEF Cleanup, Requests
  <2>2. status' \in [Releases -> {"none", "draft", "published", "deleted"}]
    BY <1>18, ProcsAreReleases DEF Cleanup
  <2> QED
    BY <1>18, <2>1, <2>2 DEF Cleanup, Move, Goto
<1>19. ASSUME NEW p \in Procs, DeleteRelease(p)
       PROVE  TypeOK'
  BY <1>19 DEF DeleteRelease, Exists, Move, Goto
<1>20. ASSUME NEW p \in Procs, DeleteReleaseFails(p)
       PROVE  TypeOK'
  BY <1>20 DEF DeleteReleaseFails, Move, Goto
<1>21. ASSUME NEW p \in Procs, Kill(p)
       PROVE  TypeOK'
  BY <1>21, MaxAttemptsAssumption DEF Kill, Goto, Ended
<1>22. CASE UNCHANGED vars
  BY <1>22 DEF vars
<1> QED
  BY <1>1, <1>2, <1>3, <1>4, <1>5, <1>6, <1>7, <1>8, <1>9, <1>10, <1>11,
     <1>12, <1>13, <1>14, <1>15, <1>16, <1>17, <1>18, <1>19, <1>20, <1>21, <1>22 DEF Next, Step, JobStep

(* No job, asset or release before its time.                               *)
LEMMA EarlyStep ==
    ASSUME TypeOK, EarlyInv, JobInv, CommandInv, [Next]_vars
    PROVE  EarlyInv'
<1>d. ASSUME NEW p \in Procs, NEW f \in Files, DeleteAsset(p, f)
      PROVE  DeleteEffect(p, f)
  BY <1>d, DeleteAssetEffect
<1>u. ASSUME NEW p \in Procs, NEW f \in Files, UploadAsset(p, f)
      PROVE  \E a : UploadEffect(p, f, a)
  BY <1>u, UploadAssetEffect
<1> USE DEF TypeOK, Pcs, Ended, Jobs, Active, server, call, work, history, EarlyInv, Early, CommandInv
<1>1. ASSUME NEW p \in Procs, Start(p)
      PROVE  EarlyInv'
  BY <1>1 DEF Start, FirstStep, Move, Goto
<1>2. ASSUME NEW p \in Procs, Check(p)
      PROVE  EarlyInv'
  BY <1>2 DEF Check, Move, Goto
<1>3. ASSUME NEW p \in Procs, CreateRelease(p)
      PROVE  EarlyInv'
  BY <1>3, ProcsAreReleases DEF CreateRelease, CreateStatus, QueueJobs, Hitch, Move, Goto
<1>4. ASSUME NEW p \in Procs, CreateRefused(p)
      PROVE  EarlyInv'
  BY <1>4 DEF CreateRefused, CreateStatus, Move, Goto
<1>5. ASSUME NEW p \in Procs, NEW rel \in Releases, FetchForDelete(p, rel)
      PROVE  EarlyInv'
  BY <1>5 DEF FetchForDelete, Exists, Move, Goto
<1>6. ASSUME NEW p \in Procs, NEW rel \in Releases, FetchForUpload(p, rel)
      PROVE  EarlyInv'
  BY <1>6 DEF FetchForUpload, Exists, QueueJobs, Move, Goto
<1>7. ASSUME NEW p \in Procs, FetchFails(p)
      PROVE  EarlyInv'
  BY <1>7 DEF FetchFails, Move, Goto
<1>8. ASSUME NEW p \in Procs, NEW f \in Files, StartJob(p, f)
      PROVE  EarlyInv'
  BY <1>8 DEF StartJob, SetJob, Active
<1>9. ASSUME NEW p \in Procs, NEW f \in Files, DeleteAsset(p, f)
      PROVE  EarlyInv'
  <2>d. DeleteEffect(p, f)
    BY <1>9, <1>d
  <2>1. \A q \in Procs, r \in Releases, g \in Files : assets[r][g] \notin Own(q) => assets'[r][g] \notin Own(q)
    BY <2>d, NotOwn DEF DeleteEffect
  <2>2. \A q \in Procs, g \in Files : pc[q] # "upload" => job'[q][g] = job[q][g]
    BY <2>d DEF DeleteEffect
  <2> QED
    BY <2>d, <2>1, <2>2 DEF DeleteEffect
<1>10. ASSUME NEW p \in Procs, NEW f \in Files, DeleteAssetFails(p, f)
       PROVE  EarlyInv'
  BY <1>10 DEF DeleteAssetFails, SetJob
<1>11. ASSUME NEW p \in Procs, NEW f \in Files, UploadAsset(p, f)
       PROVE  EarlyInv'
  <2>u. PICK a : UploadEffect(p, f, a)
    BY <1>11, <1>u
  <2>1. \A q \in Procs, r \in Releases, g \in Files :
             q # p /\ assets[r][g] \notin Own(q) => assets'[r][g] \notin Own(q)
    BY <2>u DEF UploadEffect
  <2>2. \A q \in Procs, g \in Files : pc[q] # "upload" => job'[q][g] = job[q][g]
    BY <2>u DEF UploadEffect
  <2> QED
    BY <2>u, <2>1, <2>2 DEF UploadEffect
<1>12. ASSUME NEW p \in Procs, NEW f \in Files, UploadRefused(p, f)
       PROVE  EarlyInv'
  BY <1>12 DEF UploadRefused, Attempt, SetJob
<1>13. ASSUME NEW p \in Procs, NEW f \in Files, UploadFails(p, f)
       PROVE  EarlyInv'
  BY <1>13 DEF UploadFails, Attempt, SetJob, RetryOrFail
<1>14. ASSUME NEW p \in Procs, NEW f \in Files, UploadCancelled(p, f)
       PROVE  EarlyInv'
  BY <1>14 DEF UploadCancelled, SetJob
<1>15. ASSUME NEW p \in Procs, UploadsEnd(p)
       PROVE  EarlyInv'
  BY <1>15 DEF UploadsEnd, Cancelled, DraftWhileUploading, Move, Goto
<1>16. ASSUME NEW p \in Procs, PublishRelease(p)
       PROVE  EarlyInv'
  BY <1>16, ProcsAreReleases DEF PublishRelease, Hitch, Move, Goto
<1>17. ASSUME NEW p \in Procs, PublishFails(p)
       PROVE  EarlyInv'
  BY <1>17 DEF PublishFails, Move, Goto
<1>18. ASSUME NEW p \in Procs, Cleanup(p)
       PROVE  EarlyInv'
  BY <1>18, ProcsAreReleases DEF Cleanup, Hitch, Move, Goto
<1>19. ASSUME NEW p \in Procs, DeleteRelease(p)
       PROVE  EarlyInv'
  BY <1>19, ProcsAreReleases DEF DeleteRelease, Exists, Move, Goto
<1>20. ASSUME NEW p \in Procs, DeleteReleaseFails(p)
       PROVE  EarlyInv'
  BY <1>20 DEF DeleteReleaseFails, Move, Goto
<1>21. ASSUME NEW p \in Procs, Kill(p)
       PROVE  EarlyInv'
  BY <1>21 DEF Kill, Goto, Ended
<1>22. CASE UNCHANGED vars
  BY <1>22 DEF vars
<1> QED
  BY <1>1, <1>2, <1>3, <1>4, <1>5, <1>6, <1>7, <1>8, <1>9, <1>10, <1>11,
     <1>12, <1>13, <1>14, <1>15, <1>16, <1>17, <1>18, <1>19, <1>20, <1>21, <1>22 DEF Next, Step, JobStep

(* A job that goes on has an attempt left.                                 *)
LEMMA JobInvStep ==
    ASSUME TypeOK, EarlyInv, JobInv, CommandInv, NEW q \in Procs, NEW g \in Files, [Next]_vars
    PROVE  JobOf(q, g)'
<1>d. ASSUME NEW p \in Procs, NEW f \in Files, DeleteAsset(p, f)
      PROVE  DeleteEffect(p, f)
  BY <1>d, DeleteAssetEffect
<1>u. ASSUME NEW p \in Procs, NEW f \in Files, UploadAsset(p, f)
      PROVE  \E a : UploadEffect(p, f, a)
  BY <1>u, UploadAssetEffect
<1>q. ASSUME NEW p \in Procs, QueueJobs(p)
      PROVE  /\ job' \in [Procs -> [Files -> Jobs]]
             /\ \A other \in Procs : other # p => job'[other] = job[other]
             /\ \A f \in Files :
                    job'[p][f] = IF f \in files[p] THEN "queued" ELSE "none"
  BY <1>q, QueueFacts
<1> USE DEF TypeOK, Pcs, Ended, Jobs, Active, server, call, work, history
<1>a. JobOf(q, g)
  BY DEF JobInv
<1>b. /\ pc[q] \in Early => job[q][g] = "none"
      /\ pc[q] = "idle" => command[q] = "none"
  BY DEF EarlyInv, CommandInv
<1> USE DEF JobOf, Early
<1>1. ASSUME NEW p \in Procs, Start(p)
      PROVE  JobOf(q, g)'
  BY <1>1, <1>a, <1>b DEF Start, FirstStep, Move, Goto
<1>2. ASSUME NEW p \in Procs, Check(p)
      PROVE  JobOf(q, g)'
  BY <1>2, <1>a, <1>b DEF Check, Move, Goto
<1>3. ASSUME NEW p \in Procs, CreateRelease(p)
      PROVE  JobOf(q, g)'
  <2>1. q # p => job'[q][g] = job[q][g]
    BY <1>3, <1>q DEF CreateRelease
  <2>2. q = p => job'[q][g] # "delete"
    BY <1>3, <1>a, <1>b, <1>q DEF CreateRelease, Move
  <2> QED
    BY <1>3, <1>a, <1>b, <2>1, <2>2 DEF CreateRelease, Move
<1>4. ASSUME NEW p \in Procs, CreateRefused(p)
      PROVE  JobOf(q, g)'
  BY <1>4, <1>a, <1>b DEF CreateRefused, CreateStatus, Move, Goto
<1>5. ASSUME NEW p \in Procs, NEW rel \in Releases, FetchForDelete(p, rel)
      PROVE  JobOf(q, g)'
  BY <1>5, <1>a, <1>b DEF FetchForDelete, Exists, Move, Goto
<1>6. ASSUME NEW p \in Procs, NEW rel \in Releases, FetchForUpload(p, rel)
      PROVE  JobOf(q, g)'
  BY <1>6, <1>a, <1>b DEF FetchForUpload, Exists, QueueJobs, Move, Goto
<1>7. ASSUME NEW p \in Procs, FetchFails(p)
      PROVE  JobOf(q, g)'
  BY <1>7, <1>a, <1>b DEF FetchFails, Move, Goto
<1>8. ASSUME NEW p \in Procs, NEW f \in Files, StartJob(p, f)
      PROVE  JobOf(q, g)'
  BY <1>8, <1>a, <1>b DEF StartJob, SetJob, Active
<1>9. ASSUME NEW p \in Procs, NEW f \in Files, DeleteAsset(p, f)
      PROVE  JobOf(q, g)'
  <2>d. DeleteEffect(p, f)
    BY <1>9, <1>d
  <2> QED
    BY <1>a, <2>d DEF DeleteEffect
<1>10. ASSUME NEW p \in Procs, NEW f \in Files, DeleteAssetFails(p, f)
       PROVE  JobOf(q, g)'
  BY <1>10, <1>a, <1>b DEF DeleteAssetFails, SetJob
<1>11. ASSUME NEW p \in Procs, NEW f \in Files, UploadAsset(p, f)
       PROVE  JobOf(q, g)'
  <2>u. PICK a : UploadEffect(p, f, a)
    BY <1>11, <1>u
  <2> QED
    BY <1>a, <2>u DEF UploadEffect
<1>12. ASSUME NEW p \in Procs, NEW f \in Files, UploadRefused(p, f)
       PROVE  JobOf(q, g)'
  BY <1>12, <1>a, <1>b DEF UploadRefused, Attempt, SetJob
<1>13. ASSUME NEW p \in Procs, NEW f \in Files, UploadFails(p, f)
       PROVE  JobOf(q, g)'
  BY <1>13, <1>a, <1>b DEF UploadFails, Attempt, SetJob, RetryOrFail
<1>14. ASSUME NEW p \in Procs, NEW f \in Files, UploadCancelled(p, f)
       PROVE  JobOf(q, g)'
  BY <1>14, <1>a, <1>b DEF UploadCancelled, SetJob
<1>15. ASSUME NEW p \in Procs, UploadsEnd(p)
       PROVE  JobOf(q, g)'
  BY <1>15, <1>a, <1>b DEF UploadsEnd, Cancelled, DraftWhileUploading, Move, Goto
<1>16. ASSUME NEW p \in Procs, PublishRelease(p)
       PROVE  JobOf(q, g)'
  BY <1>16, <1>a, <1>b DEF PublishRelease, Hitch, Move, Goto
<1>17. ASSUME NEW p \in Procs, PublishFails(p)
       PROVE  JobOf(q, g)'
  BY <1>17, <1>a, <1>b DEF PublishFails, Move, Goto
<1>18. ASSUME NEW p \in Procs, Cleanup(p)
       PROVE  JobOf(q, g)'
  BY <1>18, <1>a, <1>b DEF Cleanup, Hitch, Move, Goto
<1>19. ASSUME NEW p \in Procs, DeleteRelease(p)
       PROVE  JobOf(q, g)'
  BY <1>19, <1>a, <1>b DEF DeleteRelease, Exists, Move, Goto
<1>20. ASSUME NEW p \in Procs, DeleteReleaseFails(p)
       PROVE  JobOf(q, g)'
  BY <1>20, <1>a, <1>b DEF DeleteReleaseFails, Move, Goto
<1>21. ASSUME NEW p \in Procs, Kill(p)
       PROVE  JobOf(q, g)'
  BY <1>21, <1>a, <1>b, MaxAttemptsAssumption DEF Kill, Goto, Ended
<1>22. CASE UNCHANGED vars
  BY <1>22, <1>a, <1>b DEF vars
<1> QED
  BY <1>1, <1>2, <1>3, <1>4, <1>5, <1>6, <1>7, <1>8, <1>9, <1>10, <1>11,
     <1>12, <1>13, <1>14, <1>15, <1>16, <1>17, <1>18, <1>19, <1>20, <1>21, <1>22 DEF Next, Step, JobStep

(* Each command stays on its own path.                                     *)
LEMMA CommandStep ==
    ASSUME TypeOK, JobInv, CommandInv, [Next]_vars
    PROVE  CommandInv'
<1>d. ASSUME NEW p \in Procs, NEW f \in Files, DeleteAsset(p, f)
      PROVE  DeleteEffect(p, f)
  BY <1>d, DeleteAssetEffect
<1>u. ASSUME NEW p \in Procs, NEW f \in Files, UploadAsset(p, f)
      PROVE  \E a : UploadEffect(p, f, a)
  BY <1>u, UploadAssetEffect
<1> USE DEF TypeOK, Pcs, Ended, Jobs, Active, server, call, work, history, CommandInv, DraftWhileUploading
<1>1. ASSUME NEW p \in Procs, Start(p)
      PROVE  CommandInv'
  BY <1>1, CommandsAssumption DEF Start, FirstStep, Move, Goto, AllCommands
<1>2. ASSUME NEW p \in Procs, Check(p)
      PROVE  CommandInv'
  BY <1>2 DEF Check, Move, Goto
<1>3. ASSUME NEW p \in Procs, CreateRelease(p)
      PROVE  CommandInv'
  BY <1>3 DEF CreateRelease, CreateStatus, QueueJobs, Hitch, Move, Goto
<1>4. ASSUME NEW p \in Procs, CreateRefused(p)
      PROVE  CommandInv'
  BY <1>4 DEF CreateRefused, CreateStatus, Move, Goto
<1>5. ASSUME NEW p \in Procs, NEW rel \in Releases, FetchForDelete(p, rel)
      PROVE  CommandInv'
  BY <1>5 DEF FetchForDelete, Exists, Move, Goto
<1>6. ASSUME NEW p \in Procs, NEW rel \in Releases, FetchForUpload(p, rel)
      PROVE  CommandInv'
  BY <1>6 DEF FetchForUpload, Exists, QueueJobs, Move, Goto
<1>7. ASSUME NEW p \in Procs, FetchFails(p)
      PROVE  CommandInv'
  BY <1>7 DEF FetchFails, Move, Goto
<1>8. ASSUME NEW p \in Procs, NEW f \in Files, StartJob(p, f)
      PROVE  CommandInv'
  BY <1>8 DEF StartJob, SetJob, Active
<1>9. ASSUME NEW p \in Procs, NEW f \in Files, DeleteAsset(p, f)
      PROVE  CommandInv'
  <2>d. DeleteEffect(p, f)
    BY <1>9, <1>d
  <2> QED
    BY <2>d DEF DeleteEffect, Grows
<1>10. ASSUME NEW p \in Procs, NEW f \in Files, DeleteAssetFails(p, f)
       PROVE  CommandInv'
  BY <1>10 DEF DeleteAssetFails, SetJob
<1>11. ASSUME NEW p \in Procs, NEW f \in Files, UploadAsset(p, f)
       PROVE  CommandInv'
  <2>u. PICK a : UploadEffect(p, f, a)
    BY <1>11, <1>u
  <2> QED
    BY <2>u DEF UploadEffect, Grows
<1>12. ASSUME NEW p \in Procs, NEW f \in Files, UploadRefused(p, f)
       PROVE  CommandInv'
  BY <1>12 DEF UploadRefused, Attempt, SetJob
<1>13. ASSUME NEW p \in Procs, NEW f \in Files, UploadFails(p, f)
       PROVE  CommandInv'
  BY <1>13 DEF UploadFails, Attempt, SetJob, RetryOrFail
<1>14. ASSUME NEW p \in Procs, NEW f \in Files, UploadCancelled(p, f)
       PROVE  CommandInv'
  BY <1>14 DEF UploadCancelled, SetJob
<1>15. ASSUME NEW p \in Procs, UploadsEnd(p)
       PROVE  CommandInv'
  BY <1>15 DEF UploadsEnd, Cancelled, DraftWhileUploading, Move, Goto
<1>16. ASSUME NEW p \in Procs, PublishRelease(p)
       PROVE  CommandInv'
  BY <1>16 DEF PublishRelease, Hitch, Move, Goto
<1>17. ASSUME NEW p \in Procs, PublishFails(p)
       PROVE  CommandInv'
  BY <1>17 DEF PublishFails, Move, Goto
<1>18. ASSUME NEW p \in Procs, Cleanup(p)
       PROVE  CommandInv'
  BY <1>18 DEF Cleanup, Hitch, Move, Goto
<1>19. ASSUME NEW p \in Procs, DeleteRelease(p)
       PROVE  CommandInv'
  BY <1>19 DEF DeleteRelease, Exists, Move, Goto
<1>20. ASSUME NEW p \in Procs, DeleteReleaseFails(p)
       PROVE  CommandInv'
  BY <1>20 DEF DeleteReleaseFails, Move, Goto
<1>21. ASSUME NEW p \in Procs, Kill(p)
       PROVE  CommandInv'
  BY <1>21 DEF Kill, Goto, Ended
<1>22. CASE UNCHANGED vars
  BY <1>22, CommandsAssumption DEF vars
<1> QED
  BY <1>1, <1>2, <1>3, <1>4, <1>5, <1>6, <1>7, <1>8, <1>9, <1>10, <1>11,
     <1>12, <1>13, <1>14, <1>15, <1>16, <1>17, <1>18, <1>19, <1>20, <1>21, <1>22 DEF Next, Step, JobStep

(* What a command has uploaded is not lost unnoticed.                      *)
LEMMA KeptStable ==
    ASSUME TypeOK, JobInv, NEW q \in Procs, NEW g \in Files, pc[q] \notin Early, Kept(q, g), [Next]_vars
    PROVE  Kept(q, g)'
<1>d. ASSUME NEW p \in Procs, NEW f \in Files, DeleteAsset(p, f)
      PROVE  DeleteEffect(p, f)
  BY <1>d, DeleteAssetEffect
<1>u. ASSUME NEW p \in Procs, NEW f \in Files, UploadAsset(p, f)
      PROVE  \E a : UploadEffect(p, f, a)
  BY <1>u, UploadAssetEffect
<1> USE DEF TypeOK, Pcs, Ended, Jobs, Active, server, call, work, history, Early, Kept, Stored
<1>1. ASSUME NEW p \in Procs, Start(p)
      PROVE  Kept(q, g)'
  BY <1>1 DEF Start, FirstStep, Move, Goto
<1>2. ASSUME NEW p \in Procs, Check(p)
      PROVE  Kept(q, g)'
  BY <1>2 DEF Check, Move, Goto
<1>3. ASSUME NEW p \in Procs, CreateRelease(p)
      PROVE  Kept(q, g)'
  BY <1>3 DEF CreateRelease, CreateStatus, QueueJobs, Hitch, Move, Goto
<1>4. ASSUME NEW p \in Procs, CreateRefused(p)
      PROVE  Kept(q, g)'
  BY <1>4 DEF CreateRefused, CreateStatus, Move, Goto
<1>5. ASSUME NEW p \in Procs, NEW rel \in Releases, FetchForDelete(p, rel)
      PROVE  Kept(q, g)'
  BY <1>5 DEF FetchForDelete, Exists, Move, Goto
<1>6. ASSUME NEW p \in Procs, NEW rel \in Releases, FetchForUpload(p, rel)
      PROVE  Kept(q, g)'
  BY <1>6 DEF FetchForUpload, Exists, QueueJobs, Move, Goto
<1>7. ASSUME NEW p \in Procs, FetchFails(p)
      PROVE  Kept(q, g)'
  BY <1>7 DEF FetchFails, Move, Goto
<1>8. ASSUME NEW p \in Procs, NEW f \in Files, StartJob(p, f)
      PROVE  Kept(q, g)'
  BY <1>8 DEF StartJob, SetJob, Active
<1>9. ASSUME NEW p \in Procs, NEW f \in Files, DeleteAsset(p, f)
      PROVE  Kept(q, g)'
  <2>d. DeleteEffect(p, f)
    BY <1>9, <1>d
  <2>1. CASE Stored(q, g) /\ release[q] = release[p] /\ g = f
    <3>1. existing[p][f] \in Own(q) /\ <<release[q], g, existing[p][f]>> \in clobbered'
      BY <2>1, <2>d DEF DeleteEffect
    <3> QED
      BY <2>d, <3>1 DEF DeleteEffect
  <2>2. CASE Stored(q, g) /\ ~(release[q] = release[p] /\ g = f)
    BY <2>2, <2>d DEF DeleteEffect
  <2>3. CASE ~Stored(q, g)
    BY <2>3, <2>d DEF DeleteEffect
  <2> QED
    BY <2>1, <2>2, <2>3
<1>10. ASSUME NEW p \in Procs, NEW f \in Files, DeleteAssetFails(p, f)
       PROVE  Kept(q, g)'
  BY <1>10 DEF DeleteAssetFails, SetJob
<1>11. ASSUME NEW p \in Procs, NEW f \in Files, UploadAsset(p, f)
       PROVE  Kept(q, g)'
  <2>u. PICK a : UploadEffect(p, f, a)
    BY <1>11, <1>u
  <2>1. CASE Stored(q, g)
    <3>1. ~(release[q] = release[p] /\ g = f)
      BY <2>1, <2>u, NotOwn DEF UploadEffect
    <3> QED
      BY <2>1, <3>1, <2>u DEF UploadEffect
  <2>2. CASE ~Stored(q, g)
    BY <2>2, <2>u DEF UploadEffect
  <2> QED
    BY <2>1, <2>2
<1>12. ASSUME NEW p \in Procs, NEW f \in Files, UploadRefused(p, f)
       PROVE  Kept(q, g)'
  BY <1>12 DEF UploadRefused, Attempt, SetJob
<1>13. ASSUME NEW p \in Procs, NEW f \in Files, UploadFails(p, f)
       PROVE  Kept(q, g)'
  BY <1>13 DEF UploadFails, Attempt, SetJob, RetryOrFail
<1>14. ASSUME NEW p \in Procs, NEW f \in Files, UploadCancelled(p, f)
       PROVE  Kept(q, g)'
  BY <1>14 DEF UploadCancelled, SetJob
<1>15. ASSUME NEW p \in Procs, UploadsEnd(p)
       PROVE  Kept(q, g)'
  BY <1>15 DEF UploadsEnd, Cancelled, DraftWhileUploading, Move, Goto
<1>16. ASSUME NEW p \in Procs, PublishRelease(p)
       PROVE  Kept(q, g)'
  BY <1>16 DEF PublishRelease, Hitch, Move, Goto
<1>17. ASSUME NEW p \in Procs, PublishFails(p)
       PROVE  Kept(q, g)'
  BY <1>17 DEF PublishFails, Move, Goto
<1>18. ASSUME NEW p \in Procs, Cleanup(p)
       PROVE  Kept(q, g)'
  BY <1>18 DEF Cleanup, Hitch, Move, Goto
<1>19. ASSUME NEW p \in Procs, DeleteRelease(p)
       PROVE  Kept(q, g)'
  BY <1>19 DEF DeleteRelease, Exists, Move, Goto
<1>20. ASSUME NEW p \in Procs, DeleteReleaseFails(p)
       PROVE  Kept(q, g)'
  BY <1>20 DEF DeleteReleaseFails, Move, Goto
<1>21. ASSUME NEW p \in Procs, Kill(p)
       PROVE  Kept(q, g)'
  BY <1>21 DEF Kill, Goto, Ended
<1>22. CASE UNCHANGED vars
  BY <1>22 DEF vars
<1> QED
  BY <1>1, <1>2, <1>3, <1>4, <1>5, <1>6, <1>7, <1>8, <1>9, <1>10, <1>11,
     <1>12, <1>13, <1>14, <1>15, <1>16, <1>17, <1>18, <1>19, <1>20, <1>21, <1>22 DEF Next, Step, JobStep

(* A job that is done has its asset kept.                                  *)
LEMMA KeptStep ==
    ASSUME TypeOK, EarlyInv, JobInv, CommandInv, KeptInv, NEW q \in Procs, [Next]_vars
    PROVE  KeptOf(q)'
<1>d. ASSUME NEW p \in Procs, NEW f \in Files, DeleteAsset(p, f)
      PROVE  DeleteEffect(p, f)
  BY <1>d, DeleteAssetEffect
<1>u. ASSUME NEW p \in Procs, NEW f \in Files, UploadAsset(p, f)
      PROVE  \E a : UploadEffect(p, f, a)
  BY <1>u, UploadAssetEffect
<1>q. ASSUME NEW p \in Procs, QueueJobs(p)
      PROVE  /\ job' \in [Procs -> [Files -> Jobs]]
             /\ \A other \in Procs : other # p => job'[other] = job[other]
             /\ \A f \in Files :
                    job'[p][f] = IF f \in files[p] THEN "queued" ELSE "none"
  BY <1>q, QueueFacts
<1> USE DEF TypeOK, Pcs, Ended, Jobs, Active, server, call, work, history
<1>a. \A g \in Files : pc[q] \notin Early /\ Kept(q, g) => Kept(q, g)'
  BY KeptStable
<1>b. KeptOf(q)
  BY DEF KeptInv
<1>c. /\ pc[q] \in Early => \A g \in Files : job[q][g] = "none"
      /\ pc[q] \in {"idle", "check", "create"} => status[q] = "none"
  BY DEF EarlyInv
<1>e. pc[q] = "fetch" => command[q] \in {"upload", "clobber", "delete"}
  BY DEF CommandInv
<1>f. pc[q] = "delete" => command[q] = "delete" /\ files[q] = {}
  BY DEF CommandInv
<1>g. pc[q] = "publish" => DraftWhileUploading(q)
  BY DEF CommandInv
<1> USE DEF KeptOf, DraftWhileUploading, Public, Early
<1>1. ASSUME NEW p \in Procs, Start(p)
      PROVE  KeptOf(q)'
  BY <1>1, <1>a, <1>b, <1>c, <1>e, ProcsAreReleases DEF Start, FirstStep, Move, Goto
<1>2. ASSUME NEW p \in Procs, Check(p)
      PROVE  KeptOf(q)'
  BY <1>2, <1>a, <1>b, <1>c, <1>e, ProcsAreReleases DEF Check, Move, Goto
<1>3. ASSUME NEW p \in Procs, CreateRelease(p)
      PROVE  KeptOf(q)'
  <2>1. CASE q = p
    <3>1. \A g \in Files : job'[q][g] # "done"
      BY <1>3, <1>c, <2>1, <1>q DEF CreateRelease, Move
    <3>2. pc'[q] = "done" => files'[q] = {}
      BY <1>3, <2>1 DEF CreateRelease, Move, Goto
    <3>3. DraftWhileUploading(q)' => pc'[q] # "publish" /\ status'[q] # "published"
      BY <1>3, <2>1, ProcsAreReleases DEF CreateRelease, CreateStatus, Move, Goto
    <3> QED
      BY <3>1, <3>2, <3>3
  <2>2. CASE q # p
    <3>1. job'[q] = job[q] /\ pc'[q] = pc[q] /\ status'[q] = status[q]
      BY <1>3, <2>2, <1>q, ProcsAreReleases DEF CreateRelease, Move, Goto
    <3>2. UNCHANGED <<command, files>>
      BY <1>3 DEF CreateRelease
    <3> QED
      BY <1>a, <1>b, <1>c, <1>e, <3>1, <3>2
  <2> QED
    BY <2>1, <2>2
<1>4. ASSUME NEW p \in Procs, CreateRefused(p)
      PROVE  KeptOf(q)'
  BY <1>4, <1>a, <1>b, <1>c, <1>e, ProcsAreReleases DEF CreateRefused, CreateStatus, Move, Goto
<1>5. ASSUME NEW p \in Procs, NEW rel \in Releases, FetchForDelete(p, rel)
      PROVE  KeptOf(q)'
  BY <1>5, <1>a, <1>b, <1>c, <1>e, ProcsAreReleases DEF FetchForDelete, Exists, Move, Goto
<1>6. ASSUME NEW p \in Procs, NEW rel \in Releases, FetchForUpload(p, rel)
      PROVE  KeptOf(q)'
  BY <1>6, <1>a, <1>b, <1>c, <1>e, ProcsAreReleases DEF FetchForUpload, Exists, QueueJobs, Move, Goto
<1>7. ASSUME NEW p \in Procs, FetchFails(p)
      PROVE  KeptOf(q)'
  BY <1>7, <1>a, <1>b, <1>c, <1>e, ProcsAreReleases DEF FetchFails, Move, Goto
<1>8. ASSUME NEW p \in Procs, NEW f \in Files, StartJob(p, f)
      PROVE  KeptOf(q)'
  BY <1>8, <1>a, <1>b, <1>c, <1>e, ProcsAreReleases DEF StartJob, SetJob, Active
<1>9. ASSUME NEW p \in Procs, NEW f \in Files, DeleteAsset(p, f)
      PROVE  KeptOf(q)'
  <2>d. DeleteEffect(p, f)
    BY <1>9, <1>d
  <2>1. \A g \in Files : job'[q][g] = "done" => job[q][g] = "done"
    BY <2>d DEF DeleteEffect
  <2>2. UNCHANGED <<pc, status, command, files>>
    BY <2>d DEF DeleteEffect
  <2> QED
    BY <1>a, <1>b, <1>c, <1>e, <2>1, <2>2
<1>10. ASSUME NEW p \in Procs, NEW f \in Files, DeleteAssetFails(p, f)
       PROVE  KeptOf(q)'
  BY <1>10, <1>a, <1>b, <1>c, <1>e, ProcsAreReleases DEF DeleteAssetFails, SetJob
<1>11. ASSUME NEW p \in Procs, NEW f \in Files, UploadAsset(p, f)
       PROVE  KeptOf(q)'
  <2>u. PICK a : UploadEffect(p, f, a)
    BY <1>11, <1>u
  <2>1. job'[p][f] = "done" => Kept(p, f)'
    <3>1. Stored(p, f)'
      BY <2>u DEF UploadEffect, Stored
    <3> QED
      BY <3>1 DEF Kept
  <2>2. \A g \in Files : job'[q][g] = "done" => job[q][g] = "done" \/ (q = p /\ g = f)
    BY <2>u DEF UploadEffect
  <2>3. UNCHANGED <<pc, status, command, files>>
    BY <2>u DEF UploadEffect
  <2> QED
    BY <1>a, <1>b, <1>c, <1>e, <2>1, <2>2, <2>3
<1>12. ASSUME NEW p \in Procs, NEW f \in Files, UploadRefused(p, f)
       PROVE  KeptOf(q)'
  BY <1>12, <1>a, <1>b, <1>c, <1>e, ProcsAreReleases DEF UploadRefused, Attempt, SetJob
<1>13. ASSUME NEW p \in Procs, NEW f \in Files, UploadFails(p, f)
       PROVE  KeptOf(q)'
  <2>1. \A g \in Files : job'[q][g] = "done" => job[q][g] = "done"
    <3>1. CASE UNCHANGED job
      BY <3>1
    <3>2. CASE SetJob(p, f, "failed")
      BY <3>2 DEF SetJob
    <3> QED
      BY <1>13, <3>1, <3>2 DEF UploadFails, RetryOrFail
  <2>2. UNCHANGED <<pc, status, command, files>>
    BY <1>13 DEF UploadFails, Attempt
  <2> QED
    BY <1>a, <1>b, <1>c, <1>e, <2>1, <2>2
<1>14. ASSUME NEW p \in Procs, NEW f \in Files, UploadCancelled(p, f)
       PROVE  KeptOf(q)'
  BY <1>14, <1>a, <1>b, <1>c, <1>e, ProcsAreReleases DEF UploadCancelled, SetJob
<1>15. ASSUME NEW p \in Procs, UploadsEnd(p)
       PROVE  KeptOf(q)'
  BY <1>15, <1>a, <1>b, <1>c, <1>e, ProcsAreReleases DEF UploadsEnd, Cancelled, DraftWhileUploading, Move, Goto
<1>16. ASSUME NEW p \in Procs, PublishRelease(p)
       PROVE  KeptOf(q)'
  <2>1. UNCHANGED <<job, command, files>>
    BY <1>16 DEF PublishRelease
  <2>2. pc'[q] = "publish" \/ pc'[q] = "done" => pc[q] = pc'[q] \/ (q = p /\ pc[q] = "publish")
    BY <1>16 DEF PublishRelease, Move, Goto
  <2>3. q # p => status'[q] = status[q]
    BY <1>16, ProcsAreReleases DEF PublishRelease
  <2>4. pc[p] = "publish"
    BY <1>16 DEF PublishRelease, Move
  <2> QED
    BY <1>a, <1>b, <1>c, <1>e, <1>g, <2>1, <2>2, <2>3, <2>4
<1>17. ASSUME NEW p \in Procs, PublishFails(p)
       PROVE  KeptOf(q)'
  BY <1>17, <1>a, <1>b, <1>c, <1>e, ProcsAreReleases DEF PublishFails, Move, Goto
<1>18. ASSUME NEW p \in Procs, Cleanup(p)
       PROVE  KeptOf(q)'
  BY <1>18, <1>a, <1>b, <1>c, <1>e, ProcsAreReleases DEF Cleanup, Hitch, Move, Goto
<1>19. ASSUME NEW p \in Procs, DeleteRelease(p)
       PROVE  KeptOf(q)'
  <2>1. UNCHANGED <<job, command, files>>
    BY <1>19 DEF DeleteRelease
  <2>2. pc'[q] = "publish" \/ pc'[q] = "done" => pc[q] = pc'[q] \/ (q = p /\ pc[q] = "delete")
    BY <1>19 DEF DeleteRelease, Move, Goto
  <2>3. status'[q] = status[q] \/ status'[q] = "deleted"
    BY <1>19, ProcsAreReleases DEF DeleteRelease
  <2> QED
    BY <1>a, <1>b, <1>c, <1>e, <1>f, <2>1, <2>2, <2>3
<1>20. ASSUME NEW p \in Procs, DeleteReleaseFails(p)
       PROVE  KeptOf(q)'
  BY <1>20, <1>a, <1>b, <1>c, <1>e, ProcsAreReleases DEF DeleteReleaseFails, Move, Goto
<1>21. ASSUME NEW p \in Procs, Kill(p)
       PROVE  KeptOf(q)'
  BY <1>21, <1>a, <1>b, <1>c, <1>e, ProcsAreReleases DEF Kill, Goto, Ended
<1>22. CASE UNCHANGED vars
  BY <1>22, <1>a, <1>b, <1>c, <1>e, ProcsAreReleases DEF vars
<1> QED
  BY <1>1, <1>2, <1>3, <1>4, <1>5, <1>6, <1>7, <1>8, <1>9, <1>10, <1>11,
     <1>12, <1>13, <1>14, <1>15, <1>16, <1>17, <1>18, <1>19, <1>20, <1>21, <1>22 DEF Next, Step, JobStep

(* A release with files stays a draft until it is published.               *)
LEMMA DraftStep ==
    ASSUME TypeOK, EarlyInv, JobInv, CommandInv, DraftInv, [Next]_vars
    PROVE  DraftInv'
<1>d. ASSUME NEW p \in Procs, NEW f \in Files, DeleteAsset(p, f)
      PROVE  DeleteEffect(p, f)
  BY <1>d, DeleteAssetEffect
<1>u. ASSUME NEW p \in Procs, NEW f \in Files, UploadAsset(p, f)
      PROVE  \E a : UploadEffect(p, f, a)
  BY <1>u, UploadAssetEffect
<1> USE DEF TypeOK, Pcs, Ended, Jobs, Active, server, call, work, history, EarlyInv, Early, CommandInv, DraftInv, DraftWhileUploading, Public
<1>1. ASSUME NEW p \in Procs, Start(p)
      PROVE  DraftInv'
  BY <1>1 DEF Start, FirstStep, Move, Goto
<1>2. ASSUME NEW p \in Procs, Check(p)
      PROVE  DraftInv'
  BY <1>2 DEF Check, Move, Goto
<1>3. ASSUME NEW p \in Procs, CreateRelease(p)
      PROVE  DraftInv'
  BY <1>3, ProcsAreReleases DEF CreateRelease, CreateStatus, QueueJobs, Hitch, Move, Goto
<1>4. ASSUME NEW p \in Procs, CreateRefused(p)
      PROVE  DraftInv'
  BY <1>4 DEF CreateRefused, CreateStatus, Move, Goto
<1>5. ASSUME NEW p \in Procs, NEW rel \in Releases, FetchForDelete(p, rel)
      PROVE  DraftInv'
  BY <1>5 DEF FetchForDelete, Exists, Move, Goto
<1>6. ASSUME NEW p \in Procs, NEW rel \in Releases, FetchForUpload(p, rel)
      PROVE  DraftInv'
  BY <1>6 DEF FetchForUpload, Exists, QueueJobs, Move, Goto
<1>7. ASSUME NEW p \in Procs, FetchFails(p)
      PROVE  DraftInv'
  BY <1>7 DEF FetchFails, Move, Goto
<1>8. ASSUME NEW p \in Procs, NEW f \in Files, StartJob(p, f)
      PROVE  DraftInv'
  BY <1>8 DEF StartJob, SetJob, Active
<1>9. ASSUME NEW p \in Procs, NEW f \in Files, DeleteAsset(p, f)
      PROVE  DraftInv'
  <2>d. DeleteEffect(p, f)
    BY <1>9, <1>d
  <2> QED
    BY <2>d DEF DeleteEffect, Grows
<1>10. ASSUME NEW p \in Procs, NEW f \in Files, DeleteAssetFails(p, f)
       PROVE  DraftInv'
  BY <1>10 DEF DeleteAssetFails, SetJob
<1>11. ASSUME NEW p \in Procs, NEW f \in Files, UploadAsset(p, f)
       PROVE  DraftInv'
  <2>u. PICK a : UploadEffect(p, f, a)
    BY <1>11, <1>u
  <2> QED
    BY <2>u DEF UploadEffect, Grows
<1>12. ASSUME NEW p \in Procs, NEW f \in Files, UploadRefused(p, f)
       PROVE  DraftInv'
  BY <1>12 DEF UploadRefused, Attempt, SetJob
<1>13. ASSUME NEW p \in Procs, NEW f \in Files, UploadFails(p, f)
       PROVE  DraftInv'
  BY <1>13 DEF UploadFails, Attempt, SetJob, RetryOrFail
<1>14. ASSUME NEW p \in Procs, NEW f \in Files, UploadCancelled(p, f)
       PROVE  DraftInv'
  BY <1>14 DEF UploadCancelled, SetJob
<1>15. ASSUME NEW p \in Procs, UploadsEnd(p)
       PROVE  DraftInv'
  BY <1>15 DEF UploadsEnd, Cancelled, DraftWhileUploading, Move, Goto
<1>16. ASSUME NEW p \in Procs, PublishRelease(p)
       PROVE  DraftInv'
  BY <1>16, ProcsAreReleases DEF PublishRelease, Hitch, Move, Goto
<1>17. ASSUME NEW p \in Procs, PublishFails(p)
       PROVE  DraftInv'
  BY <1>17 DEF PublishFails, Move, Goto
<1>18. ASSUME NEW p \in Procs, Cleanup(p)
       PROVE  DraftInv'
  BY <1>18, ProcsAreReleases DEF Cleanup, Hitch, Move, Goto
<1>19. ASSUME NEW p \in Procs, DeleteRelease(p)
       PROVE  DraftInv'
  BY <1>19 DEF DeleteRelease, Exists, Move, Goto
<1>20. ASSUME NEW p \in Procs, DeleteReleaseFails(p)
       PROVE  DraftInv'
  BY <1>20 DEF DeleteReleaseFails, Move, Goto
<1>21. ASSUME NEW p \in Procs, Kill(p)
       PROVE  DraftInv'
  BY <1>21 DEF Kill, Goto, Ended
<1>22. CASE UNCHANGED vars
  BY <1>22 DEF vars
<1> QED
  BY <1>1, <1>2, <1>3, <1>4, <1>5, <1>6, <1>7, <1>8, <1>9, <1>10, <1>11,
     <1>12, <1>13, <1>14, <1>15, <1>16, <1>17, <1>18, <1>19, <1>20, <1>21, <1>22 DEF Next, Step, JobStep

(* Who has not replaced an asset goes on owing it until it is replaced.    *)
LEMMA OwesStable ==
    ASSUME TypeOK, JobInv, CommandInv, NEW q \in Procs, NEW r \in Releases, NEW g \in Files, Owes(q, r, g), assets'[r][g] = NoAsset, [Next]_vars
    PROVE  Owes(q, r, g)'
<1>d. ASSUME NEW p \in Procs, NEW f \in Files, DeleteAsset(p, f)
      PROVE  DeleteEffect(p, f)
  BY <1>d, DeleteAssetEffect
<1>u. ASSUME NEW p \in Procs, NEW f \in Files, UploadAsset(p, f)
      PROVE  \E a : UploadEffect(p, f, a)
  BY <1>u, UploadAssetEffect
<1> USE DEF TypeOK, Pcs, Ended, Jobs, Active, server, call, work, history, CommandInv, Owes, DraftWhileUploading
<1>1. ASSUME NEW p \in Procs, Start(p)
      PROVE  Owes(q, r, g)'
  BY <1>1 DEF Start, FirstStep, Move, Goto
<1>2. ASSUME NEW p \in Procs, Check(p)
      PROVE  Owes(q, r, g)'
  BY <1>2 DEF Check, Move, Goto
<1>3. ASSUME NEW p \in Procs, CreateRelease(p)
      PROVE  Owes(q, r, g)'
  BY <1>3 DEF CreateRelease, CreateStatus, QueueJobs, Hitch, Move, Goto
<1>4. ASSUME NEW p \in Procs, CreateRefused(p)
      PROVE  Owes(q, r, g)'
  BY <1>4 DEF CreateRefused, CreateStatus, Move, Goto
<1>5. ASSUME NEW p \in Procs, NEW rel \in Releases, FetchForDelete(p, rel)
      PROVE  Owes(q, r, g)'
  BY <1>5 DEF FetchForDelete, Exists, Move, Goto
<1>6. ASSUME NEW p \in Procs, NEW rel \in Releases, FetchForUpload(p, rel)
      PROVE  Owes(q, r, g)'
  BY <1>6 DEF FetchForUpload, Exists, QueueJobs, Move, Goto
<1>7. ASSUME NEW p \in Procs, FetchFails(p)
      PROVE  Owes(q, r, g)'
  BY <1>7 DEF FetchFails, Move, Goto
<1>8. ASSUME NEW p \in Procs, NEW f \in Files, StartJob(p, f)
      PROVE  Owes(q, r, g)'
  BY <1>8 DEF StartJob, SetJob, Active
<1>9. ASSUME NEW p \in Procs, NEW f \in Files, DeleteAsset(p, f)
      PROVE  Owes(q, r, g)'
  <2>d. DeleteEffect(p, f)
    BY <1>9, <1>d
  <2> QED
    BY <2>d DEF DeleteEffect, Grows
<1>10. ASSUME NEW p \in Procs, NEW f \in Files, DeleteAssetFails(p, f)
       PROVE  Owes(q, r, g)'
  BY <1>10 DEF DeleteAssetFails, SetJob
<1>11. ASSUME NEW p \in Procs, NEW f \in Files, UploadAsset(p, f)
       PROVE  Owes(q, r, g)'
  <2>u. PICK a : UploadEffect(p, f, a)
    BY <1>11, <1>u
  <2>1. ~(q = p /\ r = release[p] /\ g = f)
    BY <2>u, NoAssetAssumption DEF UploadEffect
  <2> QED
    BY <2>1, <2>u DEF UploadEffect
<1>12. ASSUME NEW p \in Procs, NEW f \in Files, UploadRefused(p, f)
       PROVE  Owes(q, r, g)'
  BY <1>12 DEF UploadRefused, Attempt, SetJob
<1>13. ASSUME NEW p \in Procs, NEW f \in Files, UploadFails(p, f)
       PROVE  Owes(q, r, g)'
  <2>1. job'[q][g] # "done"
    <3>1. CASE UNCHANGED job
      BY <3>1
    <3>2. CASE SetJob(p, f, "failed")
      BY <3>2 DEF SetJob
    <3> QED
      BY <1>13, <3>1, <3>2 DEF UploadFails, RetryOrFail
  <2> QED
    BY <1>13, <2>1 DEF UploadFails
<1>14. ASSUME NEW p \in Procs, NEW f \in Files, UploadCancelled(p, f)
       PROVE  Owes(q, r, g)'
  BY <1>14 DEF UploadCancelled, SetJob
<1>15. ASSUME NEW p \in Procs, UploadsEnd(p)
       PROVE  Owes(q, r, g)'
  BY <1>15 DEF UploadsEnd, Cancelled, DraftWhileUploading, Move, Goto
<1>16. ASSUME NEW p \in Procs, PublishRelease(p)
       PROVE  Owes(q, r, g)'
  BY <1>16 DEF PublishRelease, Hitch, Move, Goto
<1>17. ASSUME NEW p \in Procs, PublishFails(p)
       PROVE  Owes(q, r, g)'
  BY <1>17 DEF PublishFails, Move, Goto
<1>18. ASSUME NEW p \in Procs, Cleanup(p)
       PROVE  Owes(q, r, g)'
  BY <1>18 DEF Cleanup, Hitch, Move, Goto
<1>19. ASSUME NEW p \in Procs, DeleteRelease(p)
       PROVE  Owes(q, r, g)'
  BY <1>19 DEF DeleteRelease, Exists, Move, Goto
<1>20. ASSUME NEW p \in Procs, DeleteReleaseFails(p)
       PROVE  Owes(q, r, g)'
  BY <1>20 DEF DeleteReleaseFails, Move, Goto
<1>21. ASSUME NEW p \in Procs, Kill(p)
       PROVE  Owes(q, r, g)'
  BY <1>21 DEF Kill, Goto, Ended
<1>22. CASE UNCHANGED vars
  BY <1>22 DEF vars
<1> QED
  BY <1>1, <1>2, <1>3, <1>4, <1>5, <1>6, <1>7, <1>8, <1>9, <1>10, <1>11,
     <1>12, <1>13, <1>14, <1>15, <1>16, <1>17, <1>18, <1>19, <1>20, <1>21, <1>22 DEF Next, Step, JobStep

(* A loss has a command that owes the asset, or is an older loss.          *)
LEMMA LossBack ==
    ASSUME TypeOK, JobInv, NEW r \in Releases, NEW g \in Files, [Next]_vars
    PROVE  Lost(r, g)' => Lost(r, g) \/ \E q \in Procs : Owes(q, r, g)'
<1>d. ASSUME NEW p \in Procs, NEW f \in Files, DeleteAsset(p, f)
      PROVE  DeleteEffect(p, f)
  BY <1>d, DeleteAssetEffect
<1>u. ASSUME NEW p \in Procs, NEW f \in Files, UploadAsset(p, f)
      PROVE  \E a : UploadEffect(p, f, a)
  BY <1>u, UploadAssetEffect
<1> USE DEF TypeOK, Pcs, Ended, Jobs, Active, server, call, work, history, Lost, Owes
<1>1. ASSUME NEW p \in Procs, Start(p)
      PROVE  Lost(r, g)' => Lost(r, g) \/ \E q \in Procs : Owes(q, r, g)'
  BY <1>1 DEF Start, FirstStep, Move, Goto
<1>2. ASSUME NEW p \in Procs, Check(p)
      PROVE  Lost(r, g)' => Lost(r, g) \/ \E q \in Procs : Owes(q, r, g)'
  BY <1>2 DEF Check, Move, Goto
<1>3. ASSUME NEW p \in Procs, CreateRelease(p)
      PROVE  Lost(r, g)' => Lost(r, g) \/ \E q \in Procs : Owes(q, r, g)'
  BY <1>3 DEF CreateRelease, CreateStatus, QueueJobs, Hitch, Move, Goto
<1>4. ASSUME NEW p \in Procs, CreateRefused(p)
      PROVE  Lost(r, g)' => Lost(r, g) \/ \E q \in Procs : Owes(q, r, g)'
  BY <1>4 DEF CreateRefused, CreateStatus, Move, Goto
<1>5. ASSUME NEW p \in Procs, NEW rel \in Releases, FetchForDelete(p, rel)
      PROVE  Lost(r, g)' => Lost(r, g) \/ \E q \in Procs : Owes(q, r, g)'
  BY <1>5 DEF FetchForDelete, Exists, Move, Goto
<1>6. ASSUME NEW p \in Procs, NEW rel \in Releases, FetchForUpload(p, rel)
      PROVE  Lost(r, g)' => Lost(r, g) \/ \E q \in Procs : Owes(q, r, g)'
  BY <1>6 DEF FetchForUpload, Exists, QueueJobs, Move, Goto
<1>7. ASSUME NEW p \in Procs, FetchFails(p)
      PROVE  Lost(r, g)' => Lost(r, g) \/ \E q \in Procs : Owes(q, r, g)'
  BY <1>7 DEF FetchFails, Move, Goto
<1>8. ASSUME NEW p \in Procs, NEW f \in Files, StartJob(p, f)
      PROVE  Lost(r, g)' => Lost(r, g) \/ \E q \in Procs : Owes(q, r, g)'
  BY <1>8 DEF StartJob, SetJob, Active
<1>9. ASSUME NEW p \in Procs, NEW f \in Files, DeleteAsset(p, f)
      PROVE  Lost(r, g)' => Lost(r, g) \/ \E q \in Procs : Owes(q, r, g)'
  <2>d. DeleteEffect(p, f)
    BY <1>9, <1>d
  <2>1. CASE r = release[p] /\ g = f
    <3>1. Owes(p, r, g)'
      BY <2>1, <2>d DEF DeleteEffect
    <3> QED
      BY <3>1
  <2>2. CASE ~(r = release[p] /\ g = f)
    BY <2>2, <2>d DEF DeleteEffect
  <2> QED
    BY <2>1, <2>2
<1>10. ASSUME NEW p \in Procs, NEW f \in Files, DeleteAssetFails(p, f)
       PROVE  Lost(r, g)' => Lost(r, g) \/ \E q \in Procs : Owes(q, r, g)'
  BY <1>10 DEF DeleteAssetFails, SetJob
<1>11. ASSUME NEW p \in Procs, NEW f \in Files, UploadAsset(p, f)
       PROVE  Lost(r, g)' => Lost(r, g) \/ \E q \in Procs : Owes(q, r, g)'
  <2>u. PICK a : UploadEffect(p, f, a)
    BY <1>11, <1>u
  <2>1. Lost(r, g)' => Lost(r, g)
    BY <2>u, NoAssetAssumption DEF UploadEffect
  <2> QED
    BY <2>1
<1>12. ASSUME NEW p \in Procs, NEW f \in Files, UploadRefused(p, f)
       PROVE  Lost(r, g)' => Lost(r, g) \/ \E q \in Procs : Owes(q, r, g)'
  BY <1>12 DEF UploadRefused, Attempt, SetJob
<1>13. ASSUME NEW p \in Procs, NEW f \in Files, UploadFails(p, f)
       PROVE  Lost(r, g)' => Lost(r, g) \/ \E q \in Procs : Owes(q, r, g)'
  BY <1>13 DEF UploadFails, Attempt, SetJob, RetryOrFail
<1>14. ASSUME NEW p \in Procs, NEW f \in Files, UploadCancelled(p, f)
       PROVE  Lost(r, g)' => Lost(r, g) \/ \E q \in Procs : Owes(q, r, g)'
  BY <1>14 DEF UploadCancelled, SetJob
<1>15. ASSUME NEW p \in Procs, UploadsEnd(p)
       PROVE  Lost(r, g)' => Lost(r, g) \/ \E q \in Procs : Owes(q, r, g)'
  BY <1>15 DEF UploadsEnd, Cancelled, DraftWhileUploading, Move, Goto
<1>16. ASSUME NEW p \in Procs, PublishRelease(p)
       PROVE  Lost(r, g)' => Lost(r, g) \/ \E q \in Procs : Owes(q, r, g)'
  BY <1>16 DEF PublishRelease, Hitch, Move, Goto
<1>17. ASSUME NEW p \in Procs, PublishFails(p)
       PROVE  Lost(r, g)' => Lost(r, g) \/ \E q \in Procs : Owes(q, r, g)'
  BY <1>17 DEF PublishFails, Move, Goto
<1>18. ASSUME NEW p \in Procs, Cleanup(p)
       PROVE  Lost(r, g)' => Lost(r, g) \/ \E q \in Procs : Owes(q, r, g)'
  BY <1>18 DEF Cleanup, Hitch, Move, Goto
<1>19. ASSUME NEW p \in Procs, DeleteRelease(p)
       PROVE  Lost(r, g)' => Lost(r, g) \/ \E q \in Procs : Owes(q, r, g)'
  BY <1>19 DEF DeleteRelease, Exists, Move, Goto
<1>20. ASSUME NEW p \in Procs, DeleteReleaseFails(p)
       PROVE  Lost(r, g)' => Lost(r, g) \/ \E q \in Procs : Owes(q, r, g)'
  BY <1>20 DEF DeleteReleaseFails, Move, Goto
<1>21. ASSUME NEW p \in Procs, Kill(p)
       PROVE  Lost(r, g)' => Lost(r, g) \/ \E q \in Procs : Owes(q, r, g)'
  BY <1>21 DEF Kill, Goto, Ended
<1>22. CASE UNCHANGED vars
  BY <1>22 DEF vars
<1> QED
  BY <1>1, <1>2, <1>3, <1>4, <1>5, <1>6, <1>7, <1>8, <1>9, <1>10, <1>11,
     <1>12, <1>13, <1>14, <1>15, <1>16, <1>17, <1>18, <1>19, <1>20, <1>21, <1>22 DEF Next, Step, JobStep

(* Every loss keeps a command that owes the asset.                         *)
LEMMA LossStep ==
    ASSUME TypeOK, JobInv, CommandInv, LossInv, [Next]_vars
    PROVE  LossInv'
<1> SUFFICES ASSUME NEW r \in Releases, NEW f \in Files, Lost(r, f)'
             PROVE  \E p \in Procs : Owes(p, r, f)'
  BY DEF LossInv
<1>1. CASE Lost(r, f)
  <2>1. PICK p \in Procs : Owes(p, r, f)
    BY <1>1 DEF LossInv
  <2>2. assets'[r][f] = NoAsset
    BY DEF Lost
  <2> QED
    BY <2>1, <2>2, OwesStable
<1>2. CASE ~Lost(r, f)
  BY <1>2, LossBack
<1> QED
  BY <1>1, <1>2

(* An upload is noticed, or a request failed.                              *)
LEMMA CauseStep ==
    ASSUME TypeOK, EarlyInv, JobInv, CauseInv, NEW q \in Procs, NEW g \in Files, [Next]_vars
    PROVE  CauseOf(q, g)'
<1>d. ASSUME NEW p \in Procs, NEW f \in Files, DeleteAsset(p, f)
      PROVE  DeleteEffect(p, f)
  BY <1>d, DeleteAssetEffect
<1>u. ASSUME NEW p \in Procs, NEW f \in Files, UploadAsset(p, f)
      PROVE  \E a : UploadEffect(p, f, a)
  BY <1>u, UploadAssetEffect
<1> USE DEF TypeOK, Pcs, Ended, Jobs, Active, server, call, work, history, Stored
<1>a. CauseOf(q, g)
  BY DEF CauseInv
<1>b. pc[q] \in Early => /\ job[q][g] = "none"
                         /\ \A r \in Releases : assets[r][g] \notin Own(q)
  BY DEF EarlyInv
<1>c. pc[q] = "idle" => job[q][g] = "none"
  BY DEF EarlyInv, Early
<1> USE DEF CauseOf, Early
<1>1. ASSUME NEW p \in Procs, Start(p)
      PROVE  CauseOf(q, g)'
  BY <1>1, <1>a, <1>b, <1>c DEF Start, FirstStep, Move, Goto
<1>2. ASSUME NEW p \in Procs, Check(p)
      PROVE  CauseOf(q, g)'
  BY <1>2, <1>a, <1>b, <1>c DEF Check, Move, Goto
<1>3. ASSUME NEW p \in Procs, CreateRelease(p)
      PROVE  CauseOf(q, g)'
  BY <1>3, <1>a, <1>b, <1>c DEF CreateRelease, CreateStatus, QueueJobs, Hitch, Move, Goto
<1>4. ASSUME NEW p \in Procs, CreateRefused(p)
      PROVE  CauseOf(q, g)'
  BY <1>4, <1>a, <1>b, <1>c DEF CreateRefused, CreateStatus, Move, Goto
<1>5. ASSUME NEW p \in Procs, NEW rel \in Releases, FetchForDelete(p, rel)
      PROVE  CauseOf(q, g)'
  BY <1>5, <1>a, <1>b, <1>c DEF FetchForDelete, Exists, Move, Goto
<1>6. ASSUME NEW p \in Procs, NEW rel \in Releases, FetchForUpload(p, rel)
      PROVE  CauseOf(q, g)'
  BY <1>6, <1>a, <1>b, <1>c DEF FetchForUpload, Exists, QueueJobs, Move, Goto
<1>7. ASSUME NEW p \in Procs, FetchFails(p)
      PROVE  CauseOf(q, g)'
  BY <1>7, <1>a, <1>b, <1>c DEF FetchFails, Move, Goto
<1>8. ASSUME NEW p \in Procs, NEW f \in Files, StartJob(p, f)
      PROVE  CauseOf(q, g)'
  BY <1>8, <1>a, <1>b, <1>c DEF StartJob, SetJob, Active
<1>9. ASSUME NEW p \in Procs, NEW f \in Files, DeleteAsset(p, f)
      PROVE  CauseOf(q, g)'
  <2>d. DeleteEffect(p, f)
    BY <1>9, <1>d
  <2>1. Stored(q, g)' => Stored(q, g)
    BY <2>d, NotOwn DEF DeleteEffect
  <2> QED
    BY <1>a, <1>b, <2>1, <2>d DEF CauseOf, DeleteEffect, Grows
<1>10. ASSUME NEW p \in Procs, NEW f \in Files, DeleteAssetFails(p, f)
       PROVE  CauseOf(q, g)'
  BY <1>10, <1>a, <1>b, <1>c DEF DeleteAssetFails, SetJob
<1>11. ASSUME NEW p \in Procs, NEW f \in Files, UploadAsset(p, f)
       PROVE  CauseOf(q, g)'
  <2>u. PICK a : UploadEffect(p, f, a)
    BY <1>11, <1>u
  <2>1. q # p \/ g # f => (Stored(q, g)' => Stored(q, g))
    BY <2>u DEF UploadEffect
  <2> QED
    BY <1>a, <2>1, <2>u DEF CauseOf, UploadEffect, Grows
<1>12. ASSUME NEW p \in Procs, NEW f \in Files, UploadRefused(p, f)
       PROVE  CauseOf(q, g)'
  BY <1>12, <1>a, <1>b, <1>c DEF UploadRefused, Attempt, SetJob
<1>13. ASSUME NEW p \in Procs, NEW f \in Files, UploadFails(p, f)
       PROVE  CauseOf(q, g)'
  BY <1>13, <1>a, <1>b, <1>c DEF UploadFails, Attempt, SetJob, RetryOrFail
<1>14. ASSUME NEW p \in Procs, NEW f \in Files, UploadCancelled(p, f)
       PROVE  CauseOf(q, g)'
  BY <1>14, <1>a, <1>b, <1>c DEF UploadCancelled, SetJob
<1>15. ASSUME NEW p \in Procs, UploadsEnd(p)
       PROVE  CauseOf(q, g)'
  BY <1>15, <1>a, <1>b, <1>c DEF UploadsEnd, Cancelled, DraftWhileUploading, Move, Goto
<1>16. ASSUME NEW p \in Procs, PublishRelease(p)
       PROVE  CauseOf(q, g)'
  BY <1>16, <1>a, <1>b, <1>c DEF PublishRelease, Hitch, Move, Goto
<1>17. ASSUME NEW p \in Procs, PublishFails(p)
       PROVE  CauseOf(q, g)'
  BY <1>17, <1>a, <1>b, <1>c DEF PublishFails, Move, Goto
<1>18. ASSUME NEW p \in Procs, Cleanup(p)
       PROVE  CauseOf(q, g)'
  BY <1>18, <1>a, <1>b, <1>c DEF Cleanup, Hitch, Move, Goto
<1>19. ASSUME NEW p \in Procs, DeleteRelease(p)
       PROVE  CauseOf(q, g)'
  BY <1>19, <1>a, <1>b, <1>c DEF DeleteRelease, Exists, Move, Goto
<1>20. ASSUME NEW p \in Procs, DeleteReleaseFails(p)
       PROVE  CauseOf(q, g)'
  BY <1>20, <1>a, <1>b, <1>c DEF DeleteReleaseFails, Move, Goto
<1>21. ASSUME NEW p \in Procs, Kill(p)
       PROVE  CauseOf(q, g)'
  BY <1>21, <1>a, <1>b, <1>c DEF Kill, Goto, Ended
<1>22. CASE UNCHANGED vars
  BY <1>22, <1>a, <1>b, <1>c DEF vars
<1> QED
  BY <1>1, <1>2, <1>3, <1>4, <1>5, <1>6, <1>7, <1>8, <1>9, <1>10, <1>11,
     <1>12, <1>13, <1>14, <1>15, <1>16, <1>17, <1>18, <1>19, <1>20, <1>21, <1>22 DEF Next, Step, JobStep

(* A failed create leaves no release it knows of.                          *)
LEMMA FailedCreateStep ==
    ASSUME TypeOK, EarlyInv, JobInv, CommandInv, FailedCreateLeavesNothing, NEW q \in Procs, [Next]_vars
    PROVE  FailedOf(q)'
<1>d. ASSUME NEW p \in Procs, NEW f \in Files, DeleteAsset(p, f)
      PROVE  DeleteEffect(p, f)
  BY <1>d, DeleteAssetEffect
<1>u. ASSUME NEW p \in Procs, NEW f \in Files, UploadAsset(p, f)
      PROVE  \E a : UploadEffect(p, f, a)
  BY <1>u, UploadAssetEffect
<1> USE DEF TypeOK, Pcs, Ended, Jobs, Active, server, call, work, history
<1>a. FailedOf(q)
  BY DEF FailedCreateLeavesNothing, FailedOf
<1>b. pc[q] \in {"idle", "check", "create"} => status[q] = "none"
  BY DEF EarlyInv
<1>c. /\ pc[q] = "idle" => command[q] = "none"
      /\ pc[q] = "delete" => command[q] = "delete"
      /\ pc[q] = "fetch" => command[q] \in {"upload", "clobber", "delete"}
  BY DEF CommandInv
<1> USE DEF FailedOf, DraftWhileUploading, Exists
<1>1. ASSUME NEW p \in Procs, Start(p)
      PROVE  FailedOf(q)'
  BY <1>1, <1>a, <1>b, <1>c DEF Start, FirstStep, Move, Goto
<1>2. ASSUME NEW p \in Procs, Check(p)
      PROVE  FailedOf(q)'
  BY <1>2, <1>a, <1>b, <1>c DEF Check, Move, Goto
<1>3. ASSUME NEW p \in Procs, CreateRelease(p)
      PROVE  FailedOf(q)'
  BY <1>3, <1>a, <1>b, <1>c, ProcsAreReleases DEF CreateRelease, CreateStatus, QueueJobs, Hitch, Move, Goto
<1>4. ASSUME NEW p \in Procs, CreateRefused(p)
      PROVE  FailedOf(q)'
  BY <1>4, <1>a, <1>b, <1>c DEF CreateRefused, CreateStatus, Move, Goto
<1>5. ASSUME NEW p \in Procs, NEW rel \in Releases, FetchForDelete(p, rel)
      PROVE  FailedOf(q)'
  BY <1>5, <1>a, <1>b, <1>c DEF FetchForDelete, Exists, Move, Goto
<1>6. ASSUME NEW p \in Procs, NEW rel \in Releases, FetchForUpload(p, rel)
      PROVE  FailedOf(q)'
  BY <1>6, <1>a, <1>b, <1>c DEF FetchForUpload, Exists, QueueJobs, Move, Goto
<1>7. ASSUME NEW p \in Procs, FetchFails(p)
      PROVE  FailedOf(q)'
  BY <1>7, <1>a, <1>b, <1>c DEF FetchFails, Move, Goto
<1>8. ASSUME NEW p \in Procs, NEW f \in Files, StartJob(p, f)
      PROVE  FailedOf(q)'
  BY <1>8, <1>a, <1>b, <1>c DEF StartJob, SetJob, Active
<1>9. ASSUME NEW p \in Procs, NEW f \in Files, DeleteAsset(p, f)
      PROVE  FailedOf(q)'
  <2>d. DeleteEffect(p, f)
    BY <1>9, <1>d
  <2> QED
    BY <1>a, <2>d DEF DeleteEffect, Grows
<1>10. ASSUME NEW p \in Procs, NEW f \in Files, DeleteAssetFails(p, f)
       PROVE  FailedOf(q)'
  BY <1>10, <1>a, <1>b, <1>c DEF DeleteAssetFails, SetJob
<1>11. ASSUME NEW p \in Procs, NEW f \in Files, UploadAsset(p, f)
       PROVE  FailedOf(q)'
  <2>u. PICK a : UploadEffect(p, f, a)
    BY <1>11, <1>u
  <2> QED
    BY <1>a, <2>u DEF UploadEffect, Grows
<1>12. ASSUME NEW p \in Procs, NEW f \in Files, UploadRefused(p, f)
       PROVE  FailedOf(q)'
  BY <1>12, <1>a, <1>b, <1>c DEF UploadRefused, Attempt, SetJob
<1>13. ASSUME NEW p \in Procs, NEW f \in Files, UploadFails(p, f)
       PROVE  FailedOf(q)'
  BY <1>13, <1>a, <1>b, <1>c DEF UploadFails, Attempt, SetJob, RetryOrFail
<1>14. ASSUME NEW p \in Procs, NEW f \in Files, UploadCancelled(p, f)
       PROVE  FailedOf(q)'
  BY <1>14, <1>a, <1>b, <1>c DEF UploadCancelled, SetJob
<1>15. ASSUME NEW p \in Procs, UploadsEnd(p)
       PROVE  FailedOf(q)'
  BY <1>15, <1>a, <1>b, <1>c DEF UploadsEnd, Cancelled, DraftWhileUploading, Move, Goto
<1>16. ASSUME NEW p \in Procs, PublishRelease(p)
       PROVE  FailedOf(q)'
  BY <1>16, <1>a, <1>b, <1>c, ProcsAreReleases DEF PublishRelease, Hitch, Move, Goto
<1>17. ASSUME NEW p \in Procs, PublishFails(p)
       PROVE  FailedOf(q)'
  BY <1>17, <1>a, <1>b, <1>c DEF PublishFails, Move, Goto
<1>18. ASSUME NEW p \in Procs, Cleanup(p)
       PROVE  FailedOf(q)'
  BY <1>18, <1>a, <1>b, <1>c, ProcsAreReleases DEF Cleanup, Hitch, Move, Goto
<1>19. ASSUME NEW p \in Procs, DeleteRelease(p)
       PROVE  FailedOf(q)'
  BY <1>19, <1>a, <1>b, <1>c DEF DeleteRelease, Exists, Move, Goto
<1>20. ASSUME NEW p \in Procs, DeleteReleaseFails(p)
       PROVE  FailedOf(q)'
  BY <1>20, <1>a, <1>b, <1>c DEF DeleteReleaseFails, Move, Goto
<1>21. ASSUME NEW p \in Procs, Kill(p)
       PROVE  FailedOf(q)'
  BY <1>21, <1>a, <1>b, <1>c DEF Kill, Goto, Ended
<1>22. CASE UNCHANGED vars
  BY <1>22, <1>a, <1>b, <1>c DEF vars
<1> QED
  BY <1>1, <1>2, <1>3, <1>4, <1>5, <1>6, <1>7, <1>8, <1>9, <1>10, <1>11,
     <1>12, <1>13, <1>14, <1>15, <1>16, <1>17, <1>18, <1>19, <1>20, <1>21, <1>22 DEF Next, Step, JobStep

(* A failed upload has a job that is not done.                             *)
LEMMA UndoneStep ==
    ASSUME TypeOK, EarlyInv, JobInv, CommandInv, CauseInv, UndoneInv, NEW q \in Procs, [Next]_vars
    PROVE  UndoneOf(q)'
<1>d. ASSUME NEW p \in Procs, NEW f \in Files, DeleteAsset(p, f)
      PROVE  DeleteEffect(p, f)
  BY <1>d, DeleteAssetEffect
<1>u. ASSUME NEW p \in Procs, NEW f \in Files, UploadAsset(p, f)
      PROVE  \E a : UploadEffect(p, f, a)
  BY <1>u, UploadAssetEffect
<1> USE DEF TypeOK, Pcs, Ended, Jobs, Active, server, call, work, history
<1>a. UndoneOf(q)
  BY DEF UndoneInv
<1>b. pc[q] \in Early => \A f \in Files : job[q][f] = "none"
  BY DEF EarlyInv
<1>c. /\ pc[q] = "idle" => command[q] = "none"
      /\ pc[q] = "delete" => files[q] = {}
      /\ pc[q] \in {"publish", "cleanup"} => DraftWhileUploading(q)
  BY DEF CommandInv
<1>e. \A f \in Files : job[q][f] # "none" => f \in files[q]
  BY DEF CauseInv, CauseOf
<1> USE DEF UndoneOf, DraftWhileUploading, Early
<1>1. ASSUME NEW p \in Procs, Start(p)
      PROVE  UndoneOf(q)'
  BY <1>1, <1>a, <1>b, <1>c DEF Start, FirstStep, Move, Goto
<1>2. ASSUME NEW p \in Procs, Check(p)
      PROVE  UndoneOf(q)'
  BY <1>2, <1>a, <1>b, <1>c DEF Check, Move, Goto
<1>3. ASSUME NEW p \in Procs, CreateRelease(p)
      PROVE  UndoneOf(q)'
  BY <1>3, <1>a, <1>b, <1>c DEF CreateRelease, CreateStatus, QueueJobs, Hitch, Move, Goto
<1>4. ASSUME NEW p \in Procs, CreateRefused(p)
      PROVE  UndoneOf(q)'
  BY <1>4, <1>a, <1>b, <1>c DEF CreateRefused, CreateStatus, Move, Goto
<1>5. ASSUME NEW p \in Procs, NEW rel \in Releases, FetchForDelete(p, rel)
      PROVE  UndoneOf(q)'
  BY <1>5, <1>a, <1>b, <1>c DEF FetchForDelete, Exists, Move, Goto
<1>6. ASSUME NEW p \in Procs, NEW rel \in Releases, FetchForUpload(p, rel)
      PROVE  UndoneOf(q)'
  BY <1>6, <1>a, <1>b, <1>c DEF FetchForUpload, Exists, QueueJobs, Move, Goto
<1>7. ASSUME NEW p \in Procs, FetchFails(p)
      PROVE  UndoneOf(q)'
  BY <1>7, <1>a, <1>b, <1>c DEF FetchFails, Move, Goto
<1>8. ASSUME NEW p \in Procs, NEW f \in Files, StartJob(p, f)
      PROVE  UndoneOf(q)'
  BY <1>8, <1>a, <1>b, <1>c DEF StartJob, SetJob, Active
<1>9. ASSUME NEW p \in Procs, NEW f \in Files, DeleteAsset(p, f)
      PROVE  UndoneOf(q)'
  <2>d. DeleteEffect(p, f)
    BY <1>9, <1>d
  <2> QED
    BY <1>a, <2>d DEF DeleteEffect
<1>10. ASSUME NEW p \in Procs, NEW f \in Files, DeleteAssetFails(p, f)
       PROVE  UndoneOf(q)'
  BY <1>10, <1>a, <1>b, <1>c DEF DeleteAssetFails, SetJob
<1>11. ASSUME NEW p \in Procs, NEW f \in Files, UploadAsset(p, f)
       PROVE  UndoneOf(q)'
  <2>u. PICK a : UploadEffect(p, f, a)
    BY <1>11, <1>u
  <2> QED
    BY <1>a, <2>u DEF UploadEffect
<1>12. ASSUME NEW p \in Procs, NEW f \in Files, UploadRefused(p, f)
       PROVE  UndoneOf(q)'
  BY <1>12, <1>a, <1>b, <1>c DEF UploadRefused, Attempt, SetJob
<1>13. ASSUME NEW p \in Procs, NEW f \in Files, UploadFails(p, f)
       PROVE  UndoneOf(q)'
  BY <1>13, <1>a, <1>b, <1>c DEF UploadFails, Attempt, SetJob, RetryOrFail
<1>14. ASSUME NEW p \in Procs, NEW f \in Files, UploadCancelled(p, f)
       PROVE  UndoneOf(q)'
  BY <1>14, <1>a, <1>b, <1>c DEF UploadCancelled, SetJob
<1>15. ASSUME NEW p \in Procs, UploadsEnd(p)
       PROVE  UndoneOf(q)'
  <2>1. CASE q = p
    <3>1. pc[q] = "upload" /\ (pc'[q] = "failed" /\ ~DraftWhileUploading(q) => Cancelled(q))
      BY <1>15, <2>1 DEF UploadsEnd, Move, Goto
    <3>2. Cancelled(q) => \E f \in files[q] : job[q][f] # "done"
      BY <1>e DEF Cancelled
    <3>3. UNCHANGED <<job, files, command>>
      BY <1>15 DEF UploadsEnd
    <3> QED
      BY <3>1, <3>2, <3>3
  <2>2. CASE q # p
    BY <1>15, <1>a, <2>2 DEF UploadsEnd, Move, Goto
  <2> QED
    BY <2>1, <2>2
<1>16. ASSUME NEW p \in Procs, PublishRelease(p)
       PROVE  UndoneOf(q)'
  BY <1>16, <1>a, <1>b, <1>c DEF PublishRelease, Hitch, Move, Goto
<1>17. ASSUME NEW p \in Procs, PublishFails(p)
       PROVE  UndoneOf(q)'
  BY <1>17, <1>a, <1>b, <1>c DEF PublishFails, Move, Goto
<1>18. ASSUME NEW p \in Procs, Cleanup(p)
       PROVE  UndoneOf(q)'
  BY <1>18, <1>a, <1>b, <1>c DEF Cleanup, Hitch, Move, Goto
<1>19. ASSUME NEW p \in Procs, DeleteRelease(p)
       PROVE  UndoneOf(q)'
  BY <1>19, <1>a, <1>b, <1>c DEF DeleteRelease, Exists, Move, Goto
<1>20. ASSUME NEW p \in Procs, DeleteReleaseFails(p)
       PROVE  UndoneOf(q)'
  BY <1>20, <1>a, <1>b, <1>c DEF DeleteReleaseFails, Move, Goto
<1>21. ASSUME NEW p \in Procs, Kill(p)
       PROVE  UndoneOf(q)'
  BY <1>21, <1>a, <1>b, <1>c DEF Kill, Goto, Ended
<1>22. CASE UNCHANGED vars
  BY <1>22, <1>a, <1>b, <1>c DEF vars
<1> QED
  BY <1>1, <1>2, <1>3, <1>4, <1>5, <1>6, <1>7, <1>8, <1>9, <1>10, <1>11,
     <1>12, <1>13, <1>14, <1>15, <1>16, <1>17, <1>18, <1>19, <1>20, <1>21, <1>22 DEF Next, Step, JobStep

-----------------------------------------------------------------------------
(* The theorems.                                                           *)

(* Every step keeps the invariant ...                                      *)
LEMMA InvStep == Inv /\ [Next]_vars => Inv'
<1> SUFFICES ASSUME Inv, [Next]_vars PROVE Inv'
  OBVIOUS
<1> USE DEF Inv
<1>1. TypeOK' /\ EarlyInv' /\ CommandInv' /\ DraftInv' /\ LossInv'
  BY TypeStep, EarlyStep, CommandStep, DraftStep, LossStep
<1>2. JobInv'
  BY JobInvStep DEF JobInv
<1>3. KeptInv'
  BY KeptStep DEF KeptInv
<1>4. CauseInv'
  BY CauseStep DEF CauseInv
<1>5. UndoneInv'
  BY UndoneStep DEF UndoneInv
<1>6. FailedCreateLeavesNothing'
  BY FailedCreateStep DEF FailedCreateLeavesNothing, FailedOf
<1> QED
  BY <1>1, <1>2, <1>3, <1>4, <1>5, <1>6

(* ... so it always holds.                                                 *)
LEMMA Invariance == Spec => []Inv
BY InitStep, InvStep, PTL DEF Spec

(* The variables keep their types: no job makes more than MaxAttempts      *)
(* attempts (shouldRetry).                                                 *)
THEOREM TypeCorrect == Spec => []TypeOK
<1>1. Inv => TypeOK
  BY DEF Inv
<1> QED
  BY <1>1, Invariance, PTL

(* `create` publishes a release only with all its files.                   *)
THEOREM PublicHasAllFiles == Spec => []PublicHasItsFiles
<1>1. Inv => PublicHasItsFiles
  <2> SUFFICES ASSUME Inv, NEW p \in Procs, command[p] = "create", Public(p),
                      NEW f \in files[p]
               PROVE  \/ Stored(p, f)
                      \/ \E a \in Own(p) : <<p, f, a>> \in clobbered
    BY DEF PublicHasItsFiles
  <2>1. Kept(p, f)
    BY DEF Inv, KeptInv, KeptOf, DraftWhileUploading
  <2>2. release[p] = p
    BY DEF Inv, CommandInv
  <2> QED
    BY <2>1, <2>2 DEF Kept
<1> QED
  BY <1>1, Invariance, PTL

(* A command that reports success has stored its files.                    *)
THEOREM SuccessHasStoredFiles == Spec => []SuccessIsStored
<1>1. Inv => SuccessIsStored
  BY DEF Inv, KeptInv, KeptOf, Kept, SuccessIsStored
<1> QED
  BY <1>1, Invariance, PTL

(* A --clobber that succeeds has replaced what it deleted.                 *)
THEOREM AssetsAreLostOnlyByFailure == Spec => []LostOnlyByFailure
<1>1. Inv => LostOnlyByFailure
  BY DEF Inv, LossInv, Lost, Owes, LostOnlyByFailure
<1> QED
  BY <1>1, Invariance, PTL

(* A `create` that fails cleans up its draft.                              *)
THEOREM FailedCreateIsCleanedUp == Spec => []FailedCreateLeavesNothing
<1>1. Inv => FailedCreateLeavesNothing
  BY DEF Inv
<1> QED
  BY <1>1, Invariance, PTL

(* An upload whose files have arrived fails only when an answer was lost.  *)
THEOREM FailedUploadHasACause == Spec => []UploadFailsForACause
<1>1. Inv => UploadFailsForACause
  <2> SUFFICES ASSUME Inv, NEW p \in Procs, pc[p] = "failed",
                      ~DraftWhileUploading(p), files[p] # {},
                      \A f \in files[p] : Stored(p, f)
               PROVE  "upload" \in hitches[p]
    BY DEF UploadFailsForACause
  <2>1. files[p] \subseteq Files
    BY DEF Inv, TypeOK
  <2>2. PICK f \in files[p] : job[p][f] # "done"
    BY DEF Inv, UndoneInv, UndoneOf
  <2> QED
    BY <2>1, <2>2 DEF Inv, CauseInv, CauseOf
<1> QED
  BY <1>1, Invariance, PTL

(* A public release is deleted only by `gh release delete`, or by the      *)
(* clean-up of a `create` that does not know it is public.                 *)
THEOREM PublicStaysUnlessDeleted == Spec => PublicIsDeletedOnPurpose
<1> DEFINE OnPurpose ==
        \A r \in Releases : Public(r) /\ status'[r] = "deleted" =>
            \E p \in Procs :
                \/ pc[p] = "delete" /\ release[p] = r
                \/ r = p /\ pc[p] = "cleanup" /\ "publish" \in hitches[p]
<1>1. ASSUME Inv, Next PROVE OnPurpose
  <2> SUFFICES ASSUME NEW r \in Releases, Public(r), status'[r] = "deleted"
               PROVE  \E p \in Procs :
                          \/ pc[p] = "delete" /\ release[p] = r
                          \/ r = p /\ pc[p] = "cleanup" /\ "publish" \in hitches[p]
    OBVIOUS
  <2>1. TypeOK /\ DraftInv
    BY <1>1 DEF Inv
  <2>2. status[r] = "published" /\ status' # status
    BY DEF Public
  <2>3. PICK p \in Procs : Start(p) \/ Step(p) \/ Kill(p)
    BY <1>1 DEF Next
  <2>4. ASSUME NEW f \in Files, JobStep(p, f)
        PROVE  status' = status
    BY <2>4 DEF JobStep, StartJob, DeleteAsset, DeleteAssetFails, UploadAsset,
                UploadRefused, UploadFails, UploadCancelled, server
  <2>5. CASE CreateRelease(p) \/ PublishRelease(p)
    BY <2>1, <2>2, <2>5, ProcsAreReleases DEF TypeOK, CreateRelease, CreateStatus, PublishRelease
  <2>6. CASE Cleanup(p)
    <3>1. r = p
      BY <2>1, <2>2, <2>6 DEF TypeOK, Cleanup
    <3>2. pc[p] = "cleanup"
      BY <2>6 DEF Cleanup, Move
    <3> QED
      BY <2>1, <3>1, <3>2 DEF DraftInv
  <2>7. CASE DeleteRelease(p)
    <3>1. release[p] = r
      BY <2>1, <2>2, <2>7 DEF TypeOK, DeleteRelease
    <3>2. pc[p] = "delete"
      BY <2>7 DEF DeleteRelease, Move
    <3> QED
      BY <3>1, <3>2
  <2>8. CASE \/ Start(p) \/ Check(p) \/ CreateRefused(p) \/ FetchFails(p)
             \/ \E rel \in Releases : FetchForDelete(p, rel) \/ FetchForUpload(p, rel)
             \/ UploadsEnd(p) \/ PublishFails(p) \/ DeleteReleaseFails(p) \/ Kill(p)
    BY <2>2, <2>8 DEF Start, Check, CreateRefused, FetchFails, FetchForDelete,
         FetchForUpload, UploadsEnd, PublishFails, DeleteReleaseFails, Kill, server
  <2> QED
    BY <2>2, <2>3, <2>4, <2>5, <2>6, <2>7, <2>8 DEF Step
<1>2. Inv /\ [Next]_vars => [OnPurpose]_vars
  BY <1>1
<1> QED
  BY <1>2, Invariance, PTL DEF Spec, PublicIsDeletedOnPurpose

=============================================================================
