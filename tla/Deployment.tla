----------------------------- MODULE Deployment -----------------------------
(***************************************************************************)
(* The root executor of one stack, command by command: preflight, image,   *)
(* discovery of the running release, candidate override, Compose update,   *)
(* health verification, atomic commit of the state file, and the recovery  *)
(* of the previous image when one of the last three fails.  Every command  *)
(* and every file operation may fail, the deadline may pass, the helper    *)
(* may be killed, and the host may lose power, which forgets a rename that *)
(* was not followed by a directory sync.                                   *)
(*                                                                         *)
(* The file lock makes executions of a host sequential (OneHelperPerHost   *)
(* of Operations), so one helper at a time runs here.  The root policy may *)
(* be edited between executions: any approved identity may name any image. *)
(***************************************************************************)
EXTENDS Integers, ReleaseEffects

CONSTANTS
  Images,     \* immutable image references
  Digest,     \* the digest of each image: mirrors share one
  Unpinned,   \* a running image without a repository digest
  NoImage,    \* no container of the service
  MaxFaults   \* bound on failing commands and deadlines of an execution

ASSUME DeploymentAssumption ==
  /\ {Unpinned, NoImage} \cap Images = {}
  /\ DOMAIN Digest = Images
  /\ MaxFaults \in Nat

VARIABLES
  running,   \* the image of the service's container
  sick,      \* digests whose containers never pass the health check
  stored,    \* the state file as a reader finds it
  durable,   \* the state file as it survives a power loss
  pc,        \* the command the helper executes next
  job,       \* the execution in progress, or the last one
  expired,   \* the context of the current phase has passed its deadline
  faults,    \* failed commands and deadlines of the execution
  result,    \* the typed result, or that the helper died
  doubt      \* history: the container may differ from the state file

vars == <<running, sick, stored, durable, pc, job, expired, faults, result, doubt>>

AnyImage == Images \cup {Unpinned, NoImage}
Digests == {Digest[i] : i \in Images}
SameImage(i, j) == i \in Images /\ j \in Images /\ Digest[i] = Digest[j]

Release == [id: Releases \cup {External}, image: Images]
NoRel == [id |-> NoRelease, image |-> NoImage]
State == [current: Release, previous: Release \cup {NoRel}]
NoState == [current |-> NoRel, previous |-> NoRel]

(* What validateDeploymentState demands of a file it reads.                *)
Readable(s) == ~SameImage(s.current.image, s.previous.image)

Healthy(image) == image \in Images /\ Digest[image] \notin sick

NoJob == [mode |-> "none"]
NoResult == [outcome |-> "none", error |-> "none"]
Errors == {"none", "died", "preflight_failed", "image_prepare_failed",
           "current_release_unknown", "state_prepare_failed", "compose_apply_failed",
           "health_verification_failed", "state_commit_failed", "rollback_failed"}
Steps == {"preflight", "prepare", "discover", "confirm", "write", "validate",
          "apply", "verify", "rename", "sync"}
-----------------------------------------------------------------------------
Init ==
  /\ running \in AnyImage
  /\ sick \in SUBSET Digests
  /\ stored \in {s \in State : Readable(s) /\ SameImage(running, s.current.image)} \cup {NoState}
  /\ durable = stored
  /\ pc = "idle"
  /\ job = NoJob
  /\ expired = FALSE
  /\ faults = 0
  /\ result = NoResult
  /\ doubt = FALSE
-----------------------------------------------------------------------------
(* deploymentDefinitions: a deployment of every approved release whose     *)
(* image reference is not the current one, and the rollback.               *)
Offered(s) ==
  [kind: {"deploy"},
   target: {x \in Release : x.id \in Releases /\ x.image # s.current.image}]
  \cup (IF s.previous = NoRel THEN {} ELSE [kind: {"rollback"}, target: {s.previous}])

(* The helper holds the file lock and has loaded policy and state.         *)
Start ==
  /\ pc = "idle"
  /\ \E d \in Offered(stored) :
       job' = [mode |-> "decide", kind |-> d.kind, target |-> d.target, base |-> stored,
               current |-> stored.current, before |-> running, file |-> NoState,
               error |-> "none", spent |-> 0]
  /\ pc' = "preflight"
  /\ expired' = FALSE
  /\ faults' = 0
  /\ result' = NoResult
  /\ UNCHANGED <<running, sick, stored, durable, doubt>>

(* Commands run under the phase's context; file operations do not.         *)
Works(underContext) ==
  /\ ~(underContext /\ expired)
  /\ UNCHANGED faults
Breaks(underContext) ==
  \/ (underContext /\ expired /\ UNCHANGED faults)
  \/ (faults < MaxFaults /\ faults' = faults + 1)

Expire ==
  /\ pc # "idle" /\ ~expired /\ faults < MaxFaults
  /\ expired' = TRUE
  /\ faults' = faults + 1
  /\ UNCHANGED <<running, sick, stored, durable, pc, job, result, doubt>>

End(o, error) ==
  /\ pc' = "idle"
  /\ result' = [outcome |-> o, error |-> error]

(* Mutant: the rollback point is forgotten.                                *)
RestoreFileForgetful(j) == [current |-> j.current, previous |-> NoRel]

(* The state the recovery writes: the one found, or one made of the        *)
(* discovered release when there was no file.                              *)
RestoreFile(j) ==
  IF j.base.current = NoRel THEN [current |-> j.current, previous |-> NoRel] ELSE j.base

(* Mutant: the recovery runs under the candidate's context.                *)
RestoreSharing(error) ==
  /\ job' = [job EXCEPT !.mode = "restore", !.file = RestoreFile(job), !.error = error,
                        !.spent = faults']
  /\ pc' = "write"
  /\ UNCHANGED <<result, doubt, expired>>

(* The recovery starts with a context of its own.                          *)
Restore(error) ==
  /\ job' = [job EXCEPT !.mode = "restore", !.file = RestoreFile(job), !.error = error,
                        !.spent = faults']
  /\ pc' = "write"
  /\ expired' = FALSE
  /\ UNCHANGED <<result, doubt>>

(* Mutants: a failed commit, or a failed Compose update, is reported       *)
(* without recovery.                                                       *)
FailedSwitchUpdated(step) ==
  CASE step = "apply"  -> End("failed", "compose_apply_failed") /\ UNCHANGED <<job, expired, doubt>>
    [] step = "verify" -> Restore("health_verification_failed")
    [] step \in {"rename", "sync"} -> Restore("state_commit_failed")
FailedSwitchKept(step) ==
  CASE step = "apply"  -> Restore("compose_apply_failed")
    [] step = "verify" -> Restore("health_verification_failed")
    [] step \in {"rename", "sync"} -> End("failed", "state_commit_failed") /\ UNCHANGED <<job, expired, doubt>>

(* Once Compose may have changed the service, a failure is recovered.      *)
FailedSwitch(step) ==
  CASE step = "apply"  -> Restore("compose_apply_failed")
    [] step = "verify" -> Restore("health_verification_failed")
    [] step \in {"rename", "sync"} -> Restore("state_commit_failed")

ErrorOf(step) ==
  CASE step \in {"preflight", "validate"} -> "preflight_failed"
    [] step = "prepare"  -> "image_prepare_failed"
    [] step = "discover" -> "current_release_unknown"
    [] step = "confirm"  -> "health_verification_failed"
    [] step = "write" /\ job.mode = "switch" -> "state_prepare_failed"
    [] OTHER -> "state_commit_failed"

(* What the failure of a step leads to.                                    *)
GiveUp(step) ==
  IF job.mode = "switch" /\ step \in {"apply", "verify", "rename", "sync"}
  THEN FailedSwitch(step)
  ELSE /\ UNCHANGED <<job, expired>>
       /\ IF job.mode = "restore"
          THEN End("failed", "rollback_failed") /\ doubt' = TRUE
          ELSE End("failed", ErrorOf(step)) /\ UNCHANGED doubt

GoOn(next) ==
  /\ pc' = next
  /\ UNCHANGED <<job, expired, result, doubt>>
-----------------------------------------------------------------------------
(* Stack files and the Compose service are validated.                      *)
Preflight ==
  /\ pc = "preflight"
  /\ \/ Works(TRUE) /\ GoOn("prepare")
     \/ Breaks(TRUE) /\ GiveUp("preflight")
  /\ UNCHANGED <<running, sick, stored, durable>>

(* Mutant: images are compared as references, as the definitions do.       *)
DecideByReference(current) ==
  IF current.image = job.target.image
  THEN /\ job' = [job EXCEPT !.mode = "adopt", !.current = current,
                    !.file = [current |-> job.target, previous |-> NoRel]]
       /\ pc' = "confirm"
  ELSE /\ job' = [job EXCEPT !.mode = "switch", !.current = current,
                    !.file = [current |-> job.target, previous |-> current]]
       /\ pc' = "write"

(* A target that has the current digest is only adopted; any other one is  *)
(* switched to, and what was current becomes the rollback point.           *)
Decide(current) ==
  IF SameImage(current.image, job.target.image)
  THEN /\ job' = [job EXCEPT !.mode = "adopt", !.current = current,
                    !.file = [current |-> job.target, previous |-> NoRel]]
       /\ pc' = "confirm"
  ELSE /\ job' = [job EXCEPT !.mode = "switch", !.current = current,
                    !.file = [current |-> job.target, previous |-> current]]
       /\ pc' = "write"

PrepareImage ==
  /\ pc = "prepare"
  /\ \/ /\ Works(TRUE)
        /\ IF job.current = NoRel THEN pc' = "discover" /\ UNCHANGED job
           ELSE Decide(job.current)
        /\ UNCHANGED <<expired, result, doubt>>
     \/ Breaks(TRUE) /\ GiveUp("prepare")
  /\ UNCHANGED <<running, sick, stored, durable>>

(* Without a state file the running container tells the current release,   *)
(* under any reference of its digest.                                      *)
DiscoverCurrent ==
  /\ pc = "discover"
  /\ \/ /\ Works(TRUE)
        /\ \E i \in Images : SameImage(running, i) /\ Decide([id |-> External, image |-> i])
        /\ UNCHANGED <<expired, result, doubt>>
     \/ /\ Breaks(TRUE) \/ (running \notin Images /\ Works(TRUE))
        /\ GiveUp("discover")
  /\ UNCHANGED <<running, sick, stored, durable>>

(* The adopted target is not applied: some container must be healthy.      *)
ConfirmHealth ==
  /\ pc = "confirm"
  /\ \/ Works(TRUE) /\ Healthy(running) /\ GoOn("write")
     \/ /\ Breaks(TRUE) \/ (~Healthy(running) /\ Works(TRUE))
        /\ GiveUp("confirm")
  /\ UNCHANGED <<running, sick, stored, durable>>

WriteCandidate ==
  /\ pc = "write"
  /\ \/ Works(FALSE) /\ GoOn(IF job.mode = "adopt" THEN "rename" ELSE "validate")
     \/ Breaks(FALSE) /\ GiveUp("write")
  /\ UNCHANGED <<running, sick, stored, durable>>

ValidateCandidate ==
  /\ pc = "validate"
  /\ \/ Works(TRUE) /\ GoOn("apply")
     \/ Breaks(TRUE) /\ GiveUp("validate")
  /\ UNCHANGED <<running, sick, stored, durable>>

(* "docker compose up": interrupted, it may have done all, half or none.   *)
Interrupted == {running, job.file.current.image, NoImage}
ApplyOverride ==
  /\ pc = "apply"
  /\ \/ /\ Works(TRUE) /\ GoOn("verify")
        /\ running' = job.file.current.image
     \/ /\ Breaks(TRUE) /\ GiveUp("apply")
        /\ running' \in Interrupted
  /\ UNCHANGED <<sick, stored, durable>>

(* Mutant: a running container is enough.                                  *)
VerifyRunning ==
  /\ pc = "verify"
  /\ \/ Works(TRUE) /\ GoOn("rename")
     \/ /\ Breaks(TRUE)
        /\ GiveUp("verify")
  /\ UNCHANGED <<running, sick, stored, durable>>

VerifyHealth ==
  /\ pc = "verify"
  /\ \/ /\ Works(TRUE) /\ Healthy(running) /\ GoOn("rename")
     \/ /\ Breaks(TRUE) \/ (~Healthy(running) /\ Works(TRUE))
        /\ GiveUp("verify")
  /\ UNCHANGED <<running, sick, stored, durable>>

(* The commit: the rename is seen at once, and durable after the sync.     *)
RenameState ==
  /\ pc = "rename"
  /\ \/ Works(FALSE) /\ GoOn("sync") /\ stored' = job.file
     \/ Breaks(FALSE) /\ GiveUp("rename") /\ UNCHANGED stored
  /\ UNCHANGED <<running, sick, durable>>

(* Mutant: the directory is not synced.                                    *)
SyncSkipped ==
  /\ pc = "sync"
  /\ Works(FALSE)
  /\ IF job.mode = "restore" THEN End("rolled_back", job.error) ELSE End("succeeded", "none")
  /\ doubt' = (doubt /\ job.mode = "adopt")
  /\ UNCHANGED <<running, sick, stored, durable, job, expired>>

SyncDirectory ==
  /\ pc = "sync"
  /\ \/ /\ Works(FALSE)
        /\ durable' = stored
        /\ IF job.mode = "restore" THEN End("rolled_back", job.error) ELSE End("succeeded", "none")
        /\ doubt' = (doubt /\ job.mode = "adopt")
        /\ UNCHANGED <<job, expired>>
     \/ Breaks(FALSE) /\ GiveUp("sync") /\ UNCHANGED durable
  /\ UNCHANGED <<running, sick, stored>>
-----------------------------------------------------------------------------
(* The service may run a candidate that the state file does not name.      *)
Unfinished ==
  \/ job.mode = "switch" /\ pc \in {"apply", "verify", "rename"}
  \/ job.mode = "restore" /\ pc \in {"write", "validate", "apply", "verify", "rename"}

(* The helper ends without a result, at any command.                       *)
Dies ==
  /\ IF pc = "idle" THEN UNCHANGED <<pc, result>> ELSE End("failed", "died")
  /\ IF pc = "apply" THEN running' \in Interrupted ELSE UNCHANGED running
  /\ doubt' = (doubt \/ Unfinished)
  /\ UNCHANGED <<sick, job, expired, faults>>

HelperKilled ==
  /\ pc # "idle"
  /\ Dies
  /\ UNCHANGED <<stored, durable>>

(* The host loses power: Docker starts the container again, a rename that  *)
(* was not synced may be gone.                                             *)
PowerLoss ==
  /\ \/ Dies /\ UNCHANGED stored
     \/ /\ durable # stored
        /\ IF pc = "idle" THEN UNCHANGED <<pc, result>> ELSE End("failed", "died")
        /\ IF pc = "apply" THEN running' \in Interrupted ELSE UNCHANGED running
        /\ doubt' = TRUE
        /\ stored' = durable
        /\ UNCHANGED <<sick, job, expired, faults>>
  /\ durable' = stored'
-----------------------------------------------------------------------------
Step ==
  \/ Preflight \/ PrepareImage \/ DiscoverCurrent \/ ConfirmHealth
  \/ WriteCandidate \/ ValidateCandidate \/ ApplyOverride \/ VerifyHealth
  \/ RenameState \/ SyncDirectory

Next == Start \/ Step \/ Expire \/ HelperKilled \/ PowerLoss

Spec == Init /\ [][Next]_vars
-----------------------------------------------------------------------------
(* Every variable has its type: only releases and images of the policy, of *)
(* the state file or of the discovered container are ever recorded.        *)
TypeOK ==
  /\ running \in AnyImage
  /\ sick \subseteq Digests
  /\ stored \in State \cup {NoState} /\ durable \in State \cup {NoState}
  /\ pc \in Steps \cup {"idle"}
  /\ job \in {NoJob} \cup
       [mode: {"decide", "adopt", "switch", "restore"}, kind: {"deploy", "rollback"},
        target: Release, base: State \cup {NoState}, current: Release \cup {NoRel},
        before: AnyImage, file: State \cup {NoState}, error: Errors,
        spent: 0..MaxFaults]
  /\ expired \in BOOLEAN
  /\ faults \in 0..MaxFaults
  /\ result \in [outcome: Outcomes \cup {"none"}, error: Errors]
  /\ doubt \in BOOLEAN

(* Every state file this code leaves behind is one the next run will read: *)
(* else policy loading refuses every stack of the host from then on.       *)
StateReadable == Readable(stored) /\ Readable(durable)

(* Whatever fails, short of a failed recovery, a killed Compose update or a *)
(* lost rename, the container runs what the state file says when the       *)
(* helper is done, also when the commit failed after its rename.           *)
StateMatchesContainer ==
  pc = "idle" /\ ~doubt /\ stored # NoState => SameImage(running, stored.current.image)

(* A reported success survives a power loss; a switched target runs and    *)
(* was found healthy, and the release it replaced is the rollback point.   *)
SuccessIsDurable ==
  pc = "idle" /\ result.outcome = "succeeded" =>
    /\ stored = job.file /\ durable = stored
    /\ stored.current = job.target
    /\ job.mode = "switch" => /\ running = job.target.image /\ Healthy(running)
                              /\ stored.previous = job.current

(* A reported rollback runs the image from before the operation, verified  *)
(* again, and the state file says so durably.                              *)
RollbackIsReal ==
  pc = "idle" /\ result.outcome = "rolled_back" =>
    /\ running = job.current.image /\ Healthy(running)
    /\ stored = RestoreFile(job) /\ durable = stored

(* Any other failure is reported before the service was touched: the       *)
(* container is the one from before, and the state file too unless the     *)
(* adoption of a release that already ran failed to sync.                  *)
FailureLeavesService ==
  [][pc # "idle" /\ pc' = "idle" /\ result'.outcome = "failed"
       /\ result'.error \notin {"rollback_failed", "died"} =>
       /\ running' = job'.before
       /\ stored' = job'.base \/ (job'.mode = "adopt" /\ result'.error = "state_commit_failed")]_vars

(* "an exhausted candidate deadline cannot consume the time reserved for   *)
(* restoring the previous service": recovery fails only if one of its own  *)
(* commands did, or the restored image is not healthy.                     *)
RecoveryIndependent ==
  pc = "idle" /\ result.error = "rollback_failed" =>
    faults > job.spent \/ ~Healthy(job.current.image)

(* "succeeded after the target release passes health verification".        *)
SuccessRunsTarget ==
  pc = "idle" /\ result.outcome = "succeeded" => SameImage(running, job.target.image)

(* The commands implement the executor's contract: while an execution is   *)
(* in progress, a reader of the contract still sees the state it found.    *)
Ids(s) == [current |-> s.current.id, previous |-> s.previous.id]
Contract == INSTANCE StackRelease WITH
              rel <- Ids(IF pc = "idle" THEN stored ELSE job.base),
              disk <- Ids(durable),
              outcome <- result.outcome
ImplementsStackRelease == Contract!RSpec
=============================================================================
