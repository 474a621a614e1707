-------------------------- MODULE DeploymentProofs --------------------------
(***************************************************************************)
(* Proofs about Deployment, for every set of releases and images, every    *)
(* assignment of digests and every bound on faults.                        *)
(*                                                                         *)
(* IInv says where the state file and the container are at every command:  *)
(* before the Compose update both are those the execution found; at the    *)
(* commit the container is the verified image of the file being committed; *)
(* in the recovery the file is the one found or the candidate's.           *)
(***************************************************************************)
EXTENDS Deployment, TLAPS

Job == [mode: {"decide", "adopt", "switch", "restore"}, kind: {"deploy", "rollback"},
        target: Release, base: State \cup {NoState}, current: Release \cup {NoRel},
        before: AnyImage, file: State \cup {NoState}, error: Errors,
        spent: 0..MaxFaults]

Candidate(j) == [current |-> j.target, previous |-> j.current]
Adopted(j) == [current |-> j.target, previous |-> NoRel]
Recoverable == {"none", "compose_apply_failed", "health_verification_failed", "state_commit_failed"}

(* What the file, the current release and the mode have to do with each    *)
(* other, during an execution and after it.                                *)
JobInv ==
  job # NoJob =>
    /\ Readable(job.base)
    /\ job.error \in Recoverable
    /\ job.base.current # NoRel => job.current = job.base.current
    /\ job.base.current = NoRel /\ job.current # NoRel => job.current.id = External
    /\ job.mode # "decide" => job.current \in Release
    /\ job.mode = "adopt" => /\ job.file = Adopted(job)
                             /\ SameImage(job.current.image, job.target.image)
    /\ job.mode = "switch" => /\ job.file = Candidate(job)
                              /\ ~SameImage(job.current.image, job.target.image)
    /\ job.mode = "restore" => /\ job.file = RestoreFile(job)
                               /\ ~SameImage(job.current.image, job.target.image)

(* Which mode each command belongs to.                                     *)
PhaseInv ==
  /\ pc # "idle" => job # NoJob /\ result = NoResult
  /\ pc \in {"preflight", "prepare", "discover"} => job.mode = "decide" /\ job.current = job.base.current
  /\ pc = "discover" => job.current = NoRel
  /\ pc = "confirm" => job.mode = "adopt"
  /\ pc \in {"write", "rename", "sync"} => job.mode \in {"adopt", "switch", "restore"}
  /\ pc \in {"validate", "apply", "verify"} => job.mode \in {"switch", "restore"}

(* Which state file a reader finds at each command.                        *)
StoredInv ==
  /\ pc = "sync" => stored = job.file
  /\ pc \notin {"idle", "sync"} /\ job.mode # "restore" => stored = job.base
  /\ pc \notin {"idle", "sync"} /\ job.mode = "restore" => stored \in {job.base, Candidate(job)}

(* Which image runs at each command.                                       *)
RunningInv ==
  /\ pc # "idle" /\ job.mode \in {"decide", "adopt"} => running = job.before
  /\ pc \in {"write", "validate", "apply"} /\ job.mode = "switch" => running = job.before
  /\ pc = "verify" => running = job.file.current.image
  /\ pc \in {"rename", "sync"} /\ job.mode # "adopt" =>
       running = job.file.current.image /\ Healthy(running)

(* Without doubt the container found matches the current release found.    *)
FoundInv ==
  pc # "idle" /\ ~doubt /\ job.current # NoRel => SameImage(job.before, job.current.image)

(* The recovery's own failures are counted.                                *)
RecoveryInv ==
  job # NoJob /\ job.mode = "restore" /\ pc # "idle" =>
    faults >= job.spent /\ (expired => faults > job.spent)

(* A result that was reported names the job it belongs to.                 *)
ResultInv ==
  /\ result.outcome # "none" => job # NoJob
  /\ result.outcome = "succeeded" => job.mode \in {"adopt", "switch"}
  /\ result.outcome \in {"rolled_back", "none"} => result.error \in Recoverable
  /\ result.outcome = "succeeded" => result.error = "none"

IInv ==
  /\ TypeOK /\ JobInv /\ PhaseInv /\ StoredInv /\ RunningInv /\ FoundInv
  /\ RecoveryInv /\ ResultInv
  /\ StateReadable /\ StateMatchesContainer /\ SuccessIsDurable /\ RollbackIsReal
  /\ RecoveryIndependent
-----------------------------------------------------------------------------
(* The identities a job is made of are distinct from the empty ones.       *)
LEMMA Basics ==
  /\ NoRel \notin Release /\ NoState \notin State
  /\ \A x \in Release : x.image \in Images /\ x.id # NoRelease /\ SameImage(x.image, x.image)
  /\ NoImage \notin Images /\ NoJob \notin Job
  /\ Readable(NoState)
<1> USE DeploymentAssumption, ReleaseAssumption
<1>1. \A x \in Release : x.image \in Images /\ x.id # NoRelease /\ SameImage(x.image, x.image)
  BY DEF Release, SameImage
<1>2. NoRel \notin Release /\ NoState \notin State
  BY <1>1 DEF NoRel, NoState, State
<1>3. NoImage \notin Images /\ NoJob \notin Job
  BY DEF NoJob, Job
<1>4. Readable(NoState)
  BY <1>3 DEF Readable, SameImage, NoState, NoRel
<1>. QED
  BY <1>1, <1>2, <1>3, <1>4

(* The file a recovery writes: it is well formed, names the image from     *)
(* before the operation, and can be read again.                            *)
LEMMA RestoreFileFacts ==
  ASSUME NEW j \in Job, j.current \in Release, Readable(j.base),
         j.base.current # NoRel => j.current = j.base.current
  PROVE  /\ RestoreFile(j) \in State
         /\ RestoreFile(j).current = j.current
         /\ Readable(RestoreFile(j))
<1>1. CASE j.base.current = NoRel
  <2>1. RestoreFile(j) = [current |-> j.current, previous |-> NoRel]
    BY <1>1 DEF RestoreFile
  <2>2. RestoreFile(j) \in State
    BY <2>1 DEF State
  <2>3. Readable(RestoreFile(j))
    BY <2>1, Basics DEF Readable, SameImage, NoRel
  <2>. QED
    BY <2>1, <2>2, <2>3
<1>2. CASE j.base.current # NoRel
  <2>1. RestoreFile(j) = j.base
    BY <1>2 DEF RestoreFile
  <2>2. j.base \in State
    BY <1>2 DEF Job, NoState
  <2>. QED
    BY <1>2, <2>1, <2>2
<1>. QED
  BY <1>1, <1>2

(* The contents of a job that has decided what to do.                      *)
LEMMA FileFacts ==
  ASSUME TypeOK, JobInv, job # NoJob, job.mode # "decide"
  PROVE  /\ job \in Job /\ job.current \in Release /\ job.target \in Release
         /\ job.file \in State /\ Readable(job.file)
         /\ RestoreFile(job) \in State /\ RestoreFile(job).current = job.current
         /\ Readable(RestoreFile(job)) /\ Candidate(job) \in State
         /\ job.mode # "adopt" => Readable(Candidate(job))
         /\ job.mode = "restore" => job.file.current = job.current
         /\ job.mode # "restore" => job.file.current = job.target
<1>1. job \in Job
  BY DEF TypeOK, Job
<1>2. job.current \in Release /\ job.target \in Release
  BY <1>1 DEF JobInv, Job
<1>3. /\ RestoreFile(job) \in State /\ RestoreFile(job).current = job.current
      /\ Readable(RestoreFile(job))
  BY <1>1, <1>2, RestoreFileFacts DEF JobInv
<1>4. Candidate(job) \in State /\ Adopted(job) \in State
  BY <1>2 DEF Candidate, Adopted, State
<1>5. Readable(Adopted(job))
  BY Basics DEF Readable, Adopted, SameImage, NoRel
<1>6. job.mode # "adopt" => Readable(Candidate(job))
  BY <1>1 DEF JobInv, Readable, Candidate, SameImage, Job
<1>7. job.mode \in {"adopt", "switch", "restore"}
  BY <1>1 DEF Job
<1>8. job.file \in State /\ Readable(job.file)
  BY <1>3, <1>4, <1>5, <1>6, <1>7 DEF JobInv
<1>9. job.mode = "restore" => job.file.current = job.current
  BY <1>3 DEF JobInv
<1>10. job.mode # "restore" => job.file.current = job.target
  BY <1>7 DEF JobInv, Candidate, Adopted
<1>. QED
  BY <1>1, <1>2, <1>3, <1>4, <1>6, <1>8, <1>9, <1>10

(* The initial states.                                                     *)
LEMMA InitInv == Init => IInv
<1> SUFFICES ASSUME Init PROVE IInv
  OBVIOUS
<1> USE Basics
<1>1. stored \in State \cup {NoState}
  BY DEF Init
<1>2. Readable(stored)
  BY DEF Init
<1>3. TypeOK
  <2>1. result \in [outcome: Outcomes \cup {"none"}, error: Errors] /\ faults \in 0..MaxFaults
    BY DeploymentAssumption DEF Init, NoResult, Errors
  <2>. QED
    BY <1>1, <2>1 DEF Init, TypeOK
<1>4. StateReadable
  BY <1>2 DEF Init, StateReadable
<1>5. StateMatchesContainer
  BY DEF Init, StateMatchesContainer
<1>6. JobInv /\ PhaseInv /\ StoredInv /\ RunningInv /\ FoundInv /\ RecoveryInv /\ ResultInv
  BY DEF Init, JobInv, PhaseInv, StoredInv, RunningInv, FoundInv, RecoveryInv, ResultInv, NoResult, Recoverable
<1>7. SuccessIsDurable /\ RollbackIsReal /\ RecoveryIndependent
  BY DEF Init, SuccessIsDurable, RollbackIsReal, RecoveryIndependent, NoResult
<1>. QED
  BY <1>3, <1>4, <1>5, <1>6, <1>7 DEF IInv

(* A new execution.                                                        *)
LEMMA StartInv == IInv /\ Start => IInv'
<1> SUFFICES ASSUME IInv, Start PROVE IInv'
  OBVIOUS
<1> USE Basics DEF IInv
<1>1. PICK d \in Offered(stored) :
        job' = [mode |-> "decide", kind |-> d.kind, target |-> d.target, base |-> stored,
                current |-> stored.current, before |-> running, file |-> NoState,
                error |-> "none", spent |-> 0]
  BY DEF Start
<1>2. d.kind \in {"deploy", "rollback"} /\ d.target \in Release
  <2>1. stored.previous # NoRel => stored.previous \in Release
    BY DEF TypeOK, State, NoState
  <2>. QED
    BY <2>1 DEF Offered
<1>3. stored.current \in Release \cup {NoRel}
  BY DEF TypeOK, State, NoState
<1>4. job' \in Job
  <2>1. 0 \in 0..MaxFaults /\ "none" \in Errors
    BY DeploymentAssumption DEF Errors
  <2>. QED
    BY <1>1, <1>2, <1>3, <2>1 DEF Job, TypeOK
<1>5. job' # NoJob
  BY <1>4
<1>6. TypeOK'
  <2>1. faults' \in 0..MaxFaults /\ result' \in [outcome: Outcomes \cup {"none"}, error: Errors]
    BY DeploymentAssumption DEF Start, NoResult, Errors
  <2>. QED
    BY <1>4, <2>1 DEF Start, TypeOK, Job, Steps
<1>7. JobInv'
  BY <1>1, <1>5 DEF JobInv, StateReadable, Recoverable, Start, NoState
<1>8. PhaseInv' /\ StoredInv' /\ RunningInv'
  BY <1>1, <1>5 DEF PhaseInv, StoredInv, RunningInv, Start
<1>9. FoundInv'
  BY <1>1 DEF FoundInv, Start, StateMatchesContainer, NoState
<1>10. RecoveryInv' /\ ResultInv'
  BY <1>1 DEF RecoveryInv, ResultInv, Start, NoResult, Recoverable
<1>11. StateReadable' /\ StateMatchesContainer' /\ SuccessIsDurable' /\ RollbackIsReal' /\ RecoveryIndependent'
  BY DEF Start, StateReadable, StateMatchesContainer, SuccessIsDurable, RollbackIsReal, RecoveryIndependent, Readable, SameImage
<1>. QED
  BY <1>6, <1>7, <1>8, <1>9, <1>10, <1>11

(* A failed command: recovery begins, fails, or was never needed.          *)
LEMMA GiveUpInv ==
  ASSUME IInv, pc # "idle", GiveUp(pc), UNCHANGED <<sick, stored, durable>>,
         faults' \in 0..MaxFaults, faults' >= faults,
         pc = "apply" => running' \in Interrupted,
         pc # "apply" => running' = running,
         job.mode = "restore" =>
           faults' > faults \/ expired \/ ~Healthy(job.current.image)
  PROVE  IInv'
<1> USE Basics DEF IInv
<1>1. job # NoJob /\ result = NoResult
  BY DEF PhaseInv
<1>2. job \in Job /\ job.mode \in {"decide", "adopt", "switch", "restore"}
  BY <1>1 DEF TypeOK, Job
<1>3. running' \in AnyImage
  <2>1. CASE pc = "apply"
    <3>1. job.mode # "decide"
      BY <2>1 DEF PhaseInv
    <3>. QED
      BY <1>1, <2>1, <3>1, FileFacts DEF TypeOK, Interrupted, AnyImage, State
  <2>. QED
    BY <2>1 DEF TypeOK
<1>4. faults \in 0..MaxFaults /\ MaxFaults \in Nat
  BY DeploymentAssumption DEF TypeOK
<1>5. CASE job.mode = "switch" /\ pc \in {"apply", "verify", "rename", "sync"}
  <2>1. PICK e \in Recoverable :
          /\ job' = [job EXCEPT !.mode = "restore", !.file = RestoreFile(job), !.error = e,
                                !.spent = faults']
          /\ pc' = "write" /\ expired' = FALSE /\ UNCHANGED <<result, doubt>>
    BY <1>5 DEF GiveUp, FailedSwitch, Restore, Recoverable
  <2>2. RestoreFile(job) \in State /\ RestoreFile(job).current = job.current
        /\ job.current \in Release
    BY <1>1, <1>5, FileFacts
  <2>3. job' \in Job /\ job' # NoJob
    <3>1. e \in Errors
      BY DEF Recoverable, Errors
    <3>. QED
      BY <1>2, <2>1, <2>2, <3>1 DEF Job
  <2>4. /\ job'.mode = "restore" /\ job'.file = RestoreFile(job) /\ job'.error = e
        /\ job'.spent = faults'
        /\ job'.kind = job.kind /\ job'.target = job.target /\ job'.base = job.base
        /\ job'.current = job.current /\ job'.before = job.before
    BY <1>2, <2>1 DEF Job
  <2>5. RestoreFile(job') = RestoreFile(job) /\ Candidate(job') = Candidate(job)
    BY <2>4 DEF RestoreFile, Candidate
  <2>6. TypeOK'
    BY <1>3, <2>1, <2>3 DEF TypeOK, Job, Steps
  <2>7. JobInv'
    BY <1>1, <1>5, <2>2, <2>4, <2>5 DEF JobInv, Readable, SameImage
  <2>8. PhaseInv' /\ RunningInv'
    BY <1>1, <2>1, <2>3, <2>4 DEF PhaseInv, RunningInv
  <2>9. StoredInv'
    BY <1>1, <1>5, <2>1, <2>4, <2>5 DEF StoredInv, JobInv
  <2>10. FoundInv'
    BY <2>1, <2>4 DEF FoundInv, SameImage
  <2>11. RecoveryInv'
    BY <1>4, <2>1, <2>4 DEF RecoveryInv
  <2>12. ResultInv'
    BY <1>1, <2>1, <2>3 DEF ResultInv, NoResult, Recoverable
  <2>13. StateReadable'
    BY DEF StateReadable, Readable, SameImage
  <2>14. StateMatchesContainer' /\ SuccessIsDurable' /\ RollbackIsReal' /\ RecoveryIndependent'
    BY <2>1 DEF StateMatchesContainer, SuccessIsDurable, RollbackIsReal, RecoveryIndependent
  <2>. QED
    BY <2>6, <2>7, <2>8, <2>9, <2>10, <2>11, <2>12, <2>13, <2>14
<1>6. ASSUME NEW e \in Errors, job' = job, expired' = expired, pc' = "idle",
             result' = [outcome |-> "failed", error |-> e], doubt' \in BOOLEAN,
             e = "rollback_failed" => faults' > job.spent \/ ~Healthy(job.current.image),
             doubt' \/ (stored # NoState => SameImage(running', stored.current.image))
      PROVE  IInv'
  <2>1. TypeOK'
    BY <1>3, <1>6 DEF TypeOK, Outcomes
  <2>2. JobInv'
    BY <1>6 DEF JobInv, Readable, SameImage
  <2>3. PhaseInv' /\ StoredInv' /\ RunningInv' /\ FoundInv' /\ RecoveryInv'
    BY <1>6 DEF PhaseInv, StoredInv, RunningInv, FoundInv, RecoveryInv
  <2>4. ResultInv' /\ SuccessIsDurable' /\ RollbackIsReal'
    BY <1>1, <1>6 DEF ResultInv, SuccessIsDurable, RollbackIsReal
  <2>5. StateReadable' /\ StateMatchesContainer'
    BY <1>6 DEF StateReadable, StateMatchesContainer, Readable, SameImage
  <2>6. RecoveryIndependent'
    BY <1>6 DEF RecoveryIndependent, Healthy
  <2>. QED
    BY <2>1, <2>2, <2>3, <2>4, <2>5, <2>6
<1>7. CASE job.mode = "restore"
  <2>1. /\ job' = job /\ expired' = expired /\ pc' = "idle" /\ doubt' = TRUE
        /\ result' = [outcome |-> "failed", error |-> "rollback_failed"]
    BY <1>7 DEF GiveUp, End
  <2>2. faults' > job.spent \/ ~Healthy(job.current.image)
    <3>1. job.spent \in 0..MaxFaults
      BY <1>2 DEF Job
    <3>2. faults >= job.spent /\ (expired => faults > job.spent)
      BY <1>1, <1>7 DEF RecoveryInv
    <3>. QED
      BY <1>4, <1>7, <3>1, <3>2
  <2>. QED
    BY <1>6, <2>1, <2>2 DEF Errors
<1>8. CASE job.mode # "restore" /\ ~(job.mode = "switch" /\ pc \in {"apply", "verify", "rename", "sync"})
  <2>1. /\ job' = job /\ expired' = expired /\ pc' = "idle" /\ doubt' = doubt
        /\ result' = [outcome |-> "failed", error |-> ErrorOf(pc)]
    BY <1>8 DEF GiveUp, End
  <2>2. ErrorOf(pc) \in Errors /\ ErrorOf(pc) # "rollback_failed"
    <3>1. CASE pc \in {"preflight", "validate"}
      BY <3>1 DEF ErrorOf, Errors
    <3>2. CASE pc \in {"prepare", "discover", "confirm"}
      BY <3>2 DEF ErrorOf, Errors
    <3>3. CASE pc = "write" /\ job.mode = "switch"
      BY <3>3 DEF ErrorOf, Errors
    <3>4. CASE ~(pc = "write" /\ job.mode = "switch") /\ pc \in {"write", "apply", "verify", "rename", "sync"}
      BY <3>4 DEF ErrorOf, Errors
    <3>. QED
      BY <3>1, <3>2, <3>3, <3>4 DEF TypeOK, Steps
  <2>3. running' = job.before
    <3>1. pc # "apply" /\ running' = running
      BY <1>8 DEF PhaseInv
    <3>. QED
      BY <1>2, <1>8, <3>1 DEF RunningInv, PhaseInv, TypeOK, Steps
  <2>4. ~doubt /\ stored # NoState => SameImage(running', stored.current.image)
    <3>1. CASE pc = "sync"
      <4>1. job.mode = "adopt" /\ stored = Adopted(job) /\ job.current \in Release
        BY <1>1, <1>2, <1>8, <3>1 DEF PhaseInv, StoredInv, JobInv
      <4>2. SameImage(job.current.image, job.target.image)
        BY <1>1, <4>1 DEF JobInv
      <4>3. ~doubt => SameImage(job.before, job.current.image)
        BY <4>1 DEF FoundInv
      <4>. QED
        BY <2>3, <4>1, <4>2, <4>3 DEF SameImage, Adopted
    <3>2. CASE pc # "sync"
      <4>1. stored = job.base
        BY <1>8, <3>2 DEF StoredInv
      <4>2. stored # NoState => job.base.current # NoRel /\ job.current = job.base.current
        BY <1>1, <4>1 DEF TypeOK, State, JobInv
      <4>. QED
        BY <2>3, <4>1, <4>2 DEF FoundInv
    <3>. QED
      BY <3>1, <3>2
  <2>5. doubt' \in BOOLEAN
    BY <2>1 DEF TypeOK
  <2>. QED
    BY <1>6, <2>1, <2>2, <2>4, <2>5
<1>. QED
  BY <1>5, <1>7, <1>8

(* A command that succeeded without changing job, host or state file.      *)
LEMMA GoOnInv ==
  ASSUME IInv, NEW next \in Steps, pc # "idle", pc' = next, next # "sync", pc # "sync",
         UNCHANGED <<running, sick, stored, durable, job, expired, faults, result, doubt>>,
         PhaseInv', RunningInv'
  PROVE  IInv'
<1> USE DEF IInv
<1>1. TypeOK'
  BY DEF TypeOK
<1>2. JobInv'
  BY DEF JobInv, Readable, SameImage
<1>3. StoredInv' /\ FoundInv' /\ RecoveryInv' /\ ResultInv'
  BY DEF StoredInv, FoundInv, RecoveryInv, ResultInv, SameImage, Steps
<1>4. /\ StateReadable' /\ StateMatchesContainer' /\ SuccessIsDurable' /\ RollbackIsReal'
      /\ RecoveryIndependent'
  BY DEF StateReadable, Readable, SameImage, StateMatchesContainer, SuccessIsDurable, RollbackIsReal, RecoveryIndependent, Steps
<1>. QED
  BY <1>1, <1>2, <1>3, <1>4

(* The checks before the image is prepared.                                *)
LEMMA PreflightInv == IInv /\ Preflight => IInv'
<1> SUFFICES ASSUME IInv, Preflight PROVE IInv'
  OBVIOUS
<1>1. CASE Works(TRUE) /\ GoOn("prepare")
  <2>1. PhaseInv' /\ RunningInv'
    BY <1>1 DEF IInv, Preflight, Works, GoOn, PhaseInv, RunningInv
  <2>. QED
    BY <1>1, <2>1, GoOnInv DEF IInv, Preflight, Works, GoOn, Steps, TypeOK
<1>2. CASE Breaks(TRUE) /\ GiveUp("preflight")
  <2>1. job.mode # "restore"
    BY DEF IInv, PhaseInv, Preflight
  <2>. QED
    BY <1>2, <2>1, GiveUpInv, DeploymentAssumption DEF IInv, TypeOK, Preflight, Breaks
<1>. QED
  BY <1>1, <1>2 DEF Preflight

(* The decision what to do with the target.                                *)
LEMMA DecideInv ==
  ASSUME IInv, NEW current \in Release, Decide(current), job.mode = "decide",
         pc \in {"prepare", "discover"},
         job.base.current # NoRel => current = job.base.current,
         job.base.current = NoRel => current.id = External,
         ~doubt => SameImage(running, current.image),
         UNCHANGED <<running, sick, stored, durable, expired, faults, result, doubt>>
  PROVE  IInv'
<1> USE Basics DEF IInv
<1>1. job \in Job /\ job # NoJob /\ result = NoResult
  BY DEF PhaseInv, TypeOK, Job
<1>2. PICK mode \in {"adopt", "switch"} :
        /\ job' = [job EXCEPT !.mode = mode, !.current = current,
                     !.file = [current |-> job.target,
                               previous |-> IF mode = "adopt" THEN NoRel ELSE current]]
        /\ pc' = IF mode = "adopt" THEN "confirm" ELSE "write"
        /\ (mode = "adopt") <=> SameImage(current.image, job.target.image)
  BY DEF Decide
<1>3. /\ job'.mode = mode /\ job'.current = current
      /\ job'.file = [current |-> job.target, previous |-> IF mode = "adopt" THEN NoRel ELSE current]
      /\ job'.kind = job.kind /\ job'.target = job.target /\ job'.base = job.base
      /\ job'.before = job.before /\ job'.error = job.error /\ job'.spent = job.spent
  BY <1>1, <1>2 DEF Job
<1>4. job' \in Job /\ job' # NoJob
  <2>1. job'.file \in State
    BY <1>1, <1>3 DEF Job, State
  <2>. QED
    BY <1>1, <1>2, <1>3, <2>1 DEF Job
<1>5. TypeOK'
  BY <1>2, <1>4 DEF TypeOK, Job, Steps
<1>6. JobInv'
  BY <1>1, <1>2, <1>3, <1>4 DEF JobInv, Adopted, Candidate, Readable, SameImage
<1>7. PhaseInv'
  BY <1>1, <1>2, <1>3, <1>4 DEF PhaseInv
<1>8. StoredInv' /\ RunningInv'
  BY <1>1, <1>2, <1>3 DEF StoredInv, RunningInv
<1>9. FoundInv'
  BY <1>3 DEF FoundInv, RunningInv, SameImage
<1>10. RecoveryInv' /\ ResultInv'
  BY <1>1, <1>2, <1>3, <1>4 DEF RecoveryInv, ResultInv, NoResult
<1>11. /\ StateReadable' /\ StateMatchesContainer' /\ SuccessIsDurable' /\ RollbackIsReal'
       /\ RecoveryIndependent'
  BY <1>2 DEF StateReadable, Readable, SameImage, StateMatchesContainer, SuccessIsDurable, RollbackIsReal, RecoveryIndependent
<1>. QED
  BY <1>5, <1>6, <1>7, <1>8, <1>9, <1>10, <1>11

(* The image is prepared, and the current release known or to be found.    *)
LEMMA PrepareInv == IInv /\ PrepareImage => IInv'
<1> SUFFICES ASSUME IInv, PrepareImage PROVE IInv'
  OBVIOUS
<1> USE Basics
<1>1. /\ pc = "prepare" /\ job # NoJob /\ job.mode = "decide" /\ job.current = job.base.current
      /\ running = job.before
  BY DEF IInv, PhaseInv, PrepareImage, RunningInv
<1>2. CASE Works(TRUE) /\ job.current = NoRel /\ pc' = "discover" /\ UNCHANGED <<job, expired, result, doubt>>
  <2>1. pc' = "discover" /\ UNCHANGED <<running, sick, stored, durable, job, expired, faults, result, doubt>>
    BY <1>2 DEF PrepareImage, Works
  <2>2. PhaseInv' /\ RunningInv'
    BY <1>1, <1>2, <2>1 DEF IInv, PhaseInv, RunningInv
  <2>. QED
    BY <1>1, <2>1, <2>2, GoOnInv DEF IInv, TypeOK, Steps
<1>3. CASE Works(TRUE) /\ job.current # NoRel /\ Decide(job.current) /\ UNCHANGED <<expired, result, doubt>>
  <2>1. job.current \in Release
    BY <1>1, <1>3 DEF IInv, TypeOK
  <2>2. ~doubt => SameImage(running, job.current.image)
    BY <1>1, <1>3 DEF IInv, FoundInv
  <2>3. UNCHANGED <<running, sick, stored, durable, expired, faults, result, doubt>>
    BY <1>3 DEF PrepareImage, Works
  <2>. QED
    BY <1>1, <1>3, <2>1, <2>2, <2>3, DecideInv
<1>4. CASE Breaks(TRUE) /\ GiveUp("prepare")
  BY <1>1, <1>4, GiveUpInv, DeploymentAssumption DEF IInv, TypeOK, PrepareImage, Breaks
<1>. QED
  BY <1>2, <1>3, <1>4 DEF PrepareImage

(* The running container tells the current release.                        *)
LEMMA DiscoverInv == IInv /\ DiscoverCurrent => IInv'
<1> SUFFICES ASSUME IInv, DiscoverCurrent PROVE IInv'
  OBVIOUS
<1> USE Basics
<1>1. /\ pc = "discover" /\ job # NoJob /\ job.mode = "decide" /\ job.base.current = NoRel
  BY DEF IInv, PhaseInv, DiscoverCurrent
<1>2. CASE /\ Works(TRUE)
           /\ \E i \in Images : SameImage(running, i) /\ Decide([id |-> External, image |-> i])
           /\ UNCHANGED <<expired, result, doubt>>
  <2>1. PICK i \in Images : SameImage(running, i) /\ Decide([id |-> External, image |-> i])
    BY <1>2
  <2>2. [id |-> External, image |-> i] \in Release
    BY DEF Release
  <2>3. UNCHANGED <<running, sick, stored, durable, expired, faults, result, doubt>>
    BY <1>2 DEF DiscoverCurrent, Works
  <2>. QED
    BY <1>1, <2>1, <2>2, <2>3, DecideInv
<1>3. CASE /\ Breaks(TRUE) \/ (running \notin Images /\ Works(TRUE))
           /\ GiveUp("discover")
  BY <1>1, <1>3, GiveUpInv, DeploymentAssumption DEF IInv, TypeOK, DiscoverCurrent, Breaks, Works
<1>. QED
  BY <1>2, <1>3 DEF DiscoverCurrent

(* The health of the container an adopted release is expected to be in.    *)
LEMMA ConfirmInv == IInv /\ ConfirmHealth => IInv'
<1> SUFFICES ASSUME IInv, ConfirmHealth PROVE IInv'
  OBVIOUS
<1>1. pc = "confirm" /\ job # NoJob /\ job.mode = "adopt"
  BY DEF IInv, PhaseInv, ConfirmHealth
<1>2. CASE Works(TRUE) /\ Healthy(running) /\ GoOn("write")
  <2>1. PhaseInv' /\ RunningInv'
    BY <1>1, <1>2 DEF IInv, ConfirmHealth, Works, GoOn, PhaseInv, RunningInv
  <2>. QED
    BY <1>1, <1>2, <2>1, GoOnInv DEF IInv, ConfirmHealth, Works, GoOn, Steps, TypeOK
<1>3. CASE /\ Breaks(TRUE) \/ (~Healthy(running) /\ Works(TRUE))
           /\ GiveUp("confirm")
  BY <1>1, <1>3, GiveUpInv, DeploymentAssumption DEF IInv, TypeOK, ConfirmHealth, Breaks, Works
<1>. QED
  BY <1>2, <1>3 DEF ConfirmHealth

(* The candidate file.                                                     *)
LEMMA WriteInv == IInv /\ WriteCandidate => IInv'
<1> SUFFICES ASSUME IInv, WriteCandidate PROVE IInv'
  OBVIOUS
<1>1. pc = "write" /\ job # NoJob /\ job.mode \in {"adopt", "switch", "restore"}
  BY DEF IInv, PhaseInv, WriteCandidate
<1>2. CASE Works(FALSE) /\ GoOn(IF job.mode = "adopt" THEN "rename" ELSE "validate")
  <2>1. PhaseInv' /\ RunningInv'
    BY <1>1, <1>2 DEF IInv, WriteCandidate, Works, GoOn, PhaseInv, RunningInv
  <2>. QED
    BY <1>1, <1>2, <2>1, GoOnInv DEF IInv, WriteCandidate, Works, GoOn, Steps, TypeOK
<1>3. CASE Breaks(FALSE) /\ GiveUp("write")
  BY <1>1, <1>3, GiveUpInv, DeploymentAssumption DEF IInv, TypeOK, WriteCandidate, Breaks
<1>. QED
  BY <1>2, <1>3 DEF WriteCandidate

(* The validation of the candidate by Compose.                             *)
LEMMA ValidateInv == IInv /\ ValidateCandidate => IInv'
<1> SUFFICES ASSUME IInv, ValidateCandidate PROVE IInv'
  OBVIOUS
<1>1. pc = "validate" /\ job # NoJob /\ job.mode \in {"switch", "restore"}
  BY DEF IInv, PhaseInv, ValidateCandidate
<1>2. CASE Works(TRUE) /\ GoOn("apply")
  <2>1. PhaseInv' /\ RunningInv'
    BY <1>1, <1>2 DEF IInv, ValidateCandidate, Works, GoOn, PhaseInv, RunningInv
  <2>. QED
    BY <1>1, <1>2, <2>1, GoOnInv DEF IInv, ValidateCandidate, Works, GoOn, Steps, TypeOK
<1>3. CASE Breaks(TRUE) /\ GiveUp("validate")
  BY <1>1, <1>3, GiveUpInv, DeploymentAssumption DEF IInv, TypeOK, ValidateCandidate, Breaks
<1>. QED
  BY <1>2, <1>3 DEF ValidateCandidate

(* The Compose update.                                                     *)
LEMMA ApplyInv == IInv /\ ApplyOverride => IInv'
<1> SUFFICES ASSUME IInv, ApplyOverride PROVE IInv'
  OBVIOUS
<1> USE Basics
<1>1. pc = "apply" /\ job # NoJob /\ job.mode \in {"switch", "restore"}
  BY DEF IInv, PhaseInv, ApplyOverride
<1>2. CASE Works(TRUE) /\ GoOn("verify") /\ running' = job.file.current.image
  <2>1. /\ pc' = "verify" /\ running' = job.file.current.image
        /\ UNCHANGED <<sick, stored, durable, job, expired, faults, result, doubt>>
    BY <1>2 DEF ApplyOverride, Works, GoOn
  <2>2. running' \in AnyImage
    BY <1>1, <2>1, FileFacts DEF IInv, State, AnyImage
  <2>3. TypeOK'
    BY <2>1, <2>2 DEF IInv, TypeOK, Steps
  <2>4. JobInv'
    BY <2>1 DEF IInv, JobInv, Readable, SameImage
  <2>5. PhaseInv' /\ StoredInv' /\ RunningInv' /\ FoundInv' /\ RecoveryInv' /\ ResultInv'
    BY <1>1, <2>1 DEF IInv, PhaseInv, StoredInv, RunningInv, FoundInv, RecoveryInv, ResultInv, SameImage
  <2>6. /\ StateReadable' /\ StateMatchesContainer' /\ SuccessIsDurable' /\ RollbackIsReal'
        /\ RecoveryIndependent'
    BY <2>1 DEF IInv, StateReadable, Readable, SameImage, StateMatchesContainer, SuccessIsDurable, RollbackIsReal, RecoveryIndependent
  <2>. QED
    BY <2>3, <2>4, <2>5, <2>6 DEF IInv
<1>3. CASE Breaks(TRUE) /\ GiveUp("apply") /\ running' \in Interrupted
  BY <1>1, <1>3, GiveUpInv, DeploymentAssumption DEF IInv, TypeOK, ApplyOverride, Breaks
<1>. QED
  BY <1>2, <1>3 DEF ApplyOverride

(* The health verification of the applied image.                           *)
LEMMA VerifyInv == IInv /\ VerifyHealth => IInv'
<1> SUFFICES ASSUME IInv, VerifyHealth PROVE IInv'
  OBVIOUS
<1> USE Basics
<1>1. /\ pc = "verify" /\ job # NoJob /\ job.mode \in {"switch", "restore"}
      /\ running = job.file.current.image
  BY DEF IInv, PhaseInv, RunningInv, VerifyHealth
<1>2. CASE Works(TRUE) /\ Healthy(running) /\ GoOn("rename")
  <2>1. PhaseInv' /\ RunningInv'
    BY <1>1, <1>2 DEF IInv, VerifyHealth, Works, GoOn, PhaseInv, RunningInv, Healthy
  <2>. QED
    BY <1>1, <1>2, <2>1, GoOnInv DEF VerifyHealth, Works, GoOn, Steps
<1>3. CASE /\ Breaks(TRUE) \/ (~Healthy(running) /\ Works(TRUE))
           /\ GiveUp("verify")
  <2>1. job.mode = "restore" => job.file.current = job.current
    BY <1>1, FileFacts DEF IInv
  <2>2. job.mode = "restore" => faults' > faults \/ expired \/ ~Healthy(job.current.image)
    <3>1. CASE Breaks(TRUE)
      <4>1. faults \in Int
        BY DeploymentAssumption DEF IInv, TypeOK
      <4>. QED
        BY <3>1, <4>1 DEF Breaks
    <3>2. CASE ~Healthy(running)
      BY <1>1, <2>1, <3>2 DEF Healthy
    <3>. QED
      BY <1>3, <3>1, <3>2
  <2>. QED
    BY <1>1, <1>3, <2>2, GiveUpInv, DeploymentAssumption DEF IInv, TypeOK, VerifyHealth, Breaks, Works
<1>. QED
  BY <1>2, <1>3 DEF VerifyHealth

(* The rename that readers of the state file see.                          *)
LEMMA RenameInv == IInv /\ RenameState => IInv'
<1> SUFFICES ASSUME IInv, RenameState PROVE IInv'
  OBVIOUS
<1> USE Basics
<1>1. pc = "rename" /\ job # NoJob /\ job.mode \in {"adopt", "switch", "restore"}
  BY DEF IInv, PhaseInv, RenameState
<1>2. CASE Works(FALSE) /\ GoOn("sync") /\ stored' = job.file
  <2>1. /\ pc' = "sync" /\ stored' = job.file
        /\ UNCHANGED <<running, sick, durable, job, expired, faults, result, doubt>>
    BY <1>2 DEF RenameState, Works, GoOn
  <2>2. job.file \in State /\ Readable(job.file)
    BY <1>1, FileFacts DEF IInv
  <2>3. TypeOK'
    BY <2>1, <2>2 DEF IInv, TypeOK, Steps
  <2>4. JobInv'
    BY <2>1 DEF IInv, JobInv, Readable, SameImage
  <2>5. PhaseInv' /\ StoredInv' /\ RunningInv' /\ FoundInv' /\ RecoveryInv' /\ ResultInv'
    BY <1>1, <2>1 DEF IInv, PhaseInv, StoredInv, RunningInv, FoundInv, RecoveryInv, ResultInv, SameImage, Healthy
  <2>6. StateReadable'
    BY <2>1, <2>2 DEF IInv, StateReadable, Readable, SameImage
  <2>7. StateMatchesContainer' /\ SuccessIsDurable' /\ RollbackIsReal' /\ RecoveryIndependent'
    BY <2>1 DEF IInv, StateMatchesContainer, SuccessIsDurable, RollbackIsReal, RecoveryIndependent
  <2>. QED
    BY <2>3, <2>4, <2>5, <2>6, <2>7 DEF IInv
<1>3. CASE Breaks(FALSE) /\ GiveUp("rename") /\ UNCHANGED stored
  BY <1>1, <1>3, GiveUpInv, DeploymentAssumption DEF IInv, TypeOK, RenameState, Breaks
<1>. QED
  BY <1>2, <1>3 DEF RenameState

(* The directory sync that makes the commit durable and ends the job.      *)
LEMMA SyncInv == IInv /\ SyncDirectory => IInv'
<1> SUFFICES ASSUME IInv, SyncDirectory PROVE IInv'
  OBVIOUS
<1> USE Basics
<1>1. /\ pc = "sync" /\ job # NoJob /\ job.mode \in {"adopt", "switch", "restore"}
      /\ stored = job.file
  BY DEF IInv, PhaseInv, StoredInv, SyncDirectory
<1>2. CASE /\ Works(FALSE)
           /\ durable' = stored
           /\ IF job.mode = "restore" THEN End("rolled_back", job.error) ELSE End("succeeded", "none")
           /\ doubt' = (doubt /\ job.mode = "adopt")
           /\ UNCHANGED <<job, expired>>
  <2>1. /\ pc' = "idle" /\ durable' = stored
        /\ doubt' = (doubt /\ job.mode = "adopt")
        /\ UNCHANGED <<running, sick, stored, job, expired, faults>>
    BY <1>2 DEF SyncDirectory, Works, End
  <2>2. result' = IF job.mode = "restore" THEN [outcome |-> "rolled_back", error |-> job.error]
                  ELSE [outcome |-> "succeeded", error |-> "none"]
    BY <1>2 DEF End
  <2>3. /\ job \in Job /\ job.file \in State /\ job.current \in Release /\ job.target \in Release
        /\ Readable(job.file)
        /\ job.mode = "restore" => job.file.current = job.current
        /\ job.mode # "restore" => job.file.current = job.target
    BY <1>1, FileFacts DEF IInv
  <2>4. job.error \in Recoverable
    BY <1>1 DEF IInv, JobInv
  <2>5. TypeOK'
    <3>1. result' \in [outcome: Outcomes \cup {"none"}, error: Errors]
      BY <2>2, <2>4 DEF Recoverable, Errors, Outcomes
    <3>. QED
      BY <2>1, <3>1 DEF IInv, TypeOK
  <2>6. JobInv'
    BY <2>1 DEF IInv, JobInv, Readable, SameImage
  <2>7. PhaseInv' /\ StoredInv' /\ RunningInv' /\ FoundInv' /\ RecoveryInv'
    BY <2>1 DEF PhaseInv, StoredInv, RunningInv, FoundInv, RecoveryInv
  <2>8. ResultInv'
    BY <1>1, <2>1, <2>2, <2>4 DEF ResultInv
  <2>9. StateReadable'
    BY <1>1, <2>1, <2>3 DEF StateReadable, Readable, SameImage
  <2>10. StateMatchesContainer'
    <3>1. CASE job.mode = "adopt"
      <4>1. ~doubt => SameImage(job.before, job.current.image)
        BY <1>1, <2>3 DEF IInv, FoundInv
      <4>2. running = job.before /\ SameImage(job.current.image, job.target.image)
        BY <1>1, <3>1 DEF IInv, RunningInv, JobInv
      <4>. QED
        BY <1>1, <2>1, <2>3, <3>1, <4>1, <4>2 DEF StateMatchesContainer, SameImage
    <3>2. CASE job.mode # "adopt"
      <4>1. running = job.file.current.image
        BY <1>1, <3>2 DEF IInv, RunningInv
      <4>2. job.file.current \in Release
        BY <2>3 DEF State
      <4>. QED
        BY <1>1, <2>1, <4>1, <4>2 DEF StateMatchesContainer, SameImage
    <3>. QED
      BY <3>1, <3>2
  <2>11. SuccessIsDurable'
    <3>1. job.mode = "switch" => running = job.target.image /\ Healthy(running)
                                 /\ job.file.previous = job.current
      BY <1>1, <2>3 DEF IInv, RunningInv, JobInv, Candidate
    <3>. QED
      BY <1>1, <2>1, <2>2, <2>3, <3>1 DEF SuccessIsDurable, Healthy
  <2>12. RollbackIsReal'
    <3>1. job.mode = "restore" => running = job.current.image /\ Healthy(running)
                                  /\ job.file = RestoreFile(job)
      BY <1>1, <2>3 DEF IInv, RunningInv, JobInv
    <3>. QED
      BY <1>1, <2>1, <2>2, <3>1 DEF RollbackIsReal, Healthy, RestoreFile
  <2>13. RecoveryIndependent'
    BY <2>2, <2>4 DEF RecoveryIndependent, Recoverable
  <2>. QED
    BY <2>5, <2>6, <2>7, <2>8, <2>9, <2>10, <2>11, <2>12, <2>13 DEF IInv
<1>3. CASE Breaks(FALSE) /\ GiveUp("sync") /\ UNCHANGED durable
  BY <1>1, <1>3, GiveUpInv, DeploymentAssumption DEF IInv, TypeOK, SyncDirectory, Breaks
<1>. QED
  BY <1>2, <1>3 DEF SyncDirectory

(* A passing deadline.                                                     *)
LEMMA ExpireInv == IInv /\ Expire => IInv'
<1> SUFFICES ASSUME IInv, Expire PROVE IInv'
  OBVIOUS
<1>1. /\ pc # "idle" /\ expired' = TRUE /\ faults' = faults + 1 /\ faults < MaxFaults
      /\ UNCHANGED <<running, sick, stored, durable, pc, job, result, doubt>>
  BY DEF Expire
<1>2. faults' \in 0..MaxFaults /\ faults \in Nat
  BY <1>1, DeploymentAssumption DEF IInv, TypeOK
<1>3. TypeOK'
  BY <1>1, <1>2 DEF IInv, TypeOK
<1>4. JobInv' /\ PhaseInv' /\ StoredInv' /\ RunningInv' /\ FoundInv' /\ ResultInv'
  BY <1>1 DEF IInv, JobInv, PhaseInv, StoredInv, RunningInv, FoundInv, ResultInv, Readable, SameImage, Healthy
<1>5. RecoveryInv'
  <2>1. job # NoJob => job.spent \in 0..MaxFaults
    BY DEF IInv, TypeOK
  <2>. QED
    BY <1>1, <1>2, <2>1, DeploymentAssumption DEF IInv, RecoveryInv
<1>6. /\ StateReadable' /\ StateMatchesContainer' /\ SuccessIsDurable' /\ RollbackIsReal'
      /\ RecoveryIndependent'
  BY <1>1 DEF IInv, StateReadable, Readable, SameImage, StateMatchesContainer, SuccessIsDurable, RollbackIsReal, RecoveryIndependent
<1>. QED
  BY <1>3, <1>4, <1>5, <1>6 DEF IInv

(* A killed helper and a power loss, at any command or between two.        *)
LEMMA DeathInv == IInv /\ (HelperKilled \/ PowerLoss) => IInv'
<1> SUFFICES ASSUME IInv, HelperKilled \/ PowerLoss PROVE IInv'
  OBVIOUS
<1> USE Basics
<1>1. /\ UNCHANGED <<sick, job, expired, faults>>
      /\ IF pc = "idle" THEN UNCHANGED <<pc, result>> ELSE End("failed", "died")
      /\ IF pc = "apply" THEN running' \in Interrupted ELSE UNCHANGED running
  BY DEF HelperKilled, PowerLoss, Dies
<1>2. /\ stored' \in {stored, durable} /\ durable' \in {durable, stored'}
      /\ durable = stored => durable' = stored'
  BY DEF HelperKilled, PowerLoss
<1>3. \/ doubt' = TRUE
      \/ doubt' = doubt /\ ~Unfinished /\ stored' = stored
  BY DEF HelperKilled, PowerLoss, Dies, IInv, TypeOK
<1>4. pc' = "idle"
  BY <1>1 DEF End
<1>5. \/ result' = result /\ pc = "idle"
      \/ result' = [outcome |-> "failed", error |-> "died"]
  BY <1>1 DEF End
<1>6. running' \in AnyImage
  <2>1. CASE pc = "apply"
    <3>1. job # NoJob /\ job.mode # "decide"
      BY <2>1 DEF IInv, PhaseInv
    <3>. QED
      BY <1>1, <2>1, <3>1, FileFacts DEF IInv, TypeOK, Interrupted, AnyImage, State
  <2>. QED
    BY <1>1, <2>1 DEF IInv, TypeOK
<1>7. TypeOK'
  <2>1. result' \in [outcome: Outcomes \cup {"none"}, error: Errors]
    BY <1>5 DEF IInv, TypeOK, Outcomes, Errors
  <2>2. stored' \in State \cup {NoState} /\ durable' \in State \cup {NoState}
    BY <1>2 DEF IInv, TypeOK
  <2>3. doubt' \in BOOLEAN
    BY <1>3 DEF IInv, TypeOK
  <2>. QED
    BY <1>1, <1>4, <1>6, <2>1, <2>2, <2>3 DEF IInv, TypeOK
<1>8. JobInv'
  BY <1>1 DEF IInv, JobInv, Readable, SameImage
<1>9. PhaseInv' /\ StoredInv' /\ RunningInv' /\ FoundInv' /\ RecoveryInv'
  BY <1>4 DEF PhaseInv, StoredInv, RunningInv, FoundInv, RecoveryInv
<1>10. ResultInv'
  BY <1>1, <1>5 DEF IInv, ResultInv, PhaseInv
<1>11. StateReadable'
  BY <1>2 DEF IInv, StateReadable, Readable, SameImage
<1>12. SuccessIsDurable' /\ RollbackIsReal' /\ RecoveryIndependent'
  BY <1>1, <1>2, <1>5 DEF IInv, SuccessIsDurable, RollbackIsReal, RecoveryIndependent, Healthy, RestoreFile
<1>13. StateMatchesContainer'
  <2>1. SUFFICES ASSUME ~doubt, ~Unfinished, stored' = stored, stored # NoState
                 PROVE  SameImage(running', stored.current.image)
    BY <1>3 DEF StateMatchesContainer, SameImage
  <2>2. CASE pc = "idle"
    BY <1>1, <2>1, <2>2 DEF IInv, StateMatchesContainer
  <2>3. CASE pc # "idle" /\ job.mode \in {"switch", "restore"} /\ pc = "sync"
    <3>1. running' = job.file.current.image /\ stored = job.file
      BY <1>1, <2>3 DEF IInv, RunningInv, StoredInv
    <3>2. job.file.current \in Release
      BY <2>3, FileFacts DEF IInv, PhaseInv, State
    <3>. QED
      BY <3>1, <3>2
  <2>4. CASE pc # "idle" /\ job.mode = "adopt" /\ pc = "sync"
    <3>1. running' = job.before /\ stored = Adopted(job) /\ job.current # NoRel
          /\ SameImage(job.current.image, job.target.image)
      BY <1>1, <2>4 DEF IInv, RunningInv, StoredInv, JobInv, PhaseInv
    <3>. QED
      BY <2>1, <2>4, <3>1 DEF IInv, FoundInv, SameImage, Adopted
  <2>5. CASE pc \notin {"idle", "sync"}
    <3>1. job # NoJob /\ job.mode # "restore" /\ pc # "apply"
      BY <2>1, <2>5 DEF IInv, TypeOK, PhaseInv, Unfinished, Steps
    <3>2. running' = job.before /\ stored = job.base
      BY <1>1, <2>1, <2>5, <3>1 DEF IInv, RunningInv, StoredInv, TypeOK, PhaseInv, Unfinished, Steps
    <3>3. job.base.current # NoRel /\ job.current = job.base.current
      BY <2>1, <3>1, <3>2 DEF IInv, TypeOK, State, JobInv
    <3>. QED
      BY <2>1, <2>5, <3>2, <3>3 DEF IInv, FoundInv
  <2>. QED
    BY <2>2, <2>3, <2>4, <2>5 DEF IInv, PhaseInv
<1>. QED
  BY <1>7, <1>8, <1>9, <1>10, <1>11, <1>12, <1>13 DEF IInv
-----------------------------------------------------------------------------
(* The inductive invariant holds in every execution, whatever fails, dies  *)
(* or loses power and in whatever order.                                   *)
THEOREM Inductive == Spec => []IInv
<1>1. IInv /\ [Next]_vars => IInv'
  <2> SUFFICES ASSUME IInv, [Next]_vars PROVE IInv'
    OBVIOUS
  <2>1. CASE UNCHANGED vars
    BY <2>1 DEF IInv, vars, TypeOK, JobInv, PhaseInv, StoredInv, RunningInv, FoundInv, RecoveryInv,
                ResultInv, StateReadable, StateMatchesContainer, SuccessIsDurable, RollbackIsReal,
                RecoveryIndependent, Readable, SameImage, Healthy, RestoreFile
  <2>. QED
    BY <2>1, StartInv, PreflightInv, PrepareInv, DiscoverInv, ConfirmInv, WriteInv, ValidateInv,
       ApplyInv, VerifyInv, RenameInv, SyncInv, ExpireInv, DeathInv DEF Next, Step
<1>. QED
  BY InitInv, <1>1, PTL DEF Spec

(* Every variable keeps its type.                                          *)
THEOREM TypeCorrect == Spec => []TypeOK
BY Inductive, PTL DEF IInv

(* The state file can always be read again (StateReadable).                *)
THEOREM FilesReadable == Spec => []StateReadable
BY Inductive, PTL DEF IInv

(* Without doubt the container runs what the state file names, for every   *)
(* number and order of executions (StateMatchesContainer).                 *)
THEOREM FilesTrue == Spec => []StateMatchesContainer
BY Inductive, PTL DEF IInv

(* A reported success is durable and a switched target healthy             *)
(* (SuccessIsDurable).                                                     *)
THEOREM SuccessesDurable == Spec => []SuccessIsDurable
BY Inductive, PTL DEF IInv

(* A reported rollback restored and verified the former image              *)
(* (RollbackIsReal).                                                       *)
THEOREM RollbacksReal == Spec => []RollbackIsReal
BY Inductive, PTL DEF IInv

(* An expired candidate deadline never makes the recovery fail             *)
(* (RecoveryIndependent).                                                  *)
THEOREM RecoveriesIndependent == Spec => []RecoveryIndependent
BY Inductive, PTL DEF IInv
-----------------------------------------------------------------------------
(* What a failed command may lead to, as far as its reporter can tell.     *)
LEMMA GiveUpShape ==
  ASSUME IInv, pc # "idle", GiveUp(pc)
  PROVE  \/ pc' = "write" /\ job'.base = job.base /\ result' = result
         \/ /\ pc' = "idle" /\ job' = job /\ result'.outcome = "failed"
            /\ job.mode = "restore" => result'.error = "rollback_failed"
            /\ job.mode # "restore" => pc # "apply"
            /\ job.mode = "switch" => pc \notin {"apply", "verify", "rename", "sync"}
            /\ job.mode = "adopt" /\ pc = "sync" => result'.error = "state_commit_failed"
<1>1. job \in Job /\ job # NoJob
  BY DEF IInv, PhaseInv, TypeOK, Job
<1>2. CASE job.mode = "switch" /\ pc \in {"apply", "verify", "rename", "sync"}
  <2>1. PICK e \in Recoverable :
          /\ job' = [job EXCEPT !.mode = "restore", !.file = RestoreFile(job), !.error = e,
                                !.spent = faults']
          /\ pc' = "write" /\ UNCHANGED result
    BY <1>2 DEF GiveUp, FailedSwitch, Restore, Recoverable
  <2>. QED
    BY <1>1, <2>1 DEF Job
<1>3. CASE ~(job.mode = "switch" /\ pc \in {"apply", "verify", "rename", "sync"})
  BY <1>1, <1>3 DEF GiveUp, End, ErrorOf, IInv, PhaseInv, Job
<1>. QED
  BY <1>2, <1>3

(* Every command fails, succeeds without an end, or completes the commit.  *)
LEMMA StepShape ==
  ASSUME IInv, Step
  PROVE  /\ pc # "idle"
         /\ \/ /\ GiveUp(pc) /\ UNCHANGED <<stored, durable>>
               /\ pc # "apply" => running' = running
            \/ pc' # "idle" /\ job'.base = job.base /\ UNCHANGED <<durable, result>>
            \/ /\ pc = "sync" /\ pc' = "idle" /\ UNCHANGED <<stored, job>> /\ durable' = stored
               /\ result'.outcome = IF job.mode = "restore" THEN "rolled_back" ELSE "succeeded"
<1>1. ASSUME NEW current, Decide(current), pc # "idle"
      PROVE  pc' # "idle" /\ job'.base = job.base
  <2>1. job \in Job
    BY <1>1 DEF IInv, PhaseInv, TypeOK, Job
  <2>. QED
    BY <1>1, <2>1 DEF Decide, Job
<1>2. CASE Preflight
  BY <1>2 DEF Preflight, GoOn
<1>3. CASE PrepareImage
  BY <1>1, <1>3 DEF PrepareImage
<1>4. CASE DiscoverCurrent
  BY <1>1, <1>4 DEF DiscoverCurrent
<1>5. CASE ConfirmHealth \/ WriteCandidate \/ ValidateCandidate
  BY <1>5 DEF ConfirmHealth, WriteCandidate, ValidateCandidate, GoOn
<1>6. CASE ApplyOverride \/ VerifyHealth \/ RenameState
  BY <1>6 DEF ApplyOverride, VerifyHealth, RenameState, GoOn
<1>7. CASE SyncDirectory
  <2>1. pc = "sync" /\ stored' = stored /\ running' = running
    BY <1>7 DEF SyncDirectory
  <2>2. CASE /\ durable' = stored /\ UNCHANGED <<job, expired>>
             /\ IF job.mode = "restore" THEN End("rolled_back", job.error) ELSE End("succeeded", "none")
    BY <2>1, <2>2 DEF End
  <2>3. CASE GiveUp("sync") /\ UNCHANGED durable
    BY <2>1, <2>3
  <2>. QED
    BY <1>7, <2>2, <2>3 DEF SyncDirectory
<1>. QED
  BY <1>2, <1>3, <1>4, <1>5, <1>6, <1>7 DEF Step

(* A failure without recovery left container and state file alone.         *)
THEOREM FailuresLeaveService == Spec => FailureLeavesService
<1> DEFINE Leaves ==
      pc # "idle" /\ pc' = "idle" /\ result'.outcome = "failed"
      /\ result'.error \notin {"rollback_failed", "died"} =>
        /\ running' = job'.before
        /\ stored' = job'.base \/ (job'.mode = "adopt" /\ result'.error = "state_commit_failed")
<1>1. ASSUME IInv, [Next]_vars, pc # "idle", pc' = "idle", result'.outcome = "failed",
             result'.error \notin {"rollback_failed", "died"}
      PROVE  /\ running' = job'.before
             /\ stored' = job'.base \/ (job'.mode = "adopt" /\ result'.error = "state_commit_failed")
  <2>1. Step
    BY <1>1 DEF Next, vars, Start, Expire, HelperKilled, PowerLoss, Dies, End
  <2>2. GiveUp(pc) /\ UNCHANGED stored /\ (pc # "apply" => running' = running)
    BY <1>1, <2>1, StepShape
  <2>3. /\ job' = job /\ job.mode # "restore" /\ running' = running
        /\ job.mode = "switch" => pc \notin {"apply", "verify", "rename", "sync"}
        /\ job.mode = "adopt" /\ pc = "sync" => result'.error = "state_commit_failed"
    BY <1>1, <2>2, GiveUpShape
  <2>4. job \in Job
    BY <1>1 DEF IInv, PhaseInv, TypeOK, Job
  <2>5. running = job.before
    BY <1>1, <2>3, <2>4 DEF IInv, RunningInv, PhaseInv, TypeOK, Steps, Job
  <2>6. pc # "sync" => stored = job.base
    BY <1>1, <2>3 DEF IInv, StoredInv
  <2>. QED
    BY <1>1, <2>2, <2>3, <2>5, <2>6 DEF IInv, PhaseInv
<1>2. IInv /\ [Next]_vars => [Leaves]_vars
  BY <1>1
<1>. QED
  BY <1>2, Inductive, PTL DEF Spec, FailureLeavesService

(* The identities of a job and of its state file.                          *)
LEMMA IdFacts ==
  ASSUME IInv, job # NoJob
  PROVE  /\ job.kind \in {"deploy", "rollback"}
         /\ job.target.id \in Releases \cup {External}
         /\ job.base.current.id = NoRelease <=> job.base.current = NoRel
<1>1. job \in Job
  BY DEF IInv, TypeOK, Job
<1>2. job.base.current \in Release \cup {NoRel}
  BY <1>1 DEF Job, State, NoState
<1>. QED
  BY <1>1, <1>2, Basics DEF Job, Release, NoRel

(* Whatever file the execution leaves is one its outcome allows.           *)
LEMMA LeftFile ==
  ASSUME IInv, job # NoJob, NEW file, NEW o \in {"succeeded", "rolled_back", "failed"},
         \/ o = "failed" /\ file = job.base
         \/ o = "failed" /\ job.mode \in {"switch", "restore"} /\ file = Candidate(job)
         \/ /\ job.mode \in {"adopt", "switch", "restore"} /\ file = job.file
            /\ o = "rolled_back" => job.mode = "restore"
            /\ o = "succeeded" => job.mode # "restore"
  PROVE  Ids(file) \in StatesAfter([kind |-> job.kind, release |-> job.target.id,
                                    before |-> Ids(job.base).current], o, Ids(job.base))
<1> DEFINE d == [kind |-> job.kind, release |-> job.target.id, before |-> Ids(job.base).current]
<1>1. /\ job.kind \in {"deploy", "rollback"}
      /\ job.base.current.id = NoRelease <=> job.base.current = NoRel
  BY IdFacts
<1>2. d.kind # "action" /\ d.release = job.target.id /\ d.before = job.base.current.id
  BY <1>1 DEF Ids
<1>3. job.mode # "decide" => Found(d) = job.current.id
  BY <1>1, <1>2, Basics DEF IInv, JobInv, Found
<1>4. job.mode # "decide" => Ids(Candidate(job)) \in Switched(d)
  BY <1>2, <1>3 DEF Candidate, Ids, Switched
<1>5. Ids(Adopted(job)) \in Switched(d)
  BY <1>2 DEF Adopted, Ids, Switched, NoRel
<1>6. Ids(RestoreFile(job)) = Restored(d, Ids(job.base)) \/ job.mode = "decide"
  <2>1. CASE job.base.current = NoRel /\ job.mode # "decide"
    BY <1>1, <2>1, Basics DEF IInv, JobInv, RestoreFile, Restored, Ids, NoRel
  <2>2. CASE job.base.current # NoRel
    BY <1>1, <2>2 DEF RestoreFile, Restored, Ids
  <2>. QED
    BY <2>1, <2>2
<1>7. CASE o = "failed" /\ file = job.base
  BY <1>2, <1>7 DEF StatesAfter
<1>8. CASE o = "failed" /\ job.mode \in {"switch", "restore"} /\ file = Candidate(job)
  BY <1>2, <1>4, <1>8 DEF StatesAfter
<1>9. CASE job.mode = "adopt" /\ file = job.file /\ o # "rolled_back"
  BY <1>2, <1>5, <1>9 DEF StatesAfter, IInv, JobInv
<1>10. CASE job.mode = "switch" /\ file = job.file /\ o # "rolled_back"
  BY <1>2, <1>4, <1>10 DEF StatesAfter, IInv, JobInv
<1>11. CASE job.mode = "restore" /\ file = job.file /\ o # "succeeded"
  BY <1>2, <1>6, <1>11 DEF StatesAfter, IInv, JobInv
<1>. QED
  BY <1>7, <1>8, <1>9, <1>10, <1>11

(* The commands implement the contract that Operations builds on           *)
(* (ImplementsStackRelease): the state changes at once, as the outcome     *)
(* says, and only a failed execution may be undone by a power loss.        *)
THEOREM ImplementsContract == Spec => ImplementsStackRelease
<1> DEFINE Rel == Ids(IF pc = "idle" THEN stored ELSE job.base)
           Disk == Ids(durable)
<1>1. Init => Contract!RInit
  <2> SUFFICES ASSUME Init PROVE Contract!RInit
    OBVIOUS
  <2>1. Ids(stored) \in ReleaseState
    BY DEF Init, Ids, State, Release, NoState, NoRel, ReleaseState, AnyRelease
  <2>. QED
    BY <2>1 DEF Init, NoResult, Contract!RInit, Contract!ReleaseState, Contract!AnyRelease, ReleaseState, AnyRelease
<1>2. ASSUME IInv, [Next]_vars PROVE [Contract!RNext]_(Contract!relVars)
  <2>1. ASSUME pc # "idle", pc' = "idle", job' = job,
               NEW o \in Outcomes, result'.outcome = o,
               \/ /\ Ids(stored') \in StatesAfter([kind |-> job.kind, release |-> job.target.id,
                                    before |-> Ids(job.base).current], o, Ids(job.base))
                  /\ durable' = IF o = "failed" THEN durable ELSE stored'
               \/ /\ o = "failed" /\ durable' = stored'
                  /\ \/ stored' = durable
                     \/ Ids(stored') \in StatesAfter([kind |-> job.kind, release |-> job.target.id,
                                    before |-> Ids(job.base).current], o, Ids(job.base))
        PROVE  Contract!RNext
    <3>1. job # NoJob /\ result = NoResult
      BY <1>2, <2>1 DEF IInv, PhaseInv
    <3>2. job.kind \in {"deploy", "rollback"} /\ job.target.id \in Releases \cup {External}
      BY <1>2, <3>1, IdFacts
    <3> DEFINE d == [kind |-> job.kind, release |-> job.target.id, before |-> Ids(job.base).current]
    <3>3. Contract!StatesAfter(d, o, Ids(job.base)) = StatesAfter(d, o, Ids(job.base))
      BY DEF Contract!StatesAfter, StatesAfter, Contract!Switched, Switched, Contract!Restored,
             Restored, Contract!Found, Found
    <3>4. Rel = Ids(job.base) /\ Rel' = Ids(stored') /\ result.outcome = "none"
      BY <2>1, <3>1 DEF NoResult, Ids
    <3>5. Contract!Execute(job.kind, job.target.id, o)
      BY <2>1, <3>3, <3>4 DEF Contract!Execute, Ids
    <3>6. o \in Contract!Outcomes
      BY DEF Outcomes, Contract!Outcomes
    <3>. QED
      BY <3>2, <3>5, <3>6 DEF Contract!RNext
  <2>2. CASE Start
    <3>1. pc = "idle" /\ pc' # "idle" /\ result' = NoResult /\ durable' = durable
      BY <2>2 DEF Start
    <3>2. job'.base = stored
      BY <2>2 DEF Start
    <3>. QED
      BY <3>1, <3>2 DEF Contract!RNext, Contract!Begin, NoResult
  <2>3. CASE Step
    <3>1. pc # "idle" /\ job # NoJob
      BY <1>2, <2>3, StepShape DEF IInv, PhaseInv
    <3>2. CASE pc' # "idle" /\ job'.base = job.base /\ UNCHANGED <<durable, result>>
      BY <3>1, <3>2 DEF Contract!relVars
    <3>3. CASE GiveUp(pc) /\ UNCHANGED <<stored, durable>>
      <4>1. CASE pc' = "write" /\ job'.base = job.base /\ result' = result
        BY <3>1, <3>3, <4>1 DEF Contract!relVars
      <4>2. CASE pc' = "idle" /\ job' = job /\ result'.outcome = "failed"
        <5>1. \/ stored = job.base
              \/ job.mode \in {"switch", "restore"} /\ stored = Candidate(job)
              \/ job.mode \in {"adopt", "switch", "restore"} /\ stored = job.file
          BY <1>2, <3>1 DEF IInv, StoredInv, PhaseInv
        <5>2. Ids(stored) \in StatesAfter([kind |-> job.kind, release |-> job.target.id,
                                before |-> Ids(job.base).current], "failed", Ids(job.base))
          BY <1>2, <3>1, <5>1, LeftFile
        <5>. QED
          BY <2>1, <3>1, <3>3, <4>2, <5>2 DEF Outcomes
      <4>. QED
        BY <1>2, <3>1, <3>3, <4>1, <4>2, GiveUpShape
    <3>4. CASE /\ pc = "sync" /\ pc' = "idle" /\ UNCHANGED <<stored, job>> /\ durable' = stored
               /\ result'.outcome = IF job.mode = "restore" THEN "rolled_back" ELSE "succeeded"
      <4>1. stored = job.file /\ job.mode \in {"adopt", "switch", "restore"}
        BY <1>2, <3>4 DEF IInv, StoredInv, PhaseInv
      <4>2. result'.outcome \in {"rolled_back", "succeeded"}
        BY <3>4
      <4>3. Ids(stored) \in StatesAfter([kind |-> job.kind, release |-> job.target.id,
                              before |-> Ids(job.base).current], result'.outcome, Ids(job.base))
        BY <1>2, <3>1, <3>4, <4>1, <4>2, LeftFile
      <4>. QED
        BY <2>1, <3>1, <3>4, <4>2, <4>3 DEF Outcomes
    <3>. QED
      BY <1>2, <2>3, <3>2, <3>3, <3>4, StepShape
  <2>4. CASE Expire
    BY <2>4 DEF Expire, Contract!relVars
  <2>5. CASE HelperKilled \/ PowerLoss
    <3>1. CASE pc = "idle"
      <4>1. pc' = "idle" /\ result' = result /\ job' = job
        BY <2>5, <3>1 DEF HelperKilled, PowerLoss, Dies
      <4>2. durable' = stored' /\ stored' \in {stored, durable}
        BY <2>5, <3>1 DEF HelperKilled, PowerLoss, Dies
      <4>. QED
        BY <3>1, <4>1, <4>2 DEF Contract!RNext, Contract!PowerLoss, Contract!PowerKept
    <3>2. CASE pc # "idle"
      <4>1. pc' = "idle" /\ result'.outcome = "failed" /\ job' = job
        BY <2>5, <3>2 DEF HelperKilled, PowerLoss, Dies, End
      <4>2. \/ stored' = stored /\ durable' = durable
            \/ durable' = stored' /\ stored' \in {stored, durable}
        BY <2>5, <3>2 DEF HelperKilled, PowerLoss, Dies
      <4>3. job # NoJob
        BY <1>2, <3>2 DEF IInv, PhaseInv
      <4>4. \/ stored = job.base
            \/ job.mode \in {"switch", "restore"} /\ stored = Candidate(job)
            \/ job.mode \in {"adopt", "switch", "restore"} /\ stored = job.file
        BY <1>2, <3>2 DEF IInv, StoredInv, PhaseInv
      <4>5. Ids(stored) \in StatesAfter([kind |-> job.kind, release |-> job.target.id,
                              before |-> Ids(job.base).current], "failed", Ids(job.base))
        BY <1>2, <4>3, <4>4, LeftFile
      <4>. QED
        BY <2>1, <3>2, <4>1, <4>2, <4>5 DEF Outcomes
    <3>. QED
      BY <3>1, <3>2
  <2>6. CASE UNCHANGED vars
    BY <2>6 DEF vars, Contract!relVars
  <2>. QED
    BY <1>2, <2>2, <2>3, <2>4, <2>5, <2>6 DEF Next
<1>. QED
  BY <1>1, <1>2, Inductive, PTL DEF Spec, ImplementsStackRelease, Contract!RSpec
=============================================================================
