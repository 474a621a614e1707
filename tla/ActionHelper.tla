---------------------------- MODULE ActionHelper ----------------------------
(***************************************************************************)
(* `lodge-agent --execute-action`, the short-lived root process the Agent  *)
(* starts through sudo: the lock, the policy it reads under the lock, the  *)
(* command and the states it reads back.  Several helpers can be started,  *)
(* an operator rewrites the policy, services change state by themselves,   *)
(* and a command cut off by its time limit stays with the service manager. *)
(***************************************************************************)
EXTENDS Integers, FiniteSets

CONSTANTS
  Helpers,           \* processes, each with one request
  Approvals,         \* the approvals a policy can hold: [target, kind]
  RequestOf,         \* the action ID each helper is given
  MaxPolicies, MaxDrifts \* bounds on changes of the policy and of the services

Kinds == {"start", "stop", "restart", "logs"}
Units == {a.target : a \in Approvals}

ASSUME HelperAssumption ==
  /\ \A a \in Approvals : a.kind \in Kinds
  /\ RequestOf \in [Helpers -> Approvals] /\ "free" \notin Helpers
  /\ MaxPolicies \in Nat /\ MaxDrifts \in Nat

VARIABLES
  policy,     \* /etc/lodge-agent/actions.json
  flock,      \* the helper that holds /run/lodge-agent-action.lock, or none
  unit,       \* Units -> running, stopped, or activating
  jobsLeft,   \* commands that were cut off and are still to take effect
  helpers,    \* Helpers -> stage, state before and after, error kind
  commanded,  \* history: Units -> the helper whose command was the last
  policies, drifts

helperVars == <<policy, flock, unit, jobsLeft, helpers, commanded, policies, drifts>>

Unstarted == [stage |-> "new", before |-> "none", after |-> "none", error |-> "none"]

HelperInit ==
  /\ policy \in SUBSET Approvals
  /\ flock = "free"
  /\ unit \in [Units -> {"running", "stopped"}]
  /\ jobsLeft = {}
  /\ helpers = [h \in Helpers |-> Unstarted]
  /\ commanded = [t \in Units |-> "none"]
  /\ policies = 0 /\ drifts = 0
-----------------------------------------------------------------------------
UnitOf(h) == RequestOf[h].target
Kind(h) == RequestOf[h].kind
On(h, stage) == helpers[h].stage = stage
Moves(h, stage) == helpers' = [helpers EXCEPT ![h].stage = stage]

(* The result is written and the process ends; the lock goes with it.      *)
Ends(h, row) == helpers' = [helpers EXCEPT ![h] = row] /\ flock' = "free"
Succeeds(h, after) == Ends(h, [helpers[h] EXCEPT !.stage = "ok", !.after = after])
FailsWith(h, error) == Ends(h, [helpers[h] EXCEPT !.stage = "failed", !.error = error])

(* Mutant: the lock is taken over.                                         *)
AcquireShared(h) ==
  /\ On(h, "new") /\ flock' = h /\ Moves(h, "locked")
  /\ UNCHANGED <<policy, unit, jobsLeft, commanded, policies, drifts>>

(* acquireActionLock: a second helper is turned away, it does not wait.    *)
AcquireActionLock(h) ==
  /\ On(h, "new")
  /\ IF flock = "free" THEN flock' = h /\ Moves(h, "locked")
     ELSE Moves(h, "refused") /\ UNCHANGED flock
  /\ UNCHANGED <<policy, unit, jobsLeft, commanded, policies, drifts>>

(* The request is decoded and the policy read now.                         *)
ReadPolicy(h) ==
  /\ On(h, "locked")
  /\ IF RequestOf[h] \in policy THEN Moves(h, "approved") /\ UNCHANGED flock
     ELSE Ends(h, [helpers[h] EXCEPT !.stage = "refused"])
  /\ UNCHANGED <<policy, unit, jobsLeft, commanded, policies, drifts>>

ReadLogs(h) ==
  /\ On(h, "approved") /\ Kind(h) = "logs"
  /\ Succeeds(h, "none") \/ FailsWith(h, "log_read_failed")
  /\ UNCHANGED <<policy, unit, jobsLeft, commanded, policies, drifts>>

(* approvedTargetState: running, stopped, or an error.                     *)
Readings(t) == {unit[t], "error"} \ {"activating"}

ReadBefore(h) ==
  /\ On(h, "approved") /\ Kind(h) # "logs"
  /\ \E state \in Readings(UnitOf(h)) :
       IF state = "error" THEN FailsWith(h, "state_read_failed")
       ELSE helpers' = [helpers EXCEPT ![h].stage = "read", ![h].before = state] /\ UNCHANGED flock
  /\ UNCHANGED <<policy, unit, jobsLeft, commanded, policies, drifts>>

(* changeApprovedTarget: the command works, or is refused without effect,  *)
(* or is cut off after fifteen seconds and leaves its job behind.          *)
Expected(h) == IF Kind(h) = "stop" THEN "stopped" ELSE "running"
Effects(h) == IF Kind(h) = "stop" THEN {"stopped"} ELSE {"running", "activating"}

ChangeTarget(h) ==
  /\ On(h, "read")
  /\ commanded' = [commanded EXCEPT ![UnitOf(h)] = h]
  /\ \/ /\ \E state \in Effects(h) : unit' = [unit EXCEPT ![UnitOf(h)] = state]
        /\ Moves(h, "changed") /\ UNCHANGED <<flock, jobsLeft>>
     \/ FailsWith(h, "command_failed") /\ UNCHANGED <<unit, jobsLeft>>
     \/ FailsWith(h, "command_failed") /\ jobsLeft' = jobsLeft \cup {h} /\ UNCHANGED unit
  /\ UNCHANGED <<policy, policies, drifts>>

(* One round of the loop: the expected state ends it, another state or an  *)
(* error lets it go on until the deadline.                                 *)
Verify(h) ==
  /\ On(h, "changed")
  /\ \E state \in Readings(UnitOf(h)) :
       IF state = Expected(h) THEN Succeeds(h, state)
       ELSE LET seen == [helpers[h] EXCEPT !.after = IF state = "error" THEN @ ELSE state]
            IN \/ helpers' = [helpers EXCEPT ![h] = seen] /\ UNCHANGED flock
               \/ Ends(h, [seen EXCEPT !.stage = "failed", !.error = "health_verification_failed"])
  /\ UNCHANGED <<policy, unit, jobsLeft, commanded, policies, drifts>>

(* The Agent's own time limit, a crash: the kernel drops the lock.  The    *)
(* command may have been given by then.                                    *)
Kill(h) ==
  /\ helpers[h].stage \in {"locked", "approved", "read", "changed"}
  /\ Ends(h, [helpers[h] EXCEPT !.stage = "killed"])
  /\ \/ UNCHANGED <<jobsLeft, commanded>>
     \/ /\ On(h, "read")
        /\ jobsLeft' = jobsLeft \cup {h}
        /\ commanded' = [commanded EXCEPT ![UnitOf(h)] = h]
  /\ UNCHANGED <<policy, unit, policies, drifts>>
-----------------------------------------------------------------------------
(* A job that was left behind takes effect.                                *)
JobEnds(h) ==
  /\ h \in jobsLeft /\ jobsLeft' = jobsLeft \ {h}
  /\ unit' = [unit EXCEPT ![UnitOf(h)] = Expected(h)]
  /\ UNCHANGED <<policy, flock, helpers, commanded, policies, drifts>>

(* A unit comes up, dies or is restarted without any helper.               *)
Drift(t) ==
  /\ drifts < MaxDrifts /\ drifts' = drifts + 1
  /\ \E state \in {"running", "stopped", "activating"} : unit' = [unit EXCEPT ![t] = state]
  /\ UNCHANGED <<policy, flock, jobsLeft, helpers, commanded, policies>>

WritePolicy ==
  /\ policies < MaxPolicies /\ policies' = policies + 1
  /\ policy' \in SUBSET Approvals
  /\ UNCHANGED <<flock, unit, jobsLeft, helpers, commanded, drifts>>

HelperNext ==
  \/ \E h \in Helpers :
       \/ AcquireActionLock(h) \/ ReadPolicy(h) \/ ReadLogs(h) \/ ReadBefore(h) \/ ChangeTarget(h)
       \/ Verify(h) \/ Kill(h) \/ JobEnds(h)
  \/ \E t \in Units : Drift(t)
  \/ WritePolicy

HelperSpec == HelperInit /\ [][HelperNext]_helperVars
-----------------------------------------------------------------------------
(* A helper reports success only for its own doing: when it does, the last *)
(* command given to the unit is its own, and the unit is in the state the  *)
(* command asks for at that moment, not only when it was read before.      *)
SuccessIsOwn ==
  [][ \A h \in Helpers :
        ~On(h, "ok") /\ helpers'[h].stage = "ok" /\ Kind(h) # "logs"
        => commanded[UnitOf(h)] = h /\ unit[UnitOf(h)] = Expected(h) ]_helperVars
=============================================================================
