---------------------------- MODULE StackRelease ----------------------------
(***************************************************************************)
(* What the root executor promises about the release state of one stack:   *)
(* an execution changes it at once, as its outcome says, or not at all;    *)
(* only a failed execution may leave a state that a power loss reverts.    *)
(***************************************************************************)
EXTENDS ReleaseEffects

VARIABLES
  rel,      \* the release state a reader finds
  disk,     \* the release state that survives a power loss
  outcome   \* of the last execution

relVars == <<rel, disk, outcome>>

RInit ==
  /\ rel \in ReleaseState
  /\ disk = rel
  /\ outcome = "none"

Begin ==
  /\ outcome' = "none"
  /\ UNCHANGED <<rel, disk>>

(* An execution of kind and release ends with outcome o.  A failed one may *)
(* have been cut short by a power loss, which leaves what was durable.     *)
Execute(kind, release, o) ==
  LET d == [kind |-> kind, release |-> release, before |-> rel.current]
  IN  /\ outcome = "none"
      /\ outcome' = o
      /\ \/ /\ rel' \in StatesAfter(d, o, rel)
            /\ disk' = IF o = "failed" THEN disk ELSE rel'
         \/ /\ o = "failed"
            /\ rel' \in StatesAfter(d, o, rel) \cup {disk}
            /\ disk' = rel'

(* Between executions a power loss reverts what never became durable.      *)
PowerLoss ==
  /\ rel' = disk
  /\ UNCHANGED <<disk, outcome>>

PowerKept ==
  /\ disk' = rel
  /\ UNCHANGED <<rel, outcome>>

RNext ==
  \/ Begin \/ PowerLoss \/ PowerKept
  \/ \E kind \in {"deploy", "rollback"}, release \in Releases \cup {External},
        o \in Outcomes : Execute(kind, release, o)

RSpec == RInit /\ [][RNext]_relVars
=============================================================================
