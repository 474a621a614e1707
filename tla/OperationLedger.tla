--------------------------- MODULE OperationLedger ---------------------------
(***************************************************************************)
(* What the audit of remote operations promises to its reader, without the *)
(* Hub's handlers, locks, calls or processes: one row per request that     *)
(* moves requested, running, terminal and then stays; an effect on a host  *)
(* that happens at most once, only after the row says running, and perhaps *)
(* after the row already says failed; and a row that claims success or     *)
(* rollback only when that effect is what the operator confirmed.          *)
(***************************************************************************)
CONSTANTS Requests

VARIABLES
  ledger,   \* the state of each request's audit row
  effect    \* what happened on the host for the request

lvars == <<ledger, effect>>

Claims == {"succeeded", "rolled_back"}
Effects == {"none", "failed", "other"} \cup Claims   \* "other": not as confirmed

LInit ==
  /\ ledger = [r \in Requests |-> "none"]
  /\ effect = [r \in Requests |-> "none"]

Record(r) ==
  /\ ledger[r] = "none"
  /\ ledger' = [ledger EXCEPT ![r] = "requested"]
  /\ UNCHANGED effect

Begin(r) ==
  /\ ledger[r] = "requested"
  /\ ledger' = [ledger EXCEPT ![r] = "running"]
  /\ UNCHANGED effect

(* The host acts once; the row may have been closed as failed before.      *)
Act(r) ==
  /\ effect[r] = "none"
  /\ ledger[r] \in {"running", "failed"}
  /\ \E e \in Effects \ {"none"} : effect' = [effect EXCEPT ![r] = e]
  /\ UNCHANGED ledger

Settle(r) ==
  /\ ledger[r] = "running"
  /\ \E s \in Claims \cup {"failed"} :
       /\ s \in Claims => effect[r] = s
       /\ ledger' = [ledger EXCEPT ![r] = s]
  /\ UNCHANGED effect

(* A restart of the Hub closes everything that was open.                   *)
CloseInterrupted ==
  /\ ledger' = [r \in Requests |-> IF ledger[r] \in {"requested", "running"}
                                   THEN "failed" ELSE ledger[r]]
  /\ UNCHANGED effect

LNext ==
  \/ \E r \in Requests : Record(r) \/ Begin(r) \/ Act(r) \/ Settle(r)
  \/ CloseInterrupted

LSpec == LInit /\ [][LNext]_lvars
=============================================================================
