---------------------------- MODULE MCEventRules ----------------------------
(* Small instances of EventRules for TLC.                                  *)
EXTENDS EventRules

CONSTANTS unit

MCSource == [w \in Workloads |-> "systemd"]
=============================================================================
