----------------------------- MODULE MCConsole ------------------------------
(* The two models of the console share no variable: one run checks both,   *)
(* and "exercised" says which of them a behaviour moves.                   *)
EXTENDS EventList, ConsoleDialogs, TLC

CONSTANTS e1, e2, e3, log, dep1, dep2

VARIABLE exercised

MCHostOf == [e \in Events |-> IF e = e3 THEN "h2" ELSE "h1"]
MCDefault == [host |-> "", state |-> "ongoing"]
MCFilters == {MCDefault, [host |-> "", state |-> "all"], [host |-> "h1", state |-> "ongoing"]}
MCAgentOf == [i \in Items |-> IF i = dep2 THEN "h2" ELSE "h1"]
MCSymmetry == Permutations(Events \ {e3}) \cup Permutations(Slots)

MCInit ==
  /\ ListInit /\ DialogInit
  /\ \/ exercised = "list" /\ agent = "h1" /\ selected = MCDefault /\ {e1, e2} \subseteq ToSet(recency)
     \/ exercised = "dialog" /\ selected = MCDefault /\ recency = <<>>

MCNext ==
  /\ UNCHANGED exercised
  /\ \/ exercised = "list" /\ ListNext /\ UNCHANGED dialogVars
     \/ exercised = "dialog" /\ DialogNext /\ UNCHANGED <<pageVars, listVars>>

MCSpec == MCInit /\ [][MCNext]_<<pageVars, listVars, dialogVars, exercised>>
=============================================================================
