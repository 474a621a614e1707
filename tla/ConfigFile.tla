----------------------------- MODULE ConfigFile -----------------------------
(***************************************************************************)
(* The Hub's private config file and the commands that rewrite it: enrol   *)
(* an Agent, turn the plaintext password into a verifier.  Each command    *)
(* reads the file, writes a temporary one, compares what it read with what *)
(* is there, and renames.  Commands and an operator's editor run           *)
(* independently; a command can be killed at any step.                     *)
(***************************************************************************)
EXTENDS Integers, FiniteSets

CONSTANTS
  Jobs,          \* the commands, each run once
  WorkOf,        \* an Agent's ID and record, or the password migration
  AgentIDs,
  Records, Absent, \* Agent records: URL, token, name, public host
  MaxHandEdits   \* bound on the operator's own edits

Migrate == [id |-> "password", record |-> Absent]
Works == {Migrate} \cup [id : AgentIDs, record : Records]
Configs == [agents : [AgentIDs -> Records \cup {Absent}], password : {"none", "plaintext", "verifier"}]

ASSUME ConfigAssumption ==
  /\ Absent \notin Records /\ "password" \notin AgentIDs
  /\ WorkOf \in [Jobs -> Works] /\ MaxHandEdits \in Nat

VARIABLES
  file,      \* the content under the path
  inode,     \* its identity, size and modification time, as one number
  jobs,      \* Jobs -> stage, the Lstat it keeps, the config it will write
  manual

configVars == <<file, inode, jobs, manual>>

NoJob == [stage |-> "new", original |-> 0, read |-> 0, config |-> <<>>]

ConfigInit ==
  /\ file \in {c \in Configs : c.agents = [a \in AgentIDs |-> Absent]}
  /\ inode = 1
  /\ jobs = [j \in Jobs |-> NoJob]
  /\ manual = 0
-----------------------------------------------------------------------------
Applied(work, config) ==
  IF work = Migrate THEN [config EXCEPT !.password = "verifier"]
  ELSE [config EXCEPT !.agents[work.id] = work.record]

(* The work changes nothing: no plaintext password, or the same record.    *)
NoOp(work, config) ==
  IF work = Migrate THEN config.password # "plaintext" ELSE config.agents[work.id] = work.record

At(j, stage) == jobs[j].stage = stage
To(j, stage) == jobs' = [jobs EXCEPT ![j].stage = stage]

(* original := os.Lstat(path)                                              *)
Lstat(j) ==
  /\ At(j, "new")
  /\ jobs' = [jobs EXCEPT ![j].stage = "statted", ![j].original = inode]
  /\ UNCHANGED <<file, inode, manual>>

(* LoadConfig, and the change made to what was loaded.                     *)
Load(j) ==
  /\ At(j, "statted")
  /\ IF NoOp(WorkOf[j], file) THEN To(j, "unchanged")
     ELSE jobs' = [jobs EXCEPT ![j].stage = "loaded", ![j].read = inode, ![j].config = Applied(WorkOf[j], file)]
  /\ UNCHANGED <<file, inode, manual>>

(* Mutant: the path is not compared again before the rename.               *)
CompareUnread(j) == At(j, "loaded") /\ To(j, "compared") /\ UNCHANGED <<file, inode, manual>>

(* writeConfigAtomically: the temporary file is written and synced, then   *)
(* the path is compared with the Lstat kept.                               *)
Compare(j) ==
  /\ At(j, "loaded")
  /\ To(j, IF inode = jobs[j].original THEN "compared" ELSE "refused")
  /\ UNCHANGED <<file, inode, manual>>

Replace(j) ==
  /\ At(j, "compared")
  /\ file' = jobs[j].config
  /\ inode' = inode + 1
  /\ To(j, "renamed")
  /\ UNCHANGED manual

(* The command is killed, or one of its system calls fails.                *)
Fail(j) ==
  /\ jobs[j].stage \in {"new", "statted", "loaded", "compared"}
  /\ To(j, "failed")
  /\ UNCHANGED <<file, inode, manual>>

(* The operator saves the file from an editor.                             *)
EditByHand ==
  /\ manual < MaxHandEdits
  /\ \E a \in AgentIDs, r \in Records \cup {Absent} : file' = [file EXCEPT !.agents[a] = r]
  /\ inode' = inode + 1 /\ manual' = manual + 1
  /\ UNCHANGED jobs

ConfigNext ==
  \/ \E j \in Jobs : Lstat(j) \/ Load(j) \/ Compare(j) \/ Replace(j) \/ Fail(j)
  \/ EditByHand

ConfigSpec == ConfigInit /\ [][ConfigNext]_configVars
-----------------------------------------------------------------------------
(* A command passes its comparison only when the file is still the one it  *)
(* read: an edit made before the comparison is never overwritten,          *)
(* whichever of the command's two looks at the file it fell between.       *)
ComparedIsRead ==
  [][\A j \in Jobs : ~At(j, "compared") /\ jobs'[j].stage = "compared" => jobs[j].read = inode]_configVars

=============================================================================
