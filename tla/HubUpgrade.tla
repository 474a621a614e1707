----------------------------- MODULE HubUpgrade -----------------------------
(***************************************************************************)
(* The Hub's database through starts, backups and upgrades: the migrations *)
(* a start applies, one transaction each, and the ledger it verifies; the  *)
(* standalone backup with its checks; and install-hub.sh, which stops the  *)
(* Hub, keeps a rollback bundle, installs a candidate, waits for it to     *)
(* serve and restores everything when it does not.  A process can be       *)
(* killed between any two steps.                                           *)
(*                                                                         *)
(* A migration is named by its checksum; the rows of the database are left *)
(* out.  The bundle's own copy command and the final one of the script are *)
(* backups like an operator's.                                             *)
(***************************************************************************)
EXTENDS Integers, Sequences, SequencesExt

CONSTANTS
  Releases, PlanOf,     \* Hub binaries and the migrations of each, in order
  Destinations, PathOf, \* the operator's backup commands and the path each writes
  NoDatabase, Partial,  \* no file; a file that fails its integrity check
  MaxRuns               \* bound on starts, stops and upgrades

Bundle == "bundle"
Final == "final"
Commands == DOMAIN PathOf

Migrations == UNION {Range(PlanOf[r]) : r \in Releases}
Databases == [version : Nat, ledger : Seq(Migrations)]

ASSUME UpgradeAssumption ==
  /\ PlanOf \in [Releases -> Seq(Migrations)]
  /\ \A r \in Releases : PlanOf[r] # <<>> /\ IsInjective(PlanOf[r])
  /\ NoDatabase \notin Databases /\ Partial \notin Databases
  /\ Range(PathOf) \subseteq Destinations /\ {Bundle, Final} \subseteq Commands
  /\ \A c \in {Bundle, Final}, d \in Commands : PathOf[c] = PathOf[d] => c = d
  /\ MaxRuns \in Nat

VARIABLES
  installed,   \* the binary the unit runs
  wanted,      \* systemd keeps the unit running
  hub,         \* the process: stage, release, the version it has reached
  database,    \* the file: user_version and schema_migrations
  backups,     \* commands -> stage and the version read
  copies,      \* destinations -> the file there
  script,      \* install-hub.sh: stage and what its variables hold
  runs

upgradeVars == <<installed, wanted, hub, database, backups, copies, script, runs>>

Down == [stage |-> "down", release |-> CHOOSE r \in Releases : TRUE, current |-> 0]
NoScript == [stage |-> "idle", candidate |-> Down.release, previous |-> Down.release,
             active |-> FALSE, stopped |-> FALSE, ready |-> FALSE, had |-> FALSE, served |-> FALSE]
NoBackup == [stage |-> "new", version |-> 0]

UpgradeInit ==
  /\ installed \in Releases /\ wanted = TRUE
  /\ hub = Down /\ database = NoDatabase
  /\ backups = [c \in Commands |-> NoBackup]
  /\ copies = [d \in Destinations |-> NoDatabase]
  /\ script = NoScript /\ runs = 0
-----------------------------------------------------------------------------
Run == runs < MaxRuns /\ runs' = runs + 1
Plan == PlanOf[hub.release]
HubAt(stage) == hub' = [hub EXCEPT !.stage = stage]

(* OpenSQLite: the path is prepared, the version read and compared.        *)
StartHub ==
  /\ wanted /\ hub.stage \in {"down", "refused"} /\ Run
  /\ LET found == IF database = NoDatabase THEN [version |-> 0, ledger |-> <<>>] ELSE database
     IN /\ database' = found
        /\ hub' = [stage |-> IF found.version > Len(PlanOf[installed]) THEN "refused" ELSE "migrating",
                   release |-> installed, current |-> found.version]
  /\ UNCHANGED <<installed, wanted, backups, copies, script>>

(* Mutant: user_version is written after the transaction, and a crash can  *)
(* keep it from being written.                                             *)
ApplyUnversioned ==
  /\ hub.stage = "migrating" /\ hub.current < Len(Plan)
  /\ IF Len(database.ledger) > hub.current
     THEN HubAt("refused") /\ UNCHANGED database
     ELSE /\ \E version \in {hub.current, hub.current + 1} :
               database' = [version |-> version, ledger |-> Append(database.ledger, Plan[hub.current + 1])]
          /\ hub' = [hub EXCEPT !.current = @ + 1]
  /\ UNCHANGED <<installed, wanted, backups, copies, script, runs>>

(* One migration: its SQL, its ledger row and user_version commit together. *)
ApplyMigration ==
  /\ hub.stage = "migrating" /\ hub.current < Len(Plan)
  /\ IF Len(database.ledger) > hub.current
     THEN HubAt("refused") /\ UNCHANGED database
     ELSE /\ database' = [version |-> hub.current + 1, ledger |-> Append(database.ledger, Plan[hub.current + 1])]
          /\ hub' = [hub EXCEPT !.current = @ + 1]
  /\ UNCHANGED <<installed, wanted, backups, copies, script, runs>>

VerifyMigrations ==
  /\ hub.stage = "migrating" /\ hub.current = Len(Plan)
  /\ HubAt(IF database.ledger = Plan THEN "serving" ELSE "refused")
  /\ UNCHANGED <<installed, wanted, database, backups, copies, script, runs>>

(* A statement fails, the process is killed, or it ends by itself.         *)
HubEnds ==
  /\ hub.stage \in {"migrating", "serving"}
  /\ HubAt("down")
  /\ UNCHANGED <<installed, wanted, database, backups, copies, script, runs>>
-----------------------------------------------------------------------------
(* BackupSQLiteFile.  An operator runs it beside the Hub, not beside the   *)
(* script.                                                                 *)
CommandAt(c, stage) == backups[c].stage = stage
CommandTo(c, stage) == backups' = [backups EXCEPT ![c].stage = stage]
Into(c, content) == copies' = [copies EXCEPT ![PathOf[c]] = content]
Copy(c) == copies[PathOf[c]]
Commanded(c) ==
  CASE c = Bundle -> script.stage = "bundling" /\ script.had
    [] c = Final -> script.stage = "verified"
    [] OTHER -> script.stage = "idle"

ReadVersion(c) ==
  /\ CommandAt(c, "new") /\ Commanded(c)
  /\ IF database = NoDatabase \/ database.version < 1
     THEN CommandTo(c, "failed")
     ELSE backups' = [backups EXCEPT ![c] = [stage |-> "read", version |-> database.version]]
  /\ UNCHANGED <<installed, wanted, hub, database, copies, script, runs>>

(* os.Lstat(destination): nothing may be there.                            *)
CheckDestination(c) ==
  /\ CommandAt(c, "read")
  /\ CommandTo(c, IF Copy(c) = NoDatabase THEN "clear" ELSE "failed")
  /\ UNCHANGED <<installed, wanted, hub, database, copies, script, runs>>

(* VACUUM INTO reads one snapshot and writes a new file; when it fails the *)
(* destination is removed, whoever wrote it.                               *)
Vacuum(c) ==
  /\ CommandAt(c, "clear")
  /\ \/ Copy(c) = NoDatabase /\ Into(c, database) /\ CommandTo(c, "copied")
     \/ Into(c, NoDatabase) /\ CommandTo(c, "failed")
  /\ UNCHANGED <<installed, wanted, hub, database, script, runs>>

(* Mutant: the version of the copy is not compared.                        *)
VerifyUncompared(c) ==
  /\ CommandAt(c, "copied")
  /\ IF Copy(c) \notin {NoDatabase, Partial}
     THEN CommandTo(c, "reported") /\ UNCHANGED copies
     ELSE CommandTo(c, "failed") /\ Into(c, NoDatabase)
  /\ UNCHANGED <<installed, wanted, hub, database, script, runs>>

VerifyCopy(c) ==
  /\ CommandAt(c, "copied")
  /\ IF Copy(c) \notin {NoDatabase, Partial} /\ Copy(c).version = backups[c].version
     THEN CommandTo(c, "reported") /\ UNCHANGED copies
     ELSE CommandTo(c, "failed") /\ Into(c, NoDatabase)
  /\ UNCHANGED <<installed, wanted, hub, database, script, runs>>

(* The command is killed; the file it was writing stays.                   *)
KillBackup(c) ==
  /\ \/ backups[c].stage \in {"read", "copied"} /\ UNCHANGED copies
     \/ CommandAt(c, "clear") /\ Copy(c) = NoDatabase /\ Into(c, Partial)
  /\ CommandTo(c, "failed")
  /\ UNCHANGED <<installed, wanted, hub, database, script, runs>>
-----------------------------------------------------------------------------
(* install-hub.sh apply.                                                   *)
ScriptAt(stage) == script' = [script EXCEPT !.stage = stage]

(* systemctl is-active, then systemctl stop.                               *)
StopService(candidate) ==
  /\ script.stage = "idle" /\ Run
  /\ \A c \in Commands : backups[c].stage \in {"new", "reported", "failed"}
  /\ script' = [NoScript EXCEPT !.stage = "bundling", !.candidate = candidate, !.previous = installed,
       !.active = hub.stage \in {"migrating", "serving"}, !.stopped = TRUE,
       !.had = database # NoDatabase, !.served = hub.stage = "serving"]
  /\ wanted' = FALSE /\ HubAt("down")
  /\ UNCHANGED <<installed, database, backups, copies>>

(* The bundle is complete: rollback_ready=1.                               *)
BundleReady ==
  /\ script.stage = "bundling" /\ (script.had => CommandAt(Bundle, "reported"))
  /\ script' = [script EXCEPT !.stage = "ready", !.ready = TRUE]
  /\ UNCHANGED <<installed, wanted, hub, database, backups, copies, runs>>

(* The config's password is migrated, the binary and the unit installed.   *)
InstallCandidate ==
  /\ script.stage = "ready"
  /\ installed' = script.candidate /\ ScriptAt("installed")
  /\ UNCHANGED <<wanted, hub, database, backups, copies, runs>>

RestartService ==
  /\ script.stage = "installed"
  /\ wanted' = TRUE /\ ScriptAt("watching")
  /\ UNCHANGED <<installed, hub, database, backups, copies, runs>>

(* /api/session answers, and the database passes the script's own query.   *)
Healthy ==
  /\ script.stage = "watching" /\ hub.stage = "serving"
  /\ ScriptAt("verified")
  /\ UNCHANGED <<installed, wanted, hub, database, backups, copies, runs>>

Complete ==
  /\ script.stage = "verified" /\ CommandAt(Final, "reported")
  /\ ScriptAt("complete")
  /\ UNCHANGED <<installed, wanted, hub, database, backups, copies, runs>>

(* Any command of the script fails, or its twenty attempts are over: the   *)
(* EXIT trap.                                                              *)
Working == {"bundling", "ready", "installed", "watching", "verified"}
Trap ==
  /\ script.stage \in Working
  /\ \A c \in {Bundle, Final} : backups[c].stage \in {"new", "reported", "failed"}
  /\ wanted' = FALSE /\ HubAt("down") /\ ScriptAt("restoring")
  /\ UNCHANGED <<installed, database, backups, copies, runs>>

(* The binary first, the database last; the failed files are moved away.   *)
RestoreBinary ==
  /\ script.stage = "restoring"
  /\ installed' = IF script.ready THEN script.previous ELSE installed
  /\ ScriptAt(IF script.ready THEN "binary" ELSE "restored")
  /\ UNCHANGED <<wanted, hub, database, backups, copies, runs>>

(* Mutant: the migrated database is kept.                                  *)
KeepDatabase ==
  /\ script.stage = "binary" /\ ScriptAt("restored")
  /\ UNCHANGED <<installed, wanted, hub, database, backups, copies, runs>>

RestoreDatabase ==
  /\ script.stage = "binary"
  /\ database' = IF script.had THEN Copy(Bundle) ELSE NoDatabase
  /\ ScriptAt("restored")
  /\ UNCHANGED <<installed, wanted, hub, backups, copies, runs>>

RestoreService ==
  /\ script.stage = "restored"
  /\ wanted' = script.active /\ ScriptAt("rolledback")
  /\ UNCHANGED <<installed, hub, database, backups, copies, runs>>

(* Power is lost: nothing of the script runs again; the unit is enabled.   *)
PowerLoss ==
  /\ Run
  /\ wanted' = TRUE /\ HubAt("down")
  /\ ScriptAt(IF script.stage \in {"idle", "complete", "rolledback"} THEN script.stage ELSE "lost")
  /\ backups' = [c \in Commands |->
       IF backups[c].stage \in {"read", "clear", "copied"} THEN [backups[c] EXCEPT !.stage = "failed"] ELSE backups[c]]
  /\ UNCHANGED <<installed, database, copies>>

(* An operator puts another binary in place by hand.                       *)
InstallByHand(r) ==
  /\ script.stage = "idle" /\ hub.stage \in {"down", "refused"} /\ r # installed /\ Run
  /\ installed' = r
  /\ UNCHANGED <<wanted, hub, database, backups, copies, script>>

UpgradeNext ==
  \/ StartHub \/ ApplyMigration \/ VerifyMigrations \/ HubEnds
  \/ \E c \in Commands : ReadVersion(c) \/ CheckDestination(c) \/ Vacuum(c) \/ VerifyCopy(c) \/ KillBackup(c)
  \/ \E r \in Releases : StopService(r) \/ InstallByHand(r)
  \/ BundleReady \/ InstallCandidate \/ RestartService \/ Healthy \/ Complete
  \/ Trap \/ RestoreBinary \/ RestoreDatabase \/ RestoreService
  \/ PowerLoss

UpgradeSpec == UpgradeInit /\ [][UpgradeNext]_upgradeVars
-----------------------------------------------------------------------------
(* A Hub serves the schema of its own release and no other, and refuses    *)
(* only a database that is not a beginning of it: one left between two     *)
(* migrations by a crash is continued.                                     *)
MigrationContinued ==
  /\ hub.stage = "serving" => database.ledger = Plan
  /\ hub.stage = "refused" => ~IsPrefix(database.ledger, Plan)

(* A backup that was reported is a whole schema of the version it names,   *)
(* taken while migrations went on; it is there until another command that  *)
(* was given the same path fails.                                          *)
BackupIsWhole ==
  \A c \in Commands :
    CommandAt(c, "reported") =>
      \/ Copy(c) \notin {NoDatabase, Partial} /\ Copy(c).version = backups[c].version
         /\ Len(Copy(c).ledger) = backups[c].version
      \/ \E d \in Commands \ {c} : PathOf[d] = PathOf[c] /\ CommandAt(d, "failed")

(* When an upgrade has failed and was rolled back, the release that served *)
(* before is in place with a database it accepts, however far the          *)
(* candidate had migrated it.                                              *)
RollbackServes ==
  script.stage = "rolledback" /\ script.served =>
    /\ installed = script.previous /\ wanted
    /\ database.ledger = PlanOf[script.previous]
=============================================================================
