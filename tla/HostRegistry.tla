---------------------------- MODULE HostRegistry ----------------------------
(***************************************************************************)
(* The configured hosts and the operator's annotations of their services:  *)
(* rows in SQLite, a copy in the Hub's memory that every page is drawn     *)
(* from, and the legacy JSON state that a start may still import.  An edit *)
(* writes the row and then the copy, without a lock around the two; a      *)
(* start and an edit can be cut short by a crash anywhere between.         *)
(***************************************************************************)
EXTENDS Integers, FiniteSets

CONSTANTS
  Hosts, Keys,       \* hosts and the workload keys of their services
  Contents, Unset,   \* annotations, and no annotation
  Files, NoFile,     \* legacy state files, named by their digest
  LegacyNotes,       \* the annotations of each file
  Editors,           \* annotation requests that can be in flight at once
  MaxEdits, MaxStarts \* bounds

Cells == Hosts \X Keys
Notes == [Cells -> Contents \cup {Unset}]

ASSUME RegistryAssumption ==
  /\ Unset \notin Contents /\ NoFile \notin Files /\ LegacyNotes \in [Files -> Notes]
  /\ MaxEdits \in Nat /\ MaxStarts \in Nat

VARIABLES
  config,      \* the hosts of the private config file
  legacy,      \* the legacy file on disk, or none
  configured,  \* hosts rows with configured = 1
  hostRows,    \* all hosts rows
  rows,        \* annotations
  imports,     \* annotation_imports
  phase,       \* the Hub process
  agents,      \* MemStore.agents
  copy,        \* MemStore.anns
  edits,       \* Editors -> a request in SetAnnotation
  saved,       \* history: the last annotation of each cell saved by an edit alone in its cell
  tried,       \* history: contents of the edits of a cell begun since then
  raced,       \* history: cells whose last edits overlapped
  edited, started

files == <<config, legacy>>
hostTable == <<configured, hostRows>>
noteTables == <<rows, imports>>
memory == <<agents, copy>>
editHistory == <<saved, tried, raced>>
registryVars == <<files, hostTable, noteTables, phase, memory, edits, editHistory, edited, started>>

NoEdit == [stage |-> "idle", cell |-> <<>>, content |-> Unset, alone |-> FALSE]

(* A database may come from a Hub with another configuration.              *)
RegistryInit ==
  /\ config \in SUBSET Hosts
  /\ legacy = NoFile
  /\ hostRows \in SUBSET Hosts /\ configured \in SUBSET hostRows
  /\ rows = [c \in Cells |-> Unset] /\ imports = {}
  /\ phase = "down" /\ agents = {} /\ copy = [c \in Cells |-> Unset]
  /\ edits = [e \in Editors |-> NoEdit]
  /\ saved = [c \in Cells |-> Unset] /\ tried = [c \in Cells |-> {}] /\ raced = {}
  /\ edited = 0 /\ started = 0
-----------------------------------------------------------------------------
(* The operator changes the files of a stopped Hub.                        *)
Reconfigure ==
  /\ phase = "down"
  /\ \/ config' \in SUBSET Hosts /\ UNCHANGED legacy
     \/ legacy' \in Files \cup {NoFile} /\ UNCHANGED config
  /\ UNCHANGED <<hostTable, noteTables, phase, memory, edits, editHistory, edited, started>>

(* OpenSQLiteStore: SyncHosts and, with it, the Agents in memory.          *)
SetAgents ==
  /\ phase = "down" /\ started < MaxStarts
  /\ configured' = config /\ hostRows' = hostRows \cup config
  /\ agents' = config
  /\ phase' = "opened" /\ started' = started + 1
  /\ UNCHANGED <<files, noteTables, copy, edits, editHistory, edited>>

Reloaded(notes) == [c \in Cells |-> IF c[1] \in agents /\ notes[c] # Unset THEN notes[c] ELSE copy[c]]

ReloadAnnotations ==
  /\ phase = "opened"
  /\ copy' = Reloaded(rows)
  /\ phase' = "loaded"
  /\ UNCHANGED <<files, hostTable, noteTables, agents, edits, editHistory, edited, started>>

(* Mutant: the file wins over a row that exists.                           *)
ImportedOver(c) == IF c[1] \in agents /\ LegacyNotes[legacy][c] # Unset THEN LegacyNotes[legacy][c] ELSE rows[c]

(* ImportAnnotations: one transaction; a row that exists wins.             *)
Imported(c) == IF c[1] \in agents /\ rows[c] = Unset THEN LegacyNotes[legacy][c] ELSE rows[c]

ImportAnnotations ==
  IF legacy \in imports
  THEN UNCHANGED <<noteTables>>
  ELSE rows' = [c \in Cells |-> Imported(c)] /\ imports' = imports \cup {legacy}

(* Mutant: the copy is not reloaded after an import.                       *)
ImportUnloaded ==
  /\ phase = "loaded"
  /\ IF legacy = NoFile THEN UNCHANGED <<noteTables>> ELSE ImportAnnotations
  /\ phase' = "running"
  /\ UNCHANGED <<files, hostTable, agents, copy, edits, editHistory, edited, started>>

ImportLegacyState ==
  /\ phase = "loaded"
  /\ IF legacy = NoFile THEN UNCHANGED <<noteTables>> ELSE ImportAnnotations
  /\ copy' = IF imports' # imports THEN Reloaded(rows') ELSE copy
  /\ phase' = "running"
  /\ UNCHANGED <<files, hostTable, agents, edits, editHistory, edited, started>>

(* The process ends at any point; the requests in flight end with it.      *)
Stop ==
  /\ phase # "down"
  /\ phase' = "down" /\ agents' = {} /\ copy' = [c \in Cells |-> Unset]
  /\ edits' = [e \in Editors |-> NoEdit]
  /\ raced' = {}
  /\ UNCHANGED <<files, hostTable, noteTables, saved, tried, edited, started>>
-----------------------------------------------------------------------------
(* POST /api/annotation: the checks of the handler, the row, the copy.     *)
InFlight(c) == {e \in Editors : edits[e].stage # "idle" /\ edits[e].cell = c}

Annotate(e, c, content) ==
  /\ phase = "running" /\ edits[e] = NoEdit /\ edited < MaxEdits
  /\ c[1] \in agents
  /\ edits' = [d \in Editors |->
       IF d = e THEN [stage |-> "accepted", cell |-> c, content |-> content, alone |-> InFlight(c) = {}]
       ELSE [edits[d] EXCEPT !.alone = @ /\ d \notin InFlight(c)]]
  /\ raced' = IF InFlight(c) = {} THEN raced ELSE raced \cup {c}
  /\ tried' = [tried EXCEPT ![c] = @ \cup {content}]
  /\ edited' = edited + 1
  /\ UNCHANGED <<files, hostTable, noteTables, phase, memory, saved, started>>

UpsertAnnotation(e) ==
  /\ edits[e].stage = "accepted"
  /\ edits[e].cell[1] \in hostRows
  /\ rows' = [rows EXCEPT ![edits[e].cell] = edits[e].content]
  /\ edits' = [edits EXCEPT ![e].stage = "stored"]
  /\ UNCHANGED <<files, hostTable, imports, phase, memory, editHistory, edited, started>>

(* The statement fails, or the browser is gone: answered 500.              *)
UpsertFails(e) ==
  /\ edits[e].stage = "accepted"
  /\ edits' = [edits EXCEPT ![e] = NoEdit]
  /\ UNCHANGED <<files, hostTable, noteTables, phase, memory, editHistory, edited, started>>

SetAnnotation(e) ==
  LET c == edits[e].cell
  IN /\ edits[e].stage = "stored"
     /\ copy' = [copy EXCEPT ![c] = edits[e].content]
     /\ edits' = [edits EXCEPT ![e] = NoEdit]
     /\ IF edits[e].alone
        THEN /\ saved' = [saved EXCEPT ![c] = edits[e].content]
             /\ tried' = [tried EXCEPT ![c] = {}]
             /\ raced' = raced \ {c}
        ELSE UNCHANGED <<editHistory>>
     /\ UNCHANGED <<files, hostTable, noteTables, phase, agents, edited, started>>

RegistryNext ==
  \/ Reconfigure \/ SetAgents \/ ReloadAnnotations \/ ImportLegacyState \/ Stop
  \/ \E e \in Editors :
       \/ \E c \in Cells, content \in Contents : Annotate(e, c, content)
       \/ UpsertAnnotation(e) \/ UpsertFails(e) \/ SetAnnotation(e)

RegistrySpec == RegistryInit /\ [][RegistryNext]_registryVars
-----------------------------------------------------------------------------
(* What the pages show is what is stored: with no edit of a service on its *)
(* way, the copy in memory equals the row, through starts, imports and     *)
(* changes of the configuration, unless its last edits overlapped.         *)
CopyMatchesRows ==
  phase = "running" =>
    \A c \in Cells : c[1] \in agents /\ InFlight(c) = {} /\ c \notin raced => copy[c] = rows[c]

(* An annotation the operator saw saved stays until a later edit: no       *)
(* crash, import, or time a host spent outside the configuration takes it. *)
EditsSurvive ==
  \A c \in Cells : saved[c] # Unset => rows[c] \in {saved[c]} \cup tried[c]
=============================================================================
