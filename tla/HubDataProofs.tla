--------------------------- MODULE HubDataProofs ---------------------------
(***************************************************************************)
(* Proofs about what the Hub keeps besides events and operations: the      *)
(* annotations that the configuration and the editors both write           *)
(* (HostRegistry), the results of the link probes (LinkProbes), and the    *)
(* database through starts, backups and upgrades (HubUpgrade).             *)
(*                                                                         *)
(* In the first, what a restart would read is what was saved last; in the  *)
(* second, results belong to the holder of the lock; in the third,         *)
(* user_version counts the rows of the ledger in every file and every copy. *)
(***************************************************************************)
EXTENDS HostRegistry, LinkProbes, HubUpgrade, FiniteSetTheorems, SequenceTheorems, TLAPS
-----------------------------------------------------------------------------
(* The hosts and the annotations.                                          *)
(*                                                                         *)
(* A request in SetAnnotation is idle, or on its way with a service of a   *)
(* configured host and an annotation of it.                                *)
IsEdit(row) ==
  /\ DOMAIN row = DOMAIN NoEdit
  /\ row.stage \in {"idle", "accepted", "stored"} /\ row.alone \in BOOLEAN
  /\ row.stage # "idle" => row.cell \in Cells /\ row.content \in Contents

RegistryTypeOK ==
  /\ phase \in {"down", "opened", "loaded", "running"}
  /\ DOMAIN rows = Cells /\ DOMAIN copy = Cells
  /\ DOMAIN edits = Editors /\ \A e \in Editors : IsEdit(edits[e])
  /\ DOMAIN saved = Cells /\ \A c \in Cells : saved[c] \in Contents \cup {Unset}
  /\ DOMAIN tried = Cells /\ \A c \in Cells : tried[c] \subseteq Contents

(* Edits are made by a Hub that runs; the copy is empty until it is loaded. *)
PhaseInv ==
  /\ phase # "running" => (\A e \in Editors : edits[e].stage = "idle") /\ raced = {}
  /\ phase \in {"down", "opened"} => \A c \in Cells : copy[c] = Unset

OnItsWay(e) == edits[e].stage # "idle"

(* An edit that says it is alone in its cell is; one that is not has made  *)
(* its cell one of those that are left out.                                *)
AloneInv ==
  \A e \in Editors : OnItsWay(e) =>
    IF edits[e].alone
    THEN \A d \in Editors : OnItsWay(d) /\ edits[d].cell = edits[e].cell => d = e
    ELSE edits[e].cell \in raced

(* The row of an edit that is alone is its own from its statement on; what *)
(* is on its way has been tried.                                           *)
StoredInv ==
  \A e \in Editors :
    /\ edits[e].stage = "stored" /\ edits[e].alone => rows[edits[e].cell] = edits[e].content
    /\ OnItsWay(e) => edits[e].content \in tried[edits[e].cell]

(* The copy follows the row except between the two writes of an edit.      *)
CopyInv ==
  phase \in {"loaded", "running"} =>
    \A c \in Cells :
      c[1] \in agents /\ c \notin raced /\ (\A e \in Editors : edits[e].stage = "stored" => edits[e].cell # c)
      => copy[c] = rows[c]

RegistryInv == RegistryTypeOK /\ PhaseInv /\ AloneInv /\ StoredInv /\ CopyInv /\ EditsSurvive
-----------------------------------------------------------------------------
LEMMA RegistryInitInv == RegistryInit => RegistryInv
<1> SUFFICES ASSUME RegistryInit PROVE RegistryInv
  OBVIOUS
<1>1. IsEdit(NoEdit) /\ NoEdit.stage = "idle"
  BY DEF IsEdit, NoEdit
<1>2. DOMAIN edits = Editors /\ \A e \in Editors : edits[e] = NoEdit
  BY DEF RegistryInit
<1>3. DOMAIN rows = Cells /\ DOMAIN copy = Cells /\ DOMAIN saved = Cells /\ DOMAIN tried = Cells
  BY DEF RegistryInit
<1>4. \A c \in Cells : copy[c] = Unset /\ saved[c] = Unset /\ tried[c] = {}
  BY DEF RegistryInit
<1>5. RegistryTypeOK
  BY <1>1, <1>2, <1>3, <1>4 DEF RegistryInit, RegistryTypeOK
<1>6. PhaseInv /\ AloneInv /\ StoredInv /\ EditsSurvive
  BY <1>1, <1>2, <1>4 DEF RegistryInit, PhaseInv, AloneInv, OnItsWay, StoredInv, EditsSurvive
<1>7. CopyInv
  BY DEF RegistryInit, CopyInv
<1> QED BY <1>5, <1>6, <1>7 DEF RegistryInv

LEMMA ReconfigureInv ==
  ASSUME RegistryInv, Reconfigure
  PROVE  RegistryInv'
BY DEF Reconfigure, hostTable, noteTables, memory, editHistory, RegistryInv, RegistryTypeOK, IsEdit, PhaseInv,
       AloneInv, OnItsWay, StoredInv, CopyInv, EditsSurvive

LEMMA SetAgentsInv ==
  ASSUME RegistryInv, SetAgents
  PROVE  RegistryInv'
BY DEF SetAgents, files, noteTables, editHistory, RegistryInv, RegistryTypeOK, IsEdit, PhaseInv,
       AloneInv, OnItsWay, StoredInv, CopyInv, EditsSurvive

(* The copy of a cell after a reload.                                      *)
LEMMA ReloadedCell ==
  ASSUME NEW notes, NEW c \in Cells
  PROVE  /\ DOMAIN Reloaded(notes) = Cells
         /\ Reloaded(notes)[c] = IF c[1] \in agents /\ notes[c] # Unset THEN notes[c] ELSE copy[c]
BY DEF Reloaded

(* Every row is loaded over a copy that was empty.                         *)
LEMMA ReloadAnnotationsInv ==
  ASSUME RegistryInv, ReloadAnnotations
  PROVE  RegistryInv'
<1> USE DEF ReloadAnnotations, files, hostTable, noteTables, editHistory, RegistryInv
<1>1. RegistryTypeOK' /\ PhaseInv' /\ AloneInv' /\ StoredInv' /\ EditsSurvive'
  BY ReloadedCell DEF RegistryTypeOK, IsEdit, PhaseInv, AloneInv, OnItsWay, StoredInv, EditsSurvive, Reloaded
<1>2. CopyInv'
  BY ReloadedCell DEF CopyInv, PhaseInv
<1> QED BY <1>1, <1>2

(* A row that exists wins, and one that is imported is loaded at once.     *)
LEMMA ImportLegacyStateInv ==
  ASSUME RegistryInv, ImportLegacyState
  PROVE  RegistryInv'
<1> USE DEF RegistryInv
<1>1. UNCHANGED <<config, legacy, configured, hostRows, agents, edits, saved, tried, raced>> /\ phase' = "running"
      /\ phase = "loaded"
  BY DEF ImportLegacyState, files, hostTable, editHistory
<1>2. CASE UNCHANGED <<rows, imports>> /\ copy' = copy
  BY <1>1, <1>2 DEF RegistryTypeOK, IsEdit, PhaseInv, AloneInv, OnItsWay, StoredInv, EditsSurvive, CopyInv
<1>3. CASE rows' = [c \in Cells |-> Imported(c)] /\ copy' = Reloaded(rows')
  <2>1. DOMAIN rows' = Cells /\ DOMAIN copy' = Cells
    BY <1>3, ReloadedCell DEF Reloaded
  <2>2. ASSUME NEW c \in Cells, rows[c] # Unset
        PROVE  rows'[c] = rows[c]
    BY <1>3, <2>2 DEF Imported
  <2>3. ASSUME NEW c \in Cells, c[1] \in agents, copy[c] = rows[c]
        PROVE  copy'[c] = rows'[c]
    BY <1>3, <2>2, <2>3, ReloadedCell
  <2>4. RegistryTypeOK' /\ PhaseInv' /\ AloneInv'
    BY <1>1, <2>1 DEF RegistryTypeOK, IsEdit, PhaseInv, AloneInv, OnItsWay
  <2>5. StoredInv'
    BY <1>1 DEF StoredInv, PhaseInv, OnItsWay
  <2>6. CopyInv'
    BY <1>1, <2>3 DEF CopyInv
  <2>7. EditsSurvive'
    BY <1>1, <2>2, RegistryAssumption DEF EditsSurvive, RegistryTypeOK
  <2> QED BY <2>4, <2>5, <2>6, <2>7
<1> QED BY <1>2, <1>3 DEF ImportLegacyState, ImportAnnotations, noteTables

(* The requests in flight end with the process, the rows stay.             *)
LEMMA StopInv ==
  ASSUME RegistryInv, Stop
  PROVE  RegistryInv'
BY DEF Stop, files, hostTable, noteTables, RegistryInv, RegistryTypeOK, IsEdit, NoEdit, PhaseInv,
       AloneInv, OnItsWay, StoredInv, CopyInv, EditsSurvive

(* A new request: those that were on their way in its cell are no longer   *)
(* alone, and it is alone itself when there were none.                     *)
LEMMA AnnotateInv ==
  ASSUME RegistryInv, NEW e \in Editors, NEW c \in Cells, NEW content \in Contents, Annotate(e, c, content)
  PROVE  RegistryInv'
<1> USE DEF RegistryInv
<1> DEFINE row == [stage |-> "accepted", cell |-> c, content |-> content, alone |-> InFlight(c) = {}]
           other(d) == [edits[d] EXCEPT !.alone = @ /\ d \notin InFlight(c)]
<1>1. UNCHANGED <<config, legacy, configured, hostRows, rows, imports, phase, agents, copy, saved>>
      /\ phase = "running" /\ edits[e].stage = "idle"
  BY DEF Annotate, files, hostTable, noteTables, memory, NoEdit
<1>2. DOMAIN edits' = Editors /\ edits'[e] = row /\ \A d \in Editors \ {e} : edits'[d] = other(d)
  BY DEF Annotate
<1>3. IsEdit(row) /\ row.stage = "accepted" /\ row.cell = c /\ row.content = content
      /\ (row.alone <=> InFlight(c) = {})
  BY DEF IsEdit, NoEdit
<1>4. ASSUME NEW d \in Editors
      PROVE  /\ IsEdit(other(d)) /\ other(d).stage = edits[d].stage /\ other(d).cell = edits[d].cell
             /\ other(d).content = edits[d].content
             /\ (other(d).alone <=> edits[d].alone /\ d \notin InFlight(c))
  BY DEF IsEdit, NoEdit, RegistryTypeOK
<1>5. DOMAIN tried' = Cells /\ tried'[c] = tried[c] \cup {content} /\ \A b \in Cells \ {c} : tried'[b] = tried[b]
  BY DEF Annotate, RegistryTypeOK
<1>6. raced \subseteq raced' /\ (InFlight(c) # {} => c \in raced')
  BY DEF Annotate
<1> HIDE DEF row, other
<1>7. RegistryTypeOK'
  BY <1>1, <1>2, <1>3, <1>4, <1>5 DEF RegistryTypeOK
<1>8. PhaseInv'
  BY <1>1 DEF PhaseInv
<1>9. AloneInv'
  <2> SUFFICES ASSUME NEW d \in Editors, OnItsWay(d)'
               PROVE  IF edits'[d].alone
                      THEN \A x \in Editors : OnItsWay(x)' /\ edits'[x].cell = edits'[d].cell => x = d
                      ELSE edits'[d].cell \in raced'
    BY DEF AloneInv
  <2>1. CASE d = e
    <3>1. CASE InFlight(c) = {}
      <4>1. \A x \in Editors : OnItsWay(x) => edits[x].cell # c
        BY <3>1 DEF InFlight, OnItsWay
      <4> QED BY <2>1, <3>1, <4>1, <1>2, <1>3, <1>4 DEF OnItsWay
    <3>2. CASE InFlight(c) # {}
      BY <2>1, <3>2, <1>2, <1>3, <1>6
    <3> QED BY <3>1, <3>2
  <2>2. CASE d # e
    <3>1. OnItsWay(d) /\ edits'[d].cell = edits[d].cell
          /\ (edits'[d].alone <=> edits[d].alone /\ d \notin InFlight(c))
      BY <2>2, <1>2, <1>4 DEF OnItsWay
    <3>2. CASE edits'[d].alone
      <4>1. edits[d].alone /\ edits[d].cell # c
        BY <3>1, <3>2 DEF InFlight, OnItsWay
      <4>2. \A x \in Editors : OnItsWay(x) /\ edits[x].cell = edits[d].cell => x = d
        BY <3>1, <4>1 DEF AloneInv
      <4> QED BY <3>1, <3>2, <4>1, <4>2, <1>2, <1>3, <1>4 DEF OnItsWay
    <3>3. CASE ~edits'[d].alone
      <4>1. CASE edits[d].alone
        <5>1. d \in InFlight(c) /\ edits[d].cell = c
          BY <3>1, <3>3, <4>1 DEF InFlight
        <5> QED BY <5>1, <3>1, <3>3, <1>6
      <4>2. CASE ~edits[d].alone
        BY <3>1, <3>3, <4>2, <1>6 DEF AloneInv
      <4> QED BY <4>1, <4>2
    <3> QED BY <3>2, <3>3
  <2> QED BY <2>1, <2>2
<1>10. StoredInv'
  <2> SUFFICES ASSUME NEW d \in Editors
               PROVE  /\ edits'[d].stage = "stored" /\ edits'[d].alone => rows'[edits'[d].cell] = edits'[d].content
                      /\ OnItsWay(d)' => edits'[d].content \in tried'[edits'[d].cell]
    BY DEF StoredInv
  <2>1. CASE d = e
    BY <2>1, <1>2, <1>3, <1>5 DEF OnItsWay
  <2>2. CASE d # e
    <3>1. OnItsWay(d) => edits[d].cell \in Cells
      BY DEF RegistryTypeOK, IsEdit, OnItsWay
    <3>2. /\ edits[d].stage = "stored" /\ edits[d].alone => rows[edits[d].cell] = edits[d].content
          /\ OnItsWay(d) => edits[d].content \in tried[edits[d].cell]
      BY DEF StoredInv
    <3>3. OnItsWay(d) => edits[d].content \in tried'[edits[d].cell]
      BY <3>1, <3>2, <1>5
    <3> QED BY <2>2, <3>2, <3>3, <1>1, <1>2, <1>4 DEF OnItsWay
  <2> QED BY <2>1, <2>2
<1>11. CopyInv'
  <2>1. ASSUME NEW b \in Cells, \A d \in Editors : edits'[d].stage = "stored" => edits'[d].cell # b
        PROVE  \A d \in Editors : edits[d].stage = "stored" => edits[d].cell # b
    BY <2>1, <1>1, <1>2, <1>4
  <2> QED BY <2>1, <1>1, <1>6 DEF CopyInv
<1>12. EditsSurvive'
  BY <1>1, <1>5 DEF EditsSurvive
<1> QED BY <1>7, <1>8, <1>9, <1>10, <1>11, <1>12

(* One request takes a step and the others do not.                         *)
LEMMA EditorStep ==
  ASSUME RegistryTypeOK, NEW e \in Editors, NEW row, IsEdit(row), edits' = [edits EXCEPT ![e] = row]
  PROVE  /\ DOMAIN edits' = Editors /\ edits'[e] = row
         /\ \A d \in Editors \ {e} : edits'[d] = edits[d]
         /\ \A d \in Editors : IsEdit(edits'[d])
BY DEF RegistryTypeOK

(* The row is written: it is the edit's own if the edit is alone.          *)
LEMMA UpsertAnnotationInv ==
  ASSUME RegistryInv, NEW e \in Editors, UpsertAnnotation(e)
  PROVE  RegistryInv'
<1> USE DEF RegistryInv
<1> DEFINE row == [edits[e] EXCEPT !.stage = "stored"]
           c == edits[e].cell
<1>1. /\ IsEdit(row) /\ row.stage = "stored" /\ row.cell = c /\ row.content = edits[e].content
      /\ row.alone = edits[e].alone /\ edits[e].stage = "accepted" /\ c \in Cells /\ edits[e].content \in Contents
  BY DEF UpsertAnnotation, IsEdit, NoEdit, RegistryTypeOK
<1>2. edits' = [edits EXCEPT ![e] = row]
  BY DEF UpsertAnnotation
<1>3. UNCHANGED <<config, legacy, configured, hostRows, imports, phase, agents, copy, saved, tried, raced>>
  BY DEF UpsertAnnotation, files, hostTable, memory, editHistory
<1>4. DOMAIN rows' = Cells /\ rows'[c] = edits[e].content /\ \A b \in Cells \ {c} : rows'[b] = rows[b]
  BY <1>1 DEF UpsertAnnotation, RegistryTypeOK
<1> HIDE DEF row, c
<1>5. /\ DOMAIN edits' = Editors /\ edits'[e] = row
      /\ \A d \in Editors \ {e} : edits'[d] = edits[d]
      /\ \A d \in Editors : IsEdit(edits'[d])
  BY <1>1, <1>2, EditorStep
<1>6. ASSUME NEW d \in Editors
      PROVE  /\ edits'[d].cell = edits[d].cell /\ edits'[d].content = edits[d].content
             /\ edits'[d].alone = edits[d].alone /\ (OnItsWay(d)' <=> OnItsWay(d))
  BY <1>1, <1>5 DEF OnItsWay, c
<1>7. RegistryTypeOK' /\ PhaseInv'
  BY <1>1, <1>3, <1>4, <1>5 DEF RegistryTypeOK, PhaseInv
<1>8. AloneInv'
  BY <1>3, <1>6 DEF AloneInv
<1>9. StoredInv'
  <2> SUFFICES ASSUME NEW d \in Editors
               PROVE  /\ edits'[d].stage = "stored" /\ edits'[d].alone => rows'[edits'[d].cell] = edits'[d].content
                      /\ OnItsWay(d)' => edits'[d].content \in tried'[edits'[d].cell]
    BY DEF StoredInv
  <2>1. OnItsWay(d)' => edits'[d].content \in tried'[edits'[d].cell]
    BY <1>3, <1>6 DEF StoredInv
  <2>2. CASE d = e
    BY <2>1, <2>2, <1>1, <1>4, <1>5
  <2>3. CASE d # e /\ edits[d].stage = "stored" /\ edits[d].alone
    <3>1. edits[d].cell # c /\ edits[d].cell \in Cells
      BY <2>3, <1>1 DEF AloneInv, OnItsWay, RegistryTypeOK, IsEdit, c
    <3> QED BY <2>1, <2>3, <3>1, <1>4, <1>6 DEF StoredInv
  <2>4. CASE d # e /\ ~(edits[d].stage = "stored" /\ edits[d].alone)
    BY <2>1, <2>4, <1>5
  <2> QED BY <2>2, <2>3, <2>4
<1>10. CopyInv'
  <2>1. ASSUME NEW b \in Cells, \A d \in Editors : edits'[d].stage = "stored" => edits'[d].cell # b
        PROVE  b # c /\ \A d \in Editors : edits[d].stage = "stored" => edits[d].cell # b
    BY <2>1, <1>1, <1>5, <1>6
  <2> QED BY <2>1, <1>3, <1>4 DEF CopyInv
<1>11. EditsSurvive'
  BY <1>1, <1>3, <1>4 DEF EditsSurvive, StoredInv, OnItsWay, c
<1> QED BY <1>7, <1>8, <1>9, <1>10, <1>11

(* A request that ends without having written leaves nothing.              *)
LEMMA UpsertFailsInv ==
  ASSUME RegistryInv, NEW e \in Editors, UpsertFails(e)
  PROVE  RegistryInv'
<1> USE DEF RegistryInv
<1>1. IsEdit(NoEdit) /\ NoEdit.stage = "idle" /\ edits[e].stage = "accepted"
  BY DEF IsEdit, NoEdit, UpsertFails
<1>2. edits' = [edits EXCEPT ![e] = NoEdit]
  BY DEF UpsertFails
<1>3. UNCHANGED <<config, legacy, configured, hostRows, rows, imports, phase, agents, copy, saved, tried, raced>>
  BY DEF UpsertFails, files, hostTable, noteTables, memory, editHistory
<1>4. /\ DOMAIN edits' = Editors /\ edits'[e] = NoEdit
      /\ \A d \in Editors \ {e} : edits'[d] = edits[d]
      /\ \A d \in Editors : IsEdit(edits'[d])
  BY <1>1, <1>2, EditorStep
<1>5. RegistryTypeOK' /\ PhaseInv' /\ EditsSurvive'
  BY <1>1, <1>3, <1>4 DEF RegistryTypeOK, PhaseInv, EditsSurvive
<1>6. AloneInv'
  BY <1>1, <1>3, <1>4 DEF AloneInv, OnItsWay
<1>7. StoredInv'
  BY <1>1, <1>3, <1>4 DEF StoredInv, OnItsWay
<1>8. CopyInv'
  <2>1. ASSUME NEW b \in Cells, \A d \in Editors : edits'[d].stage = "stored" => edits'[d].cell # b
        PROVE  \A d \in Editors : edits[d].stage = "stored" => edits[d].cell # b
    BY <2>1, <1>1, <1>4
  <2> QED BY <2>1, <1>3 DEF CopyInv
<1> QED BY <1>5, <1>6, <1>7, <1>8

(* The copy is written.  An edit that was alone leaves row and copy equal, *)
(* whatever happened in its cell before.                                   *)
LEMMA SetAnnotationInv ==
  ASSUME RegistryInv, NEW e \in Editors, SetAnnotation(e)
  PROVE  RegistryInv'
<1> USE DEF RegistryInv
<1> DEFINE c == edits[e].cell
<1>1. /\ IsEdit(NoEdit) /\ NoEdit.stage = "idle" /\ edits[e].stage = "stored" /\ c \in Cells
      /\ edits[e].content \in Contents /\ edits[e].content \in tried[c] /\ OnItsWay(e)
  BY DEF IsEdit, NoEdit, SetAnnotation, RegistryTypeOK, StoredInv, OnItsWay
<1>2. edits' = [edits EXCEPT ![e] = NoEdit]
  BY DEF SetAnnotation
<1>3. UNCHANGED <<config, legacy, configured, hostRows, rows, imports, phase, agents>>
  BY DEF SetAnnotation, files, hostTable, noteTables
<1>4. DOMAIN copy' = Cells /\ copy'[c] = edits[e].content /\ \A b \in Cells \ {c} : copy'[b] = copy[b]
  BY <1>1 DEF SetAnnotation, RegistryTypeOK
<1>5. /\ DOMAIN edits' = Editors /\ edits'[e] = NoEdit
      /\ \A d \in Editors \ {e} : edits'[d] = edits[d]
      /\ \A d \in Editors : IsEdit(edits'[d])
  BY <1>1, <1>2, EditorStep
<1>6. PhaseInv'
  BY <1>1, <1>3 DEF PhaseInv, RegistryTypeOK
<1>7. ASSUME NEW b \in Cells, \A d \in Editors : edits'[d].stage = "stored" => edits'[d].cell # b
      PROVE  b # c => \A d \in Editors : edits[d].stage = "stored" => edits[d].cell # b
  BY <1>7, <1>1, <1>5
<1>8. CASE ~edits[e].alone
  <2>1. UNCHANGED <<saved, tried, raced>> /\ c \in raced
    BY <1>8, <1>1 DEF SetAnnotation, editHistory, AloneInv
  <2> HIDE DEF c
  <2>2. RegistryTypeOK' /\ EditsSurvive'
    BY <2>1, <1>3, <1>4, <1>5 DEF RegistryTypeOK, EditsSurvive
  <2>3. AloneInv'
    BY <2>1, <1>1, <1>5 DEF AloneInv, OnItsWay
  <2>4. StoredInv'
    BY <2>1, <1>1, <1>3, <1>5 DEF StoredInv, OnItsWay
  <2>5. CopyInv'
    BY <2>1, <1>3, <1>4, <1>7 DEF CopyInv
  <2> QED BY <2>2, <2>3, <2>4, <2>5, <1>6
<1>9. CASE edits[e].alone
  <2>1. /\ saved' = [saved EXCEPT ![c] = edits[e].content]
        /\ tried' = [tried EXCEPT ![c] = {}]
        /\ raced' = raced \ {c}
    BY <1>9 DEF SetAnnotation
  <2>2. /\ DOMAIN saved' = Cells /\ saved'[c] = edits[e].content /\ \A b \in Cells \ {c} : saved'[b] = saved[b]
        /\ DOMAIN tried' = Cells /\ tried'[c] = {} /\ \A b \in Cells \ {c} : tried'[b] = tried[b]
    BY <2>1, <1>1 DEF RegistryTypeOK
  <2>3. rows[c] = edits[e].content
    BY <1>1, <1>9 DEF StoredInv
  <2>4. ASSUME NEW d \in Editors, OnItsWay(d)'
        PROVE  /\ d # e /\ edits'[d] = edits[d] /\ OnItsWay(d) /\ edits[d].cell \in Cells \ {c}
    <3>1. d # e /\ edits'[d] = edits[d] /\ OnItsWay(d)
      BY <2>4, <1>1, <1>5 DEF OnItsWay
    <3>2. edits[d].cell # c
      BY <3>1, <1>1, <1>9 DEF AloneInv
    <3> QED BY <3>1, <3>2 DEF RegistryTypeOK, IsEdit, OnItsWay
  <2>5. raced' = raced \ {c}
    BY <2>1
  <2> HIDE DEF c
  <2>6. RegistryTypeOK'
    BY <2>2, <1>1, <1>3, <1>4, <1>5 DEF RegistryTypeOK
  <2>7. AloneInv'
    BY <2>4, <2>5 DEF AloneInv
  <2>8. StoredInv'
    <3> SUFFICES ASSUME NEW d \in Editors, OnItsWay(d)'
                 PROVE  /\ edits'[d].stage = "stored" /\ edits'[d].alone => rows'[edits'[d].cell] = edits'[d].content
                        /\ edits'[d].content \in tried'[edits'[d].cell]
      BY DEF StoredInv, OnItsWay
    <3> QED BY <2>2, <2>4, <1>3 DEF StoredInv
  <2>9. CopyInv'
    BY <2>3, <2>5, <1>3, <1>4, <1>7 DEF CopyInv
  <2>10. EditsSurvive'
    BY <2>2, <2>3, <1>3 DEF EditsSurvive
  <2> QED BY <2>6, <2>7, <2>8, <2>9, <2>10, <1>6
<1> QED BY <1>8, <1>9

(* Row and copy agree wherever no edit is between its two writes, and the  *)
(* last edit that was alone is what is stored or was tried over since.     *)
THEOREM RegistryInvariant == RegistrySpec => []RegistryInv
<1>1. ASSUME RegistryInv, [RegistryNext]_registryVars
      PROVE  RegistryInv'
  <2>1. CASE RegistryNext
    BY <1>1, <2>1, ReconfigureInv, SetAgentsInv, ReloadAnnotationsInv, ImportLegacyStateInv, StopInv,
       AnnotateInv, UpsertAnnotationInv, UpsertFailsInv, SetAnnotationInv DEF RegistryNext
  <2>2. CASE UNCHANGED registryVars
    BY <1>1, <2>2
    DEF registryVars, files, hostTable, noteTables, memory, editHistory, RegistryInv, RegistryTypeOK, IsEdit,
        PhaseInv, AloneInv, OnItsWay, StoredInv, CopyInv, EditsSurvive
  <2> QED BY <1>1, <2>1, <2>2
<1> QED BY <1>1, RegistryInitInv, PTL DEF RegistrySpec

(* What the pages show of a service is what is stored, with no edit of it  *)
(* on its way and unless its last edits overlapped.                        *)
THEOREM CopyIsStored == RegistrySpec => []CopyMatchesRows
<1>1. RegistryInv => CopyMatchesRows
  <2> SUFFICES ASSUME RegistryInv, phase = "running", NEW c \in Cells,
                      c[1] \in agents, InFlight(c) = {}, c \notin raced
               PROVE  copy[c] = rows[c]
    BY DEF CopyMatchesRows
  <2>1. \A e \in Editors : edits[e].stage = "stored" => edits[e].cell # c
    BY DEF InFlight
  <2> QED BY <2>1 DEF RegistryInv, CopyInv
<1> QED BY <1>1, RegistryInvariant, PTL

(* An annotation that was saved stays until a later edit of its service.   *)
THEOREM SavedEditsStay == RegistrySpec => []EditsSurvive
<1>1. RegistryInv => EditsSurvive
  BY DEF RegistryInv
<1> QED BY <1>1, RegistryInvariant, PTL
-----------------------------------------------------------------------------
(* The probes of the links.                                                *)
(*                                                                         *)
(* A request has the targets and results of its own probing.               *)
IsRequest(row) ==
  /\ DOMAIN row = DOMAIN Fresh
  /\ row.stage \in {"new", "refused", "probing", "answered"}
  /\ row.targets \subseteq Targets
  /\ DOMAIN row.result = Targets

RequestTypeOK ==
  /\ probeMu \in Requests \cup {"free"}
  /\ DOMAIN requests = Requests /\ \A r \in Requests : IsRequest(requests[r])

(* Only the holder of the lock probes, and only it has results.            *)
LockInv ==
  \A r \in Requests :
    /\ requests[r].stage = "probing" <=> probeMu = r
    /\ requests[r].stage # "probing" => \A t \in Targets : requests[r].result[t] = "none"

(* No more than the pool allows are out, counted.                          *)
PoolInv ==
  \A r \in Requests : IsFiniteSet(Probing(r)) /\ Cardinality(Probing(r)) <= Concurrency

(* The stored set is one answered request's, one state for each of its     *)
(* targets; what that request had as targets does not change any more.     *)
RecordInv ==
  /\ \A c \in checks : c.by \in Requests /\ requests[c.by].stage = "answered"
  /\ \A c, d \in checks : c.by = d.by /\ (c.target = d.target => c = d)
  /\ \A c \in checks : {d.target : d \in checks} = requests[c.by].targets

ProbeInv == RequestTypeOK /\ LockInv /\ PoolInv /\ RecordInv
-----------------------------------------------------------------------------
LEMMA ProbeInitInv == ProbeInit => ProbeInv
<1> SUFFICES ASSUME ProbeInit PROVE ProbeInv
  OBVIOUS
<1>1. IsRequest(Fresh) /\ Fresh.stage = "new" /\ \A t \in Targets : Fresh.result[t] = "none"
  BY DEF IsRequest, Fresh
<1>2. DOMAIN requests = Requests /\ \A r \in Requests : requests[r] = Fresh
  BY DEF ProbeInit
<1>3. ASSUME NEW r \in Requests
      PROVE  Probing(r) = {}
  BY <1>1, <1>2 DEF Probing
<1>4. PoolInv
  BY <1>3, FS_EmptySet, ProbeAssumption DEF PoolInv
<1>5. RequestTypeOK
  BY <1>1, <1>2 DEF ProbeInit, RequestTypeOK
<1>6. LockInv
  BY <1>1, <1>2, ProbeAssumption DEF ProbeInit, LockInv
<1>7. RecordInv
  BY DEF ProbeInit, RecordInv
<1> QED BY <1>4, <1>5, <1>6, <1>7 DEF ProbeInv

(* A step of one request, which stores nothing: whether it holds the lock  *)
(* afterwards, and how many of its probes are out.                         *)
LEMMA RequestStep ==
  ASSUME ProbeInv, NEW r \in Requests, NEW row, IsRequest(row),
         requests' = [requests EXCEPT ![r] = row], checks' = checks,
         row.stage = "answered" <=> requests[r].stage = "answered",
         row.stage = "answered" => row.targets = requests[r].targets,
         \/ probeMu' = probeMu /\ (row.stage = "probing" <=> requests[r].stage = "probing")
         \/ probeMu = "free" /\ probeMu' = r /\ row.stage = "probing",
         row.stage # "probing" => \A t \in Targets : row.result[t] = "none",
         IsFiniteSet({t \in Targets : row.result[t] = "probing"}),
         Cardinality({t \in Targets : row.result[t] = "probing"}) <= Concurrency
  PROVE  ProbeInv'
<1> USE DEF ProbeInv
<1>1. DOMAIN requests' = Requests /\ requests'[r] = row /\ \A q \in Requests \ {r} : requests'[q] = requests[q]
  BY DEF RequestTypeOK
<1>2. RequestTypeOK'
  BY <1>1 DEF RequestTypeOK
<1>3. LockInv'
  <2> SUFFICES ASSUME NEW q \in Requests
               PROVE  /\ requests'[q].stage = "probing" <=> probeMu' = q
                      /\ requests'[q].stage # "probing" => \A t \in Targets : requests'[q].result[t] = "none"
    BY DEF LockInv
  <2>1. requests[q].stage = "probing" <=> probeMu = q
    BY DEF LockInv
  <2>2. requests[q].stage # "probing" => \A t \in Targets : requests[q].result[t] = "none"
    BY DEF LockInv
  <2>3. CASE q = r
    BY <1>1, <2>1, <2>3
  <2>4. CASE q # r
    <3>1. requests'[q] = requests[q]
      BY <1>1, <2>4
    <3>2. requests[q].stage = "probing" <=> probeMu' = q
      BY <2>1, <2>4, ProbeAssumption
    <3> QED BY <2>2, <3>1, <3>2
  <2> QED BY <2>3, <2>4
<1>4. PoolInv'
  <2> SUFFICES ASSUME NEW q \in Requests
               PROVE  IsFiniteSet(Probing(q)') /\ Cardinality(Probing(q)') <= Concurrency
    BY DEF PoolInv
  <2>1. CASE q = r
    <3>1. Probing(q)' = {t \in Targets : row.result[t] = "probing"}
      BY <1>1, <2>1 DEF Probing
    <3> QED BY <3>1
  <2>2. CASE q # r
    <3>1. Probing(q)' = Probing(q)
      BY <1>1, <2>2 DEF Probing
    <3> QED BY <3>1 DEF PoolInv
  <2> QED BY <2>1, <2>2
<1>5. RecordInv'
  <2>1. ASSUME NEW c \in checks
        PROVE  /\ c.by \in Requests /\ requests'[c.by].stage = "answered"
               /\ requests'[c.by].targets = requests[c.by].targets
    <3>1. c.by \in Requests /\ requests[c.by].stage = "answered"
      BY DEF RecordInv
    <3> QED BY <3>1, <1>1
  <2> QED BY <2>1 DEF RecordInv
<1> QED BY <1>2, <1>3, <1>4, <1>5

(* POST: the holder of the lock is the only one with queued links, and     *)
(* none of them is out yet.                                                *)
LEMMA StartProbeInv ==
  ASSUME ProbeInv, NEW r \in Requests, StartProbe(r)
  PROVE  ProbeInv'
<1>1. IsRequest(requests[r]) /\ requests[r].stage = "new" /\ requests[r].stage # "probing" /\ checks' = checks
  BY DEF ProbeInv, RequestTypeOK, StartProbe
<1>2. \A t \in Targets : requests[r].result[t] = "none"
  BY <1>1 DEF ProbeInv, LockInv
<1>3. CASE probeMu # "free" \/ Cardinality(CurrentWebLinkTargets) > MaxTargets
  <2> DEFINE row == [requests[r] EXCEPT !.stage = "refused"]
  <2>1. /\ IsRequest(row) /\ row.stage = "refused" /\ row.result = requests[r].result
    BY <1>1 DEF IsRequest, Fresh
  <2>2. requests' = [requests EXCEPT ![r] = row] /\ probeMu' = probeMu
    BY <1>3 DEF StartProbe
  <2> HIDE DEF row
  <2>3. {t \in Targets : row.result[t] = "probing"} = {}
    BY <2>1, <1>2
  <2>4. /\ IsFiniteSet({t \in Targets : row.result[t] = "probing"})
        /\ Cardinality({t \in Targets : row.result[t] = "probing"}) <= Concurrency
    BY <2>3, FS_EmptySet, ProbeAssumption
  <2> QED BY <1>1, <1>2, <2>1, <2>2, <2>4, RequestStep
<1>4. CASE probeMu = "free" /\ ~(Cardinality(CurrentWebLinkTargets) > MaxTargets)
  <2> DEFINE result == [t \in Targets |-> IF t \in CurrentWebLinkTargets THEN "queued" ELSE "none"]
             row == [requests[r] EXCEPT !.stage = "probing", !.targets = CurrentWebLinkTargets, !.result = result]
  <2>1. CurrentWebLinkTargets \subseteq Targets
    BY DEF CurrentWebLinkTargets
  <2>2. DOMAIN result = Targets /\ \A t \in Targets : result[t] # "probing"
    OBVIOUS
  <2>3. requests' = [requests EXCEPT ![r] = row] /\ probeMu' = r
    BY <1>4 DEF StartProbe
  <2> HIDE DEF result
  <2>4. /\ IsRequest(row) /\ row.stage = "probing" /\ row.result = result
    BY <1>1, <2>1, <2>2 DEF IsRequest, Fresh
  <2> HIDE DEF row
  <2>5. {t \in Targets : row.result[t] = "probing"} = {}
    BY <2>2, <2>4
  <2>6. /\ IsFiniteSet({t \in Targets : row.result[t] = "probing"})
        /\ Cardinality({t \in Targets : row.result[t] = "probing"}) <= Concurrency
    BY <2>5, FS_EmptySet, ProbeAssumption
  <2> QED BY <1>1, <1>4, <2>3, <2>4, <2>6, RequestStep
<1> QED BY <1>3, <1>4 DEF StartProbe

(* A result of one link: the probes that are out stay within the pool.     *)
LEMMA ResultStep ==
  ASSUME ProbeInv, NEW r \in Requests, NEW t \in Targets, NEW state,
         requests[r].result[t] \in {"queued", "probing"}, Result(r, t, state),
         state = "probing" => Cardinality(Probing(r)) < Concurrency,
         probeMu' = probeMu, checks' = checks
  PROVE  ProbeInv'
<1> DEFINE row == [requests[r] EXCEPT !.result[t] = state]
           out == {x \in Targets : row.result[x] = "probing"}
<1>1. IsRequest(requests[r]) /\ requests[r].stage = "probing"
  BY DEF ProbeInv, RequestTypeOK, LockInv
<1>2. /\ IsRequest(row) /\ row.stage = "probing" /\ row.targets = requests[r].targets
      /\ row.result = [requests[r].result EXCEPT ![t] = state]
  BY <1>1 DEF IsRequest, Fresh
<1>3. requests' = [requests EXCEPT ![r] = row]
  BY DEF Result
<1>4. DOMAIN requests[r].result = Targets
  BY <1>1 DEF IsRequest
<1> HIDE DEF row
<1>5. row.result[t] = state /\ \A x \in Targets \ {t} : row.result[x] = requests[r].result[x]
  BY <1>2, <1>4
<1>6. IsFiniteSet(Probing(r)) /\ Cardinality(Probing(r)) <= Concurrency /\ Cardinality(Probing(r)) \in Nat
  BY FS_CardinalityType DEF ProbeInv, PoolInv
<1>7. IsFiniteSet(out) /\ Cardinality(out) <= Concurrency
  <2>1. CASE state = "probing"
    <3>1. out = Probing(r) \cup {t}
      BY <1>5, <2>1 DEF Probing
    <3> HIDE DEF out
    <3>2. /\ IsFiniteSet(Probing(r) \cup {t})
          /\ Cardinality(Probing(r) \cup {t}) \in {Cardinality(Probing(r)), Cardinality(Probing(r)) + 1}
      BY <1>6, FS_AddElement
    <3>3. Cardinality(Probing(r)) < Concurrency
      BY <2>1
    <3> QED BY <3>1, <3>2, <3>3, <1>6, ProbeAssumption
  <2>2. CASE state # "probing"
    <3>1. out \subseteq Probing(r)
      BY <1>5, <2>2 DEF Probing
    <3>2. IsFiniteSet(out) /\ Cardinality(out) <= Cardinality(Probing(r)) /\ Cardinality(out) \in Nat
      BY <3>1, <1>6, FS_Subset, FS_CardinalityType
    <3> HIDE DEF out
    <3> QED BY <3>2, <1>6, ProbeAssumption
  <2> QED BY <2>1, <2>2
<1> QED BY <1>1, <1>2, <1>3, <1>7, RequestStep

(* The end of the context changes what the next answers can be, no more.   *)
LEMMA ContextEndsInv ==
  ASSUME ProbeInv, NEW r \in Requests, BudgetEnds(r) \/ BrowserLeaves(r)
  PROVE  ProbeInv'
<1> DEFINE after(row) == /\ IsRequest(row) /\ row.stage = "probing" /\ row.targets = requests[r].targets
                         /\ row.result = requests[r].result
<1>1. /\ IsRequest(requests[r]) /\ requests[r].stage = "probing" /\ probeMu' = probeMu /\ checks' = checks
      /\ IsFiniteSet(Probing(r)) /\ Cardinality(Probing(r)) <= Concurrency
  BY DEF ProbeInv, RequestTypeOK, PoolInv, BudgetEnds, BrowserLeaves
<1>2. PICK row : after(row) /\ requests' = [requests EXCEPT ![r] = row]
  <2>1. CASE BudgetEnds(r)
    <3> DEFINE row == [requests[r] EXCEPT !.budget = FALSE]
    <3>1. after(row)
      BY <1>1 DEF IsRequest, Fresh
    <3>2. requests' = [requests EXCEPT ![r] = row]
      BY <2>1 DEF BudgetEnds
    <3> HIDE DEF row, after
    <3> QED BY <3>1, <3>2
  <2>2. CASE BrowserLeaves(r)
    <3> DEFINE row == [requests[r] EXCEPT !.waiting = FALSE]
    <3>1. after(row)
      BY <1>1 DEF IsRequest, Fresh
    <3>2. requests' = [requests EXCEPT ![r] = row]
      BY <2>2 DEF BrowserLeaves
    <3> HIDE DEF row, after
    <3> QED BY <3>1, <3>2
  <2> QED BY <2>1, <2>2
<1>3. {t \in Targets : row.result[t] = "probing"} = Probing(r)
  BY <1>2 DEF Probing
<1>4. /\ IsFiniteSet({t \in Targets : row.result[t] = "probing"})
      /\ Cardinality({t \in Targets : row.result[t] = "probing"}) <= Concurrency
  BY <1>1, <1>3
<1> QED BY <1>1, <1>2, <1>4, RequestStep

(* The transaction: all of one request's answers, or what was stored; the  *)
(* lock is free.                                                           *)
LEMMA ReplaceWebLinkChecksInv ==
  ASSUME ProbeInv, NEW r \in Requests, ReplaceWebLinkChecks(r)
  PROVE  ProbeInv'
<1> USE DEF ProbeInv
<1> DEFINE result == [t \in Targets |-> "none"]
           row == [requests[r] EXCEPT !.stage = "answered", !.result = result]
           answer == {[target |-> t, state |-> requests[r].result[t], by |-> r] : t \in requests[r].targets}
<1>1. IsRequest(requests[r]) /\ requests[r].stage = "probing" /\ probeMu = r /\ probeMu' = "free"
  BY DEF RequestTypeOK, LockInv, ReplaceWebLinkChecks
<1>2. requests' = [requests EXCEPT ![r] = row]
  BY DEF ReplaceWebLinkChecks
<1>3. checks' = checks \/ checks' = answer
  BY DEF ReplaceWebLinkChecks
<1>4. DOMAIN result = Targets /\ \A t \in Targets : result[t] = "none"
  OBVIOUS
<1> HIDE DEF result
<1>5. IsRequest(row) /\ row.stage = "answered" /\ row.targets = requests[r].targets /\ row.result = result
  BY <1>1, <1>4 DEF IsRequest, Fresh
<1> HIDE DEF row
<1>6. DOMAIN requests' = Requests /\ requests'[r] = row /\ \A q \in Requests \ {r} : requests'[q] = requests[q]
  BY <1>2 DEF RequestTypeOK
<1>7. RequestTypeOK'
  BY <1>1, <1>5, <1>6 DEF RequestTypeOK
<1>8. LockInv'
  <2>1. ASSUME NEW q \in Requests \ {r}
        PROVE  requests[q].stage # "probing" /\ q # "free"
    BY <1>1, ProbeAssumption DEF LockInv
  <2> QED BY <2>1, <1>1, <1>4, <1>5, <1>6, ProbeAssumption DEF LockInv
<1>9. PoolInv'
  <2> SUFFICES ASSUME NEW q \in Requests
               PROVE  IsFiniteSet(Probing(q)') /\ Cardinality(Probing(q)') <= Concurrency
    BY DEF PoolInv
  <2>1. CASE q = r
    <3>1. Probing(q)' = {}
      BY <1>4, <1>5, <1>6, <2>1 DEF Probing
    <3> QED BY <3>1, FS_EmptySet, ProbeAssumption
  <2>2. CASE q # r
    <3>1. Probing(q)' = Probing(q)
      BY <1>6, <2>2 DEF Probing
    <3> QED BY <3>1 DEF PoolInv
  <2> QED BY <2>1, <2>2
<1>10. RecordInv'
  <2>1. CASE checks' = answer
    <3>1. \A c \in answer : c.by = r
      OBVIOUS
    <3>2. \A c, d \in answer : c.target = d.target => c = d
      OBVIOUS
    <3>3. {d.target : d \in answer} = requests[r].targets
      <4>1. ASSUME NEW d \in answer PROVE d.target \in requests[r].targets
        OBVIOUS
      <4>2. ASSUME NEW t \in requests[r].targets PROVE \E d \in answer : t = d.target
        <5>1. [target |-> t, state |-> requests[r].result[t], by |-> r] \in answer
          OBVIOUS
        <5> QED BY <5>1
      <4> HIDE DEF answer
      <4> QED BY <4>1, <4>2
    <3> HIDE DEF answer
    <3> QED BY <2>1, <3>1, <3>2, <3>3, <1>5, <1>6 DEF RecordInv
  <2>2. CASE checks' = checks
    <3>1. ASSUME NEW c \in checks
          PROVE  /\ c.by \in Requests /\ requests'[c.by].stage = "answered"
                 /\ requests'[c.by].targets = requests[c.by].targets
      BY <1>1, <1>5, <1>6 DEF RecordInv
    <3> QED BY <2>2, <3>1 DEF RecordInv
  <2> QED BY <1>3, <2>1, <2>2
<1> QED BY <1>7, <1>8, <1>9, <1>10

(* One request at a time has results, within the pool; and the record is   *)
(* one answered request's.                                                 *)
THEOREM ProbeInvariant == ProbeSpec => []ProbeInv
<1>1. ASSUME ProbeInv, [ProbeNext]_probeVars
      PROVE  ProbeInv'
  <2>1. ASSUME NEW s \in Services, ChangeView(s)
        PROVE  ProbeInv'
    BY <1>1, <2>1 DEF ChangeView, ProbeInv, RequestTypeOK, IsRequest, LockInv, PoolInv, Probing, RecordInv
  <2>2. ASSUME NEW r \in Requests, NEW t \in Targets, Acquire(r, t) \/ GiveUp(r, t) \/ ProbeOne(r, t)
        PROVE  ProbeInv'
    <3>1. CASE Acquire(r, t)
      BY <1>1, <3>1, ResultStep DEF Acquire
    <3>2. CASE GiveUp(r, t)
      BY <1>1, <3>2, ResultStep DEF GiveUp
    <3>3. CASE ProbeOne(r, t)
      BY <1>1, <3>3, ResultStep DEF ProbeOne, States
    <3> QED BY <2>2, <3>1, <3>2, <3>3
  <2>3. CASE UNCHANGED probeVars
    BY <1>1, <2>3 DEF probeVars, ProbeInv, RequestTypeOK, IsRequest, LockInv, PoolInv, Probing, RecordInv
  <2> QED BY <1>1, <2>1, <2>2, <2>3, StartProbeInv, ContextEndsInv, ReplaceWebLinkChecksInv DEF ProbeNext
<1> QED BY <1>1, ProbeInitInv, PTL DEF ProbeSpec

(* All probes that are out are those of the holder of the lock, so that    *)
(* they are within the pool together.                                      *)
LEMMA PoolHolds ==
  ASSUME ProbeInv
  PROVE  Cardinality({p \in Requests \X Targets : p[2] \in Probing(p[1])}) <= Concurrency
<1> DEFINE pairs == {p \in Requests \X Targets : p[2] \in Probing(p[1])}
<1>1. CASE probeMu \in Requests
  <2> DEFINE pair == [t \in Probing(probeMu) |-> <<probeMu, t>>]
  <2>1. \A p \in pairs : p[1] = probeMu
    BY DEF ProbeInv, LockInv, Probing
  <2>2. pair \in Surjection(Probing(probeMu), pairs)
    <3>1. \A t \in Probing(probeMu) : <<probeMu, t>> \in pairs
      BY <1>1 DEF Probing
    <3>2. ASSUME NEW p \in pairs
          PROVE  \E t \in Probing(probeMu) : pair[t] = p
      <4>1. p = <<p[1], p[2]>> /\ p[2] \in Probing(p[1])
        OBVIOUS
      <4> QED BY <2>1, <4>1
    <3> QED BY <3>1, <3>2 DEF Surjection
  <2>3. IsFiniteSet(Probing(probeMu)) /\ Cardinality(Probing(probeMu)) <= Concurrency
    BY <1>1 DEF ProbeInv, PoolInv
  <2> HIDE DEF pairs, pair
  <2>4. IsFiniteSet(pairs) /\ Cardinality(pairs) <= Cardinality(Probing(probeMu))
    BY <2>2, <2>3, FS_Surjection
  <2>5. Cardinality(pairs) \in Nat /\ Cardinality(Probing(probeMu)) \in Nat
    BY <2>3, <2>4, FS_CardinalityType
  <2>6. Cardinality(pairs) <= Concurrency
    BY <2>3, <2>4, <2>5, ProbeAssumption
  <2> QED BY <2>6 DEF pairs
<1>2. CASE probeMu \notin Requests
  <2>1. pairs = {}
    BY <1>2 DEF ProbeInv, LockInv, Probing
  <2> QED BY <2>1, FS_EmptySet, ProbeAssumption
<1> QED BY <1>1, <1>2

(* The stored record is one probe's, whole, and the pool is never exceeded. *)
THEOREM RecordIsOneProbes == ProbeSpec => []ProbeRecordWhole
<1>1. ProbeInv => ProbeRecordWhole
  BY PoolHolds DEF ProbeInv, RecordInv, ProbeRecordWhole
<1> QED BY <1>1, ProbeInvariant, PTL
-----------------------------------------------------------------------------
(* The database through starts, backups and upgrades.                      *)
HubStages == {"down", "refused", "migrating", "serving"}
CommandStages == {"new", "read", "clear", "copied", "reported", "failed"}
ScriptStages ==
  Working \cup {"idle", "complete", "restoring", "binary", "restored", "rolledback", "lost"}

Hubs == [stage : HubStages, release : Releases, current : Nat]
Scripts == [stage : ScriptStages, candidate : Releases, previous : Releases, active : BOOLEAN,
            stopped : BOOLEAN, ready : BOOLEAN, had : BOOLEAN, served : BOOLEAN]

UpgradeTypeOK ==
  /\ installed \in Releases /\ wanted \in BOOLEAN
  /\ hub \in Hubs
  /\ database \in Databases \cup {NoDatabase}
  /\ DOMAIN backups = Commands
  /\ \A c \in Commands : backups[c] \in [stage : CommandStages, version : Nat]
  /\ DOMAIN copies = Destinations
  /\ \A d \in Destinations : copies[d] \in Databases \cup {NoDatabase, Partial}
  /\ script \in Scripts

(* user_version counts the rows of the ledger, in the file and in every    *)
(* copy: the two are written by one transaction.                           *)
Whole(file) == Len(file.ledger) = file.version
LedgerInv ==
  /\ database \in Databases => Whole(database)
  /\ \A d \in Destinations : copies[d] \in Databases => Whole(copies[d])

(* A Hub that is up has a database, is the installed one, and while it     *)
(* migrates it has reached what the file says.                             *)
HubInv ==
  /\ hub.stage # "down" => database \in Databases
  /\ hub.stage = "migrating" => hub.current = database.version
  /\ hub.stage \in {"migrating", "serving"} => hub.release = installed

(* Nothing but the script works on a stopped Hub, and the bundle's copy is *)
(* made while it is stopped.                                               *)
Bundling == script.stage = "bundling" /\ script.had
Stopped == {"bundling", "ready", "installed", "restoring", "binary", "restored"}
StoppedInv ==
  /\ script.stage \in Stopped => ~wanted /\ hub.stage = "down"
  /\ script.stage = "idle" => CommandAt(Bundle, "new")
  /\ backups[Bundle].stage \in {"read", "clear", "copied"} => Bundling
  /\ script.stage = "bundling" /\ backups[Bundle].stage \in {"copied", "reported"} => Copy(Bundle) = database
  /\ script.stage = "bundling" => ~script.ready
  /\ script.stage \in {"ready", "installed", "watching", "verified", "binary"} => script.ready
  /\ script.ready /\ script.had => CommandAt(Bundle, "reported")

(* What served before the upgrade: its database is in place until the      *)
(* candidate starts and again after the restore, and in the bundle from    *)
(* the moment the script relies on it.                                     *)
Previous(file) == file \in Databases /\ file.ledger = PlanOf[script.previous]
InPlace == installed = script.previous /\ Previous(database)
RollbackInv ==
  script.served =>
    /\ script.stage \in Stopped \cup Working => script.active /\ script.had
    /\ script.stage \in {"bundling", "ready", "restored", "rolledback"} => InPlace
    /\ script.stage = "restoring" /\ ~script.ready => InPlace
    /\ script.stage = "binary" => installed = script.previous
    /\ script.stage = "rolledback" => wanted
    /\ script.ready => Previous(Copy(Bundle))

UpgradeInv ==
  /\ UpgradeTypeOK /\ LedgerInv /\ HubInv /\ MigrationContinued /\ StoppedInv /\ RollbackInv /\ BackupIsWhole
-----------------------------------------------------------------------------
(* The commands and where they write: nobody else writes the bundle.       *)
LEMMA PathFacts ==
  /\ Bundle \in Commands
  /\ \A c \in Commands : PathOf[c] \in Destinations
  /\ \A c \in Commands : PathOf[c] = PathOf[Bundle] => c = Bundle
BY UpgradeAssumption DEF Commands, Range

LEMMA PlanFacts ==
  ASSUME NEW r \in Releases
  PROVE  /\ PlanOf[r] \in Seq(Migrations) /\ Len(PlanOf[r]) \in Nat /\ Len(PlanOf[r]) # 0
         /\ \A i \in 1..Len(PlanOf[r]) : PlanOf[r][i] \in Migrations
<1>1. PlanOf[r] \in Seq(Migrations) /\ PlanOf[r] # <<>>
  BY UpgradeAssumption
<1> QED BY <1>1, EmptySeq, LenProperties, ElementOfSeq

(* A beginning as long as the whole is the whole.                          *)
LEMMA PrefixIsShorter ==
  ASSUME NEW S, NEW s \in Seq(S), NEW t \in Seq(S), IsPrefix(s, t)
  PROVE  Len(s) <= Len(t) /\ (Len(s) = Len(t) => s = t)
<1>1. SubSeq(s, 1, Len(s)) = s /\ SubSeq(t, 1, Len(t)) = t
  BY SubSeqFull
<1>2. Len(s) <= Len(t) /\ SubSeq(s, 1, Len(s)) = SubSeq(t, 1, Len(s))
  BY DEF IsPrefix
<1> QED BY <1>1, <1>2

LEMMA DatabaseFacts ==
  ASSUME NEW file \in Databases
  PROVE  /\ file.version \in Nat /\ file.ledger \in Seq(Migrations) /\ Len(file.ledger) \in Nat
         /\ file # NoDatabase /\ file # Partial
BY UpgradeAssumption, LenProperties DEF Databases

(* One more migration, with its row and its number.                        *)
LEMMA AppendMigration ==
  ASSUME NEW file \in Databases, Whole(file), NEW m \in Migrations, NEW n, n = file.version + 1
  PROVE  LET next == [version |-> n, ledger |-> Append(file.ledger, m)]
         IN next \in Databases /\ Whole(next)
<1> DEFINE next == [version |-> n, ledger |-> Append(file.ledger, m)]
<1>1. file.version \in Nat /\ file.ledger \in Seq(Migrations)
  BY DEF Databases
<1>2. Append(file.ledger, m) \in Seq(Migrations) /\ Len(Append(file.ledger, m)) = Len(file.ledger) + 1
  BY <1>1
<1>3. next \in Databases
  BY <1>1, <1>2 DEF Databases
<1>4. Whole(next)
  BY <1>1, <1>2 DEF Whole
<1> QED BY <1>3, <1>4

(* Steps that set one field.                                               *)
LEMMA HubAtFields ==
  ASSUME UpgradeTypeOK, NEW stage \in HubStages, HubAt(stage)
  PROVE  /\ hub' \in Hubs
         /\ hub'.stage = stage /\ hub'.release = hub.release /\ hub'.current = hub.current
BY DEF UpgradeTypeOK, HubAt, Hubs

LEMMA ScriptAtFields ==
  ASSUME UpgradeTypeOK, NEW stage \in ScriptStages, ScriptAt(stage)
  PROVE  /\ script' \in Scripts
         /\ script'.stage = stage /\ script'.previous = script.previous /\ script'.active = script.active
         /\ script'.ready = script.ready /\ script'.had = script.had /\ script'.served = script.served
BY DEF UpgradeTypeOK, ScriptAt, Scripts
-----------------------------------------------------------------------------
LEMMA UpgradeInitInv == UpgradeInit => UpgradeInv
<1> SUFFICES ASSUME UpgradeInit PROVE UpgradeInv
  OBVIOUS
<1>1. Down \in Hubs /\ Down.stage = "down"
      /\ Down.release \in Releases
  BY DEF UpgradeInit, Down, Hubs, HubStages
<1>2. NoScript \in Scripts /\ NoScript.stage = "idle" /\ NoScript.served = FALSE /\ NoScript.ready = FALSE
  BY <1>1 DEF NoScript, Scripts, ScriptStages
<1>3. NoBackup \in [stage : CommandStages, version : Nat] /\ NoBackup.stage = "new"
  BY DEF NoBackup, CommandStages
<1>4. DOMAIN backups = Commands /\ \A c \in Commands : backups[c] = NoBackup
  BY DEF UpgradeInit
<1>5. DOMAIN copies = Destinations /\ \A d \in Destinations : copies[d] = NoDatabase
  BY DEF UpgradeInit
<1>6. database = NoDatabase /\ hub = Down /\ script = NoScript /\ installed \in Releases /\ wanted = TRUE
  BY DEF UpgradeInit
<1>7. UpgradeTypeOK
  BY <1>1, <1>2, <1>3, <1>4, <1>5, <1>6 DEF UpgradeTypeOK
<1>8. LedgerInv
  BY <1>5, <1>6, UpgradeAssumption DEF LedgerInv
<1>9. HubInv /\ MigrationContinued
  BY <1>1, <1>6 DEF HubInv, MigrationContinued
<1>10. StoppedInv
  BY <1>2, <1>3, <1>4, <1>6, PathFacts DEF StoppedInv, Stopped, CommandAt
<1>11. RollbackInv
  BY <1>2, <1>6 DEF RollbackInv
<1>12. BackupIsWhole
  BY <1>3, <1>4 DEF BackupIsWhole, CommandAt
<1> QED BY <1>7, <1>8, <1>9, <1>10, <1>11, <1>12 DEF UpgradeInv
-----------------------------------------------------------------------------
(* The Hub's own steps.  They happen only while the script keeps off; what *)
(* a rolled back upgrade has put in place has nothing left to migrate.     *)
LEMMA HubStep ==
  ASSUME UpgradeInv, hub' \in Hubs,
         script.stage \notin Stopped, database' \in Databases \cup {NoDatabase},
         database' \in Databases => Whole(database'),
         database \in Databases /\ script.stage = "rolledback" /\ script.served => database' = database,
         UNCHANGED <<installed, wanted, backups, copies, script>>,
         HubInv', MigrationContinued'
  PROVE  UpgradeInv'
<1> USE DEF UpgradeInv
<1>1. UpgradeTypeOK'
  BY DEF UpgradeTypeOK
<1>2. LedgerInv'
  BY DEF LedgerInv
<1>3. StoppedInv'
  BY DEF StoppedInv, Stopped, CommandAt, Copy, Bundling
<1>4. RollbackInv'
  BY DEF RollbackInv, InPlace, Previous, Stopped, CommandAt, Copy
<1>5. BackupIsWhole'
  BY DEF BackupIsWhole, CommandAt, Copy
<1> QED BY <1>1, <1>2, <1>3, <1>4, <1>5

(* A start creates the file or finds it, and refuses one that is ahead.    *)
LEMMA StartHubInv ==
  ASSUME UpgradeInv, StartHub
  PROVE  UpgradeInv'
<1> USE DEF UpgradeInv
<1> DEFINE found == IF database = NoDatabase THEN [version |-> 0, ledger |-> <<>>] ELSE database
           ahead == found.version > Len(PlanOf[installed])
<1>1. found \in Databases /\ Whole(found)
  <2>1. [version |-> 0, ledger |-> <<>>] \in Databases /\ Len(<<>>) = 0
    BY EmptySeq DEF Databases
  <2> QED BY <2>1 DEF UpgradeTypeOK, LedgerInv, Whole
<1>2. /\ database' = found /\ wanted
      /\ hub' = [stage |-> IF ahead THEN "refused" ELSE "migrating", release |-> installed, current |-> found.version]
      /\ UNCHANGED <<installed, wanted, backups, copies, script>>
  BY DEF StartHub
<1>3. database # NoDatabase => database' = database
  BY <1>2
<1> HIDE DEF found
<1>4. /\ hub' \in Hubs
      /\ hub'.stage = IF ahead THEN "refused" ELSE "migrating"
      /\ hub'.release = installed /\ hub'.current = found.version
  BY <1>1, <1>2 DEF UpgradeTypeOK, Hubs, HubStages, Databases
<1>5. HubInv'
  BY <1>1, <1>2, <1>4 DEF HubInv
<1>6. MigrationContinued'
  <2>1. CASE ahead
    <3>1. installed \in Releases
      BY DEF UpgradeTypeOK
    <3>2. /\ found.ledger \in Seq(Migrations) /\ PlanOf[installed] \in Seq(Migrations)
          /\ Len(found.ledger) > Len(PlanOf[installed]) /\ Len(PlanOf[installed]) \in Nat /\ Len(found.ledger) \in Nat
      BY <1>1, <2>1, <3>1, PlanFacts, DatabaseFacts DEF Whole
    <3>3. ~IsPrefix(found.ledger, PlanOf[installed])
      BY <3>2, PrefixIsShorter
    <3> QED BY <1>2, <1>4, <2>1, <3>3 DEF MigrationContinued, Plan
  <2>2. CASE ~ahead
    BY <1>4, <2>2 DEF MigrationContinued
  <2> QED BY <2>1, <2>2
<1>7. script.stage \notin Stopped
  BY <1>2 DEF StoppedInv
<1>8. database \in Databases => database' = database
  BY <1>3, DatabaseFacts
<1> QED BY <1>1, <1>2, <1>4, <1>5, <1>6, <1>7, <1>8, HubStep

(* A migration extends the file by the next row of the plan; none is ahead *)
(* of the version that was read.                                           *)
LEMMA ApplyMigrationInv ==
  ASSUME UpgradeInv, ApplyMigration
  PROVE  UpgradeInv'
<1> USE DEF UpgradeInv
<1> DEFINE m == Plan[hub.current + 1]
           next == [version |-> hub.current + 1, ledger |-> Append(database.ledger, m)]
           row == [hub EXCEPT !.current = @ + 1]
<1>1. /\ hub.stage = "migrating" /\ hub.current < Len(Plan) /\ hub.release \in Releases /\ hub.current \in Nat
      /\ hub.current = database.version /\ database \in Databases /\ Whole(database) /\ hub.release = installed
      /\ UNCHANGED <<installed, wanted, backups, copies, script>>
  BY DEF ApplyMigration, UpgradeTypeOK, Hubs, HubInv, LedgerInv
<1>2. Len(database.ledger) = hub.current /\ ~(Len(database.ledger) > hub.current)
  BY <1>1 DEF Whole
<1>3. database' = next /\ hub' = row
  BY <1>2 DEF ApplyMigration
<1>4. m \in Migrations
  BY <1>1, PlanFacts DEF Plan
<1>5. next \in Databases /\ Whole(next)
  <2> HIDE DEF m
  <2> QED BY <1>1, <1>4, AppendMigration
<1>6. next.version = hub.current + 1
  OBVIOUS
<1>7. /\ row \in Hubs
      /\ row.stage = "migrating" /\ row.release = hub.release /\ row.current = hub.current + 1
  BY <1>1 DEF UpgradeTypeOK, Hubs, HubStages
<1> HIDE DEF next, row
<1>8. HubInv' /\ MigrationContinued'
  BY <1>1, <1>3, <1>5, <1>6, <1>7 DEF HubInv, MigrationContinued
<1>9. script.stage \notin Stopped
  BY <1>1 DEF StoppedInv
<1>10. ~(script.stage = "rolledback" /\ script.served)
  <2> SUFFICES ASSUME script.stage = "rolledback", script.served PROVE FALSE
    OBVIOUS
  <2>1. database.ledger = Plan
    BY <1>1 DEF RollbackInv, InPlace, Previous, Plan
  <2> QED BY <1>1, <1>2, <2>1
<1> QED BY <1>1, <1>3, <1>5, <1>7, <1>8, <1>9, <1>10, HubStep

LEMMA VerifyMigrationsInv ==
  ASSUME UpgradeInv, VerifyMigrations
  PROVE  UpgradeInv'
<1> USE DEF UpgradeInv
<1> DEFINE stage == IF database.ledger = Plan THEN "serving" ELSE "refused"
<1>1. /\ hub.stage = "migrating" /\ hub.current = Len(Plan) /\ hub.release \in Releases
      /\ hub.current = database.version /\ database \in Databases /\ Whole(database) /\ hub.release = installed
      /\ UNCHANGED <<installed, wanted, database, backups, copies, script>>
  BY DEF VerifyMigrations, UpgradeTypeOK, Hubs, HubInv, LedgerInv
<1>2. stage \in HubStages /\ HubAt(stage)
  BY DEF VerifyMigrations, HubStages
<1>3. stage \in {"serving", "refused"} /\ (stage = "serving" <=> database.ledger = Plan)
  OBVIOUS
<1> HIDE DEF stage
<1>4. /\ hub' \in Hubs
      /\ hub'.stage = stage /\ hub'.release = hub.release
  BY <1>2, HubAtFields
<1>5. IsPrefix(database.ledger, Plan) => database.ledger = Plan
  <2>1. Plan \in Seq(Migrations) /\ database.ledger \in Seq(Migrations) /\ Len(database.ledger) = Len(Plan)
    BY <1>1, PlanFacts, DatabaseFacts DEF Plan, Whole
  <2> QED BY <2>1, PrefixIsShorter
<1>6. HubInv' /\ MigrationContinued'
  BY <1>1, <1>3, <1>4, <1>5 DEF HubInv, MigrationContinued, Plan
<1>7. script.stage \notin Stopped
  BY <1>1 DEF StoppedInv
<1> QED BY <1>1, <1>4, <1>6, <1>7, HubStep

LEMMA HubEndsInv ==
  ASSUME UpgradeInv, HubEnds
  PROVE  UpgradeInv'
<1> USE DEF UpgradeInv
<1>1. /\ hub.stage \in {"migrating", "serving"} /\ database \in Databases /\ Whole(database)
      /\ UNCHANGED <<installed, wanted, database, backups, copies, script>>
  BY DEF HubEnds, HubInv, LedgerInv
<1>2. "down" \in HubStages /\ HubAt("down")
  BY DEF HubEnds, HubStages
<1>3. /\ hub' \in Hubs /\ hub'.stage = "down"
  BY <1>2, HubAtFields
<1>4. HubInv' /\ MigrationContinued'
  BY <1>1, <1>3 DEF HubInv, MigrationContinued
<1>5. script.stage \notin Stopped
  BY <1>1 DEF StoppedInv
<1> QED BY <1>1, <1>3, <1>4, <1>5, HubStep
-----------------------------------------------------------------------------
(* What a step leaves at the path of a command, and nowhere else.          *)
Leaves(c, content) ==
  /\ DOMAIN copies' = Destinations /\ copies'[PathOf[c]] = content
  /\ \A p \in Destinations \ {PathOf[c]} : copies'[p] = copies[p]

(* A step of one backup command: what it writes is whole if it is a        *)
(* database at all; it overwrites nothing unless it fails; and the bundle  *)
(* moves only while the script waits for it.                               *)
LEMMA BackupStep ==
  ASSUME UpgradeInv, NEW c \in Commands, NEW row \in [stage : CommandStages, version : Nat],
         NEW content \in Databases \cup {NoDatabase, Partial},
         backups' = [backups EXCEPT ![c] = row], Leaves(c, content),
         UNCHANGED <<installed, wanted, hub, database, script>>,
         backups[c].stage \notin {"reported", "failed"},
         content \in Databases => Whole(content),
         content = Copy(c) \/ Copy(c) = NoDatabase \/ row.stage = "failed",
         row.stage = "reported" => content = Copy(c) /\ content \in Databases /\ content.version = row.version,
         c = Bundle => /\ Bundling
                       /\ row.stage \in {"copied", "reported"} => content = database
  PROVE  UpgradeInv'
<1> USE DEF UpgradeInv
<1>1. /\ DOMAIN backups' = Commands /\ backups'[c] = row
      /\ \A d \in Commands \ {c} : backups'[d] = backups[d]
  BY DEF UpgradeTypeOK
<1>2. /\ DOMAIN copies' = Destinations /\ PathOf[c] \in Destinations /\ copies'[PathOf[c]] = content
      /\ \A p \in Destinations \ {PathOf[c]} : copies'[p] = copies[p]
  BY PathFacts DEF Leaves
<1>3. UpgradeTypeOK'
  BY <1>1, <1>2 DEF UpgradeTypeOK
<1>4. LedgerInv'
  BY <1>2 DEF LedgerInv
<1>5. HubInv' /\ MigrationContinued'
  BY DEF HubInv, MigrationContinued, Plan
<1>6. c # Bundle => copies'[PathOf[Bundle]] = Copy(Bundle) /\ backups'[Bundle] = backups[Bundle]
  BY <1>1, <1>2, PathFacts DEF Copy
<1>7. c = Bundle => copies'[PathOf[Bundle]] = content /\ backups'[Bundle] = row
  BY <1>1, <1>2
<1>8. StoppedInv'
  <2>1. CASE c # Bundle
    BY <1>6, <2>1 DEF StoppedInv, CommandAt, Copy, Bundling
  <2>2. CASE c = Bundle
    BY <1>7, <2>2 DEF StoppedInv, CommandAt, Copy, Bundling
  <2> QED BY <2>1, <2>2
<1>9. RollbackInv'
  <2>1. script.ready => c # Bundle
    BY DEF StoppedInv, Bundling
  <2>2. InPlace' = InPlace
    BY DEF InPlace, Previous
  <2>3. script.ready => Previous(Copy(Bundle))' = Previous(Copy(Bundle))
    BY <1>6, <2>1 DEF Previous, Copy
  <2> QED BY <2>2, <2>3 DEF RollbackInv
<1>10. BackupIsWhole'
  <2> SUFFICES ASSUME NEW x \in Commands, backups'[x].stage = "reported"
               PROVE  \/ copies'[PathOf[x]] \notin {NoDatabase, Partial}
                         /\ copies'[PathOf[x]].version = backups'[x].version
                         /\ Len(copies'[PathOf[x]].ledger) = backups'[x].version
                      \/ \E d \in Commands \ {x} : PathOf[d] = PathOf[x] /\ backups'[d].stage = "failed"
    BY DEF BackupIsWhole, CommandAt, Copy
  <2>1. CASE x = c
    <3>1. content \in Databases /\ content.version = row.version /\ Whole(content)
      BY <1>1, <2>1
    <3> QED BY <1>1, <1>2, <2>1, <3>1, DatabaseFacts DEF Whole
  <2>2. CASE x # c
    <3>1. backups'[x] = backups[x] /\ CommandAt(x, "reported")
      BY <1>1, <2>2 DEF CommandAt
    <3>2. CASE \E d \in Commands \ {x} : PathOf[d] = PathOf[x] /\ CommandAt(d, "failed")
      <4>1. PICK d \in Commands \ {x} : PathOf[d] = PathOf[x] /\ backups[d].stage = "failed"
        BY <3>2 DEF CommandAt
      <4>2. backups'[d].stage = "failed"
        BY <1>1, <4>1
      <4> QED BY <4>1, <4>2
    <3>3. CASE /\ Copy(x) \notin {NoDatabase, Partial} /\ Copy(x).version = backups[x].version
               /\ Len(Copy(x).ledger) = backups[x].version
      <4>1. CASE copies'[PathOf[x]] = Copy(x)
        BY <3>1, <3>3, <4>1
      <4>2. CASE copies'[PathOf[x]] # Copy(x)
        <5>1. PathOf[x] = PathOf[c] /\ Copy(x) = Copy(c) /\ content # Copy(c) /\ Copy(c) # NoDatabase
          BY <1>2, <3>3, <4>2, PathFacts DEF Copy
        <5> QED BY <1>1, <2>2, <5>1
      <4> QED BY <4>1, <4>2
    <3> QED BY <3>1, <3>2, <3>3 DEF BackupIsWhole
  <2> QED BY <2>1, <2>2
<1> QED BY <1>3, <1>4, <1>5, <1>8, <1>9, <1>10

(* What is at a path; a step that writes there, and one that does not.     *)
LEMMA CopyFacts ==
  ASSUME UpgradeInv, NEW c \in Commands
  PROVE  /\ Copy(c) \in Databases \cup {NoDatabase, Partial} /\ (Copy(c) \in Databases => Whole(Copy(c)))
         /\ backups[c] \in [stage : CommandStages, version : Nat]
         /\ backups[Bundle].stage \in {"read", "clear", "copied"} => Bundling
<1>1. PathOf[c] \in Destinations
  BY PathFacts
<1>2. Copy(c) \in Databases \cup {NoDatabase, Partial} /\ (Copy(c) \in Databases => Whole(Copy(c)))
  BY <1>1 DEF UpgradeInv, UpgradeTypeOK, LedgerInv, Copy
<1>3. backups[c] \in [stage : CommandStages, version : Nat]
  BY DEF UpgradeInv, UpgradeTypeOK
<1>4. backups[Bundle].stage \in {"read", "clear", "copied"} => Bundling
  BY DEF UpgradeInv, StoppedInv
<1> QED BY <1>2, <1>3, <1>4

LEMMA CopyLeft ==
  ASSUME UpgradeInv, NEW c \in Commands, NEW content
  PROVE  /\ Into(c, content) => Leaves(c, content)
         /\ UNCHANGED copies => Leaves(c, Copy(c))
BY PathFacts DEF UpgradeInv, UpgradeTypeOK, Into, Leaves, Copy

LEMMA CommandToFields ==
  ASSUME UpgradeInv, NEW c \in Commands, NEW stage \in CommandStages, CommandTo(c, stage)
  PROVE  \E row \in [stage : CommandStages, version : Nat] :
           /\ row.stage = stage /\ row.version = backups[c].version
           /\ backups' = [backups EXCEPT ![c] = row]
<1> DEFINE row == [backups[c] EXCEPT !.stage = stage]
<1>1. row \in [stage : CommandStages, version : Nat] /\ row.stage = stage /\ row.version = backups[c].version
  BY DEF UpgradeInv, UpgradeTypeOK
<1>2. backups' = [backups EXCEPT ![c] = row]
  BY DEF CommandTo
<1> HIDE DEF row
<1> QED BY <1>1, <1>2

(* The version is read, or there is none to read.                          *)
LEMMA ReadVersionInv ==
  ASSUME UpgradeInv, NEW c \in Commands, ReadVersion(c)
  PROVE  UpgradeInv'
<1>1. /\ backups[c].stage = "new" /\ UNCHANGED <<installed, wanted, hub, database, script>>
      /\ Leaves(c, Copy(c))
  BY CopyLeft DEF ReadVersion, CommandAt
<1>2. c = Bundle => Bundling
  <2> SUFFICES ASSUME c = Bundle PROVE Bundling
    OBVIOUS
  <2>1. Commanded(Bundle)
    BY DEF ReadVersion
  <2> QED BY <2>1 DEF Commanded, Bundling, Bundle, Final
<1>3. PICK row \in [stage : CommandStages, version : Nat] :
        row.stage \in {"failed", "read"} /\ backups' = [backups EXCEPT ![c] = row]
  <2>1. CASE database = NoDatabase \/ database.version < 1
    <3>1. CommandTo(c, "failed") /\ "failed" \in CommandStages
      BY <2>1 DEF ReadVersion, CommandStages
    <3> QED BY <3>1, CommandToFields
  <2>2. CASE ~(database = NoDatabase \/ database.version < 1)
    <3> DEFINE row == [stage |-> "read", version |-> database.version]
    <3>1. backups' = [backups EXCEPT ![c] = row]
      BY <2>2 DEF ReadVersion
    <3>2. row \in [stage : CommandStages, version : Nat] /\ row.stage = "read"
      BY <2>2 DEF UpgradeInv, UpgradeTypeOK, CommandStages, Databases
    <3> HIDE DEF row
    <3> QED BY <3>1, <3>2
  <2> QED BY <2>1, <2>2
<1> QED BY <1>1, <1>2, <1>3, CopyFacts, BackupStep

LEMMA CheckDestinationInv ==
  ASSUME UpgradeInv, NEW c \in Commands, CheckDestination(c)
  PROVE  UpgradeInv'
<1>1. /\ backups[c].stage = "read" /\ UNCHANGED <<installed, wanted, hub, database, script>>
      /\ Leaves(c, Copy(c))
      /\ (c = Bundle => Bundling)
  BY CopyFacts, CopyLeft DEF CheckDestination, CommandAt
<1>2. PICK stage \in {"clear", "failed"} : CommandTo(c, stage)
  BY DEF CheckDestination
<1>3. PICK row \in [stage : CommandStages, version : Nat] :
        row.stage \in {"clear", "failed"} /\ backups' = [backups EXCEPT ![c] = row]
  <2>1. stage \in CommandStages
    BY DEF CommandStages
  <2>2. PICK row \in [stage : CommandStages, version : Nat] :
          row.stage = stage /\ backups' = [backups EXCEPT ![c] = row]
    BY <1>2, <2>1, CommandToFields
  <2> QED BY <2>2
<1> QED BY <1>1, <1>3, CopyFacts, BackupStep

(* The copy is one snapshot of the file, into a path where nothing is.     *)
LEMMA VacuumInv ==
  ASSUME UpgradeInv, NEW c \in Commands, Vacuum(c)
  PROVE  UpgradeInv'
<1>1. /\ backups[c].stage = "clear" /\ UNCHANGED <<installed, wanted, hub, database, script>>
      /\ (c = Bundle => Bundling)
  BY CopyFacts DEF Vacuum, CommandAt
<1>2. CASE Copy(c) = NoDatabase /\ Into(c, database) /\ CommandTo(c, "copied")
  <2>1. PICK row \in [stage : CommandStages, version : Nat] :
          row.stage = "copied" /\ backups' = [backups EXCEPT ![c] = row]
    BY <1>2, CommandToFields DEF CommandStages
  <2>2. database \in Databases \cup {NoDatabase} /\ (database \in Databases => Whole(database))
    BY DEF UpgradeInv, UpgradeTypeOK, LedgerInv
  <2> QED BY <1>1, <1>2, <2>1, <2>2, CopyLeft, BackupStep
<1>3. CASE Into(c, NoDatabase) /\ CommandTo(c, "failed")
  <2>1. PICK row \in [stage : CommandStages, version : Nat] :
          row.stage = "failed" /\ backups' = [backups EXCEPT ![c] = row]
    BY <1>3, CommandToFields DEF CommandStages
  <2> QED BY <1>1, <1>3, <2>1, UpgradeAssumption, CopyLeft, BackupStep
<1> QED BY <1>2, <1>3 DEF Vacuum

(* A copy that passes its checks is whole and has the version it claims.   *)
LEMMA VerifyCopyInv ==
  ASSUME UpgradeInv, NEW c \in Commands, VerifyCopy(c)
  PROVE  UpgradeInv'
<1>1. /\ backups[c].stage = "copied" /\ UNCHANGED <<installed, wanted, hub, database, script>>
      /\ (c = Bundle => Bundling)
  BY CopyFacts DEF VerifyCopy, CommandAt
<1>2. CASE Copy(c) \notin {NoDatabase, Partial} /\ Copy(c).version = backups[c].version
  <2>1. CommandTo(c, "reported") /\ UNCHANGED copies
    BY <1>2 DEF VerifyCopy
  <2>2. PICK row \in [stage : CommandStages, version : Nat] :
          /\ row.stage = "reported" /\ row.version = backups[c].version
          /\ backups' = [backups EXCEPT ![c] = row]
    BY <2>1, CommandToFields DEF CommandStages
  <2>3. Copy(c) \in Databases /\ Copy(c).version = row.version
    BY <1>2, <2>2, CopyFacts
  <2>4. c = Bundle => Copy(c) = database
    BY <1>1 DEF UpgradeInv, StoppedInv, Bundling
  <2>5. Leaves(c, Copy(c))
    BY <2>1, CopyLeft
  <2> QED BY <1>1, <2>2, <2>3, <2>4, <2>5, CopyFacts, BackupStep
<1>3. CASE ~(Copy(c) \notin {NoDatabase, Partial} /\ Copy(c).version = backups[c].version)
  <2>1. CommandTo(c, "failed") /\ Into(c, NoDatabase)
    BY <1>3 DEF VerifyCopy
  <2>2. PICK row \in [stage : CommandStages, version : Nat] :
          row.stage = "failed" /\ backups' = [backups EXCEPT ![c] = row]
    BY <2>1, CommandToFields DEF CommandStages
  <2> QED BY <1>1, <2>1, <2>2, UpgradeAssumption, CopyLeft, BackupStep
<1> QED BY <1>2, <1>3

LEMMA KillBackupInv ==
  ASSUME UpgradeInv, NEW c \in Commands, KillBackup(c)
  PROVE  UpgradeInv'
<1>1. /\ backups[c].stage \in {"read", "clear", "copied"} /\ UNCHANGED <<installed, wanted, hub, database, script>>
      /\ CommandTo(c, "failed") /\ (c = Bundle => Bundling)
  BY CopyFacts DEF KillBackup, CommandAt
<1>2. PICK row \in [stage : CommandStages, version : Nat] :
        row.stage = "failed" /\ backups' = [backups EXCEPT ![c] = row]
  BY <1>1, CommandToFields DEF CommandStages
<1>3. Leaves(c, Copy(c)) \/ Leaves(c, Partial)
  BY CopyLeft DEF KillBackup
<1> QED BY <1>1, <1>2, <1>3, CopyFacts, UpgradeAssumption, BackupStep
-----------------------------------------------------------------------------
(* A step of the script that writes no copy: the Hub is left as it is or   *)
(* stopped, and commands that it ends have failed.                         *)
LEMMA ScriptStep ==
  ASSUME UpgradeInv, script' \in Scripts, installed' \in Releases, wanted' \in BOOLEAN,
         database' = database, copies' = copies,
         \/ hub' = hub /\ (hub.stage \in {"migrating", "serving"} => installed' = installed)
         \/ hub' \in Hubs /\ hub'.stage = "down",
         DOMAIN backups' = Commands,
         \A c \in Commands :
           \/ backups'[c] = backups[c]
           \/ /\ backups[c].stage \in {"read", "clear", "copied"}
              /\ backups'[c] \in [stage : CommandStages, version : Nat] /\ backups'[c].stage = "failed",
         StoppedInv', RollbackInv'
  PROVE  UpgradeInv'
<1> USE DEF UpgradeInv
<1>1. UpgradeTypeOK'
  BY DEF UpgradeTypeOK
<1>2. LedgerInv'
  BY DEF LedgerInv
<1>3. HubInv' /\ MigrationContinued'
  BY DEF HubInv, MigrationContinued, Plan
<1>4. BackupIsWhole'
  <2> SUFFICES ASSUME NEW x \in Commands, backups'[x].stage = "reported"
               PROVE  \/ copies'[PathOf[x]] \notin {NoDatabase, Partial}
                         /\ copies'[PathOf[x]].version = backups'[x].version
                         /\ Len(copies'[PathOf[x]].ledger) = backups'[x].version
                      \/ \E d \in Commands \ {x} : PathOf[d] = PathOf[x] /\ backups'[d].stage = "failed"
    BY DEF BackupIsWhole, CommandAt, Copy
  <2>1. backups'[x] = backups[x]
    OBVIOUS
  <2>2. ASSUME NEW d \in Commands, backups[d].stage = "failed"
        PROVE  backups'[d].stage = "failed"
    BY <2>2
  <2> QED BY <2>1, <2>2 DEF BackupIsWhole, CommandAt, Copy
<1> QED BY <1>1, <1>2, <1>3, <1>4

(* The Hub is stopped: what it served is what the script comes back to.    *)
LEMMA StopServiceInv ==
  ASSUME UpgradeInv, NEW candidate \in Releases, StopService(candidate)
  PROVE  UpgradeInv'
<1> USE DEF UpgradeInv
<1> DEFINE ran == hub.stage \in {"migrating", "serving"}
           held == database # NoDatabase
           answered == hub.stage = "serving"
           row == [NoScript EXCEPT !.stage = "bundling", !.candidate = candidate, !.previous = installed,
                     !.active = ran, !.stopped = TRUE, !.had = held, !.served = answered]
<1>1. installed \in Releases
  BY DEF UpgradeTypeOK
<1>3. /\ script' = row /\ wanted' = FALSE /\ HubAt("down") /\ script.stage = "idle"
      /\ UNCHANGED <<installed, database, backups, copies>>
  BY DEF StopService
<1>8. ran \in BOOLEAN /\ held \in BOOLEAN /\ answered \in BOOLEAN
  OBVIOUS
<1> HIDE DEF ran, held, answered
<1>9. /\ row \in Scripts /\ row.stage = "bundling" /\ row.previous = installed /\ row.ready = FALSE
      /\ row.active = ran /\ row.had = held /\ row.served = answered
  BY <1>1, <1>8 DEF NoScript, Scripts, ScriptStages, Working, Down
<1> HIDE DEF row
<1>2. /\ row \in Scripts /\ row.stage = "bundling" /\ row.previous = installed /\ row.ready = FALSE
      /\ row.active = (hub.stage \in {"migrating", "serving"}) /\ row.had = (database # NoDatabase)
      /\ row.served = (hub.stage = "serving")
  BY <1>9 DEF ran, held, answered
<1>4. hub' \in Hubs /\ hub'.stage = "down"
  BY <1>3, HubAtFields DEF HubStages
<1>5. StoppedInv'
  BY <1>2, <1>3, <1>4 DEF StoppedInv, Stopped, CommandAt, Bundling
<1>6. hub.stage = "serving" => installed = hub.release /\ database \in Databases /\ database.ledger = Plan
  BY DEF HubInv, MigrationContinued
<1>7. RollbackInv'
  BY <1>2, <1>3, <1>6, DatabaseFacts DEF RollbackInv, InPlace, Previous, Plan
<1> QED BY <1>1, <1>2, <1>3, <1>4, <1>5, <1>7, ScriptStep DEF UpgradeTypeOK

(* Where there was a database, the bundle has what the Hub served.         *)
LEMMA BundleReadyInv ==
  ASSUME UpgradeInv, BundleReady
  PROVE  UpgradeInv'
<1> USE DEF UpgradeInv
<1> DEFINE row == [script EXCEPT !.stage = "ready", !.ready = TRUE]
<1>1. /\ row \in Scripts /\ row.stage = "ready" /\ row.ready = TRUE /\ row.previous = script.previous
      /\ row.active = script.active /\ row.had = script.had /\ row.served = script.served
  BY DEF UpgradeTypeOK, Scripts, ScriptStages, Working
<1>2. /\ script' = row /\ script.stage = "bundling" /\ (script.had => CommandAt(Bundle, "reported"))
      /\ UNCHANGED <<installed, wanted, hub, database, backups, copies>>
  BY DEF BundleReady
<1> HIDE DEF row
<1>3. ~wanted /\ hub.stage = "down" /\ (script.had => Copy(Bundle) = database)
  BY <1>2 DEF StoppedInv, Stopped, CommandAt
<1>4. backups[Bundle].stage \notin {"read", "clear", "copied"}
  BY <1>2 DEF StoppedInv, Bundling, CommandAt
<1>5. StoppedInv'
  BY <1>1, <1>2, <1>3, <1>4 DEF StoppedInv, Stopped, CommandAt
<1>6. RollbackInv'
  BY <1>1, <1>2, <1>3 DEF RollbackInv, InPlace, Previous, Stopped, Copy
<1> QED BY <1>1, <1>2, <1>5, <1>6, ScriptStep DEF UpgradeTypeOK

(* The steps of the script that change its stage, the unit and the binary. *)
LEMMA InstallCandidateInv ==
  ASSUME UpgradeInv, InstallCandidate
  PROVE  UpgradeInv'
<1> USE DEF UpgradeInv
<1>1. /\ script.stage = "ready" /\ ScriptAt("installed") /\ "installed" \in ScriptStages
      /\ installed' = script.candidate /\ script.candidate \in Releases
      /\ UNCHANGED <<wanted, hub, database, backups, copies>>
  BY DEF InstallCandidate, ScriptStages, Working, UpgradeTypeOK, Scripts
<1>2. /\ script' \in Scripts
      /\ script'.stage = "installed" /\ script'.previous = script.previous /\ script'.active = script.active
      /\ script'.ready = script.ready /\ script'.had = script.had /\ script'.served = script.served
  BY <1>1, ScriptAtFields
<1>3. ~wanted /\ hub.stage = "down" /\ script.ready /\ backups[Bundle].stage \notin {"read", "clear", "copied"}
  BY <1>1 DEF StoppedInv, Stopped, Bundling
<1>4. StoppedInv'
  BY <1>1, <1>2, <1>3 DEF StoppedInv, Stopped, CommandAt
<1>5. RollbackInv'
  BY <1>1, <1>2, <1>3 DEF RollbackInv, InPlace, Previous, Stopped, Working, Copy
<1> QED BY <1>1, <1>2, <1>3, <1>4, <1>5, ScriptStep DEF UpgradeTypeOK

LEMMA RestartServiceInv ==
  ASSUME UpgradeInv, RestartService
  PROVE  UpgradeInv'
<1> USE DEF UpgradeInv
<1>1. /\ script.stage = "installed" /\ ScriptAt("watching") /\ "watching" \in ScriptStages
      /\ wanted' = TRUE /\ UNCHANGED <<installed, hub, database, backups, copies>>
  BY DEF RestartService, ScriptStages, Working
<1>2. /\ script' \in Scripts
      /\ script'.stage = "watching" /\ script'.previous = script.previous /\ script'.active = script.active
      /\ script'.ready = script.ready /\ script'.had = script.had /\ script'.served = script.served
  BY <1>1, ScriptAtFields
<1>3. script.ready /\ backups[Bundle].stage \notin {"read", "clear", "copied"}
  BY <1>1 DEF StoppedInv, Stopped, Bundling
<1>4. StoppedInv'
  BY <1>1, <1>2, <1>3 DEF StoppedInv, Stopped, CommandAt
<1>5. RollbackInv'
  BY <1>1, <1>2, <1>3 DEF RollbackInv, InPlace, Previous, Stopped, Working, Copy
<1> QED BY <1>1, <1>2, <1>4, <1>5, ScriptStep DEF UpgradeTypeOK

LEMMA WatchInv ==
  ASSUME UpgradeInv, Healthy \/ Complete
  PROVE  UpgradeInv'
<1> USE DEF UpgradeInv
<1>1. PICK stage \in {"verified", "complete"} :
        /\ script.stage \in {"watching", "verified"} /\ ScriptAt(stage) /\ stage \in ScriptStages
        /\ UNCHANGED <<installed, wanted, hub, database, backups, copies>>
  BY DEF Healthy, Complete, ScriptStages, Working
<1>2. /\ script' \in Scripts
      /\ script'.stage = stage /\ script'.previous = script.previous /\ script'.active = script.active
      /\ script'.ready = script.ready /\ script'.had = script.had /\ script'.served = script.served
  BY <1>1, ScriptAtFields
<1>3. script.ready /\ backups[Bundle].stage \notin {"read", "clear", "copied"}
  BY <1>1 DEF StoppedInv, Bundling
<1>4. StoppedInv'
  BY <1>1, <1>2, <1>3 DEF StoppedInv, Stopped, CommandAt
<1>5. RollbackInv'
  BY <1>1, <1>2, <1>3 DEF RollbackInv, InPlace, Previous, Stopped, Working, Copy
<1> QED BY <1>1, <1>2, <1>4, <1>5, ScriptStep DEF UpgradeTypeOK

(* The trap: without a complete bundle nothing has been replaced yet.      *)
LEMMA TrapInv ==
  ASSUME UpgradeInv, Trap
  PROVE  UpgradeInv'
<1> USE DEF UpgradeInv
<1>1. /\ script.stage \in Working /\ ScriptAt("restoring") /\ "restoring" \in ScriptStages
      /\ HubAt("down") /\ "down" \in HubStages /\ wanted' = FALSE
      /\ backups[Bundle].stage \in {"new", "reported", "failed"}
      /\ UNCHANGED <<installed, database, backups, copies>>
  BY DEF Trap, ScriptStages, HubStages
<1>2. /\ script' \in Scripts
      /\ script'.stage = "restoring" /\ script'.previous = script.previous /\ script'.active = script.active
      /\ script'.ready = script.ready /\ script'.had = script.had /\ script'.served = script.served
  BY <1>1, ScriptAtFields
<1>3. hub' \in Hubs /\ hub'.stage = "down"
  BY <1>1, HubAtFields
<1>4. ~script.ready => script.stage = "bundling"
  BY <1>1 DEF StoppedInv, Working
<1>5. StoppedInv'
  BY <1>1, <1>2, <1>3 DEF StoppedInv, Stopped, CommandAt
<1>6. RollbackInv'
  BY <1>1, <1>2, <1>4 DEF RollbackInv, InPlace, Previous, Stopped, Working, Copy
<1> QED BY <1>1, <1>2, <1>3, <1>5, <1>6, ScriptStep DEF UpgradeTypeOK

LEMMA RestoreBinaryInv ==
  ASSUME UpgradeInv, RestoreBinary
  PROVE  UpgradeInv'
<1> USE DEF UpgradeInv
<1>1. PICK stage \in {"binary", "restored"} :
        /\ script.stage = "restoring" /\ ScriptAt(stage) /\ stage \in ScriptStages
        /\ (stage = "binary" <=> script.ready)
        /\ installed' = IF script.ready THEN script.previous ELSE installed
        /\ UNCHANGED <<wanted, hub, database, backups, copies>>
  BY DEF RestoreBinary, ScriptStages
<1>2. /\ script' \in Scripts
      /\ script'.stage = stage /\ script'.previous = script.previous /\ script'.active = script.active
      /\ script'.ready = script.ready /\ script'.had = script.had /\ script'.served = script.served
  BY <1>1, ScriptAtFields
<1>3. ~wanted /\ hub.stage = "down" /\ backups[Bundle].stage \notin {"read", "clear", "copied"}
  BY <1>1 DEF StoppedInv, Stopped, Bundling
<1>4. installed' \in Releases
  BY <1>1 DEF UpgradeTypeOK, Scripts
<1>5. StoppedInv'
  BY <1>1, <1>2, <1>3 DEF StoppedInv, Stopped, CommandAt
<1>6. RollbackInv'
  BY <1>1, <1>2, <1>3 DEF RollbackInv, InPlace, Previous, Stopped, Working, Copy
<1> QED BY <1>1, <1>2, <1>3, <1>4, <1>5, <1>6, ScriptStep DEF UpgradeTypeOK

(* The bundle of a script that relies on it is whole.                      *)
LEMMA BundleIsWhole ==
  ASSUME UpgradeInv, CommandAt(Bundle, "reported")
  PROVE  Copy(Bundle) \in Databases /\ Whole(Copy(Bundle))
<1>1. Copy(Bundle) \notin {NoDatabase, Partial}
  BY PathFacts DEF UpgradeInv, BackupIsWhole
<1> QED BY <1>1, PathFacts, CopyFacts

(* The database of the bundle comes back: the one the release in place     *)
(* has served.                                                             *)
LEMMA RestoreDatabaseInv ==
  ASSUME UpgradeInv, RestoreDatabase
  PROVE  UpgradeInv'
<1> USE DEF UpgradeInv
<1>1. /\ script.stage = "binary" /\ ScriptAt("restored") /\ "restored" \in ScriptStages
      /\ database' = IF script.had THEN Copy(Bundle) ELSE NoDatabase
      /\ UNCHANGED <<installed, wanted, hub, backups, copies>>
  BY DEF RestoreDatabase, ScriptStages
<1>2. /\ script' \in Scripts
      /\ script'.stage = "restored" /\ script'.previous = script.previous /\ script'.active = script.active
      /\ script'.ready = script.ready /\ script'.had = script.had /\ script'.served = script.served
  BY <1>1, ScriptAtFields
<1>3. ~wanted /\ hub.stage = "down" /\ script.ready /\ backups[Bundle].stage \notin {"read", "clear", "copied"}
      /\ (script.had => CommandAt(Bundle, "reported"))
  BY <1>1 DEF StoppedInv, Stopped, Bundling
<1>4. database' \in Databases \cup {NoDatabase} /\ (database' \in Databases => Whole(database'))
  BY <1>1, <1>3, BundleIsWhole, UpgradeAssumption
<1>5. UpgradeTypeOK' /\ LedgerInv'
  BY <1>1, <1>2, <1>4 DEF UpgradeTypeOK, LedgerInv
<1>6. HubInv' /\ MigrationContinued'
  BY <1>1, <1>3 DEF HubInv, MigrationContinued
<1>7. StoppedInv'
  BY <1>1, <1>2, <1>3 DEF StoppedInv, Stopped, CommandAt
<1>8. RollbackInv'
  BY <1>1, <1>2, <1>3 DEF RollbackInv, InPlace, Previous, Stopped, Working, Copy
<1>9. BackupIsWhole'
  BY <1>1 DEF BackupIsWhole, CommandAt, Copy
<1> QED BY <1>5, <1>6, <1>7, <1>8, <1>9

LEMMA RestoreServiceInv ==
  ASSUME UpgradeInv, RestoreService
  PROVE  UpgradeInv'
<1> USE DEF UpgradeInv
<1>1. /\ script.stage = "restored" /\ ScriptAt("rolledback") /\ "rolledback" \in ScriptStages
      /\ wanted' = script.active /\ UNCHANGED <<installed, hub, database, backups, copies>>
  BY DEF RestoreService, ScriptStages
<1>2. /\ script' \in Scripts
      /\ script'.stage = "rolledback" /\ script'.previous = script.previous /\ script'.active = script.active
      /\ script'.ready = script.ready /\ script'.had = script.had /\ script'.served = script.served
  BY <1>1, ScriptAtFields
<1>3. script.active \in BOOLEAN /\ backups[Bundle].stage \notin {"read", "clear", "copied"}
  BY <1>1 DEF UpgradeTypeOK, Scripts, StoppedInv, Bundling
<1>4. StoppedInv'
  BY <1>1, <1>2, <1>3 DEF StoppedInv, Stopped, CommandAt
<1>5. RollbackInv'
  BY <1>1, <1>2, <1>3 DEF RollbackInv, InPlace, Previous, Stopped, Working, Copy
<1> QED BY <1>1, <1>2, <1>3, <1>4, <1>5, ScriptStep DEF UpgradeTypeOK

(* Power is lost: what was being done is not done, what is done stays.     *)
LEMMA PowerLossInv ==
  ASSUME UpgradeInv, PowerLoss
  PROVE  UpgradeInv'
<1> USE DEF UpgradeInv
<1>1. PICK stage \in {"idle", "complete", "rolledback", "lost"} :
        /\ ScriptAt(stage) /\ stage \in ScriptStages /\ (stage # "lost" => script.stage = stage)
        /\ HubAt("down") /\ "down" \in HubStages /\ wanted' = TRUE /\ UNCHANGED <<installed, database, copies>>
  BY DEF PowerLoss, ScriptStages, HubStages
<1>2. /\ script' \in Scripts
      /\ script'.stage = stage /\ script'.previous = script.previous /\ script'.active = script.active
      /\ script'.ready = script.ready /\ script'.had = script.had /\ script'.served = script.served
  BY <1>1, ScriptAtFields
<1>3. hub' \in Hubs /\ hub'.stage = "down"
  BY <1>1, HubAtFields
<1>4. DOMAIN backups' = Commands
  BY DEF PowerLoss
<1>5. ASSUME NEW c \in Commands
      PROVE  IF backups[c].stage \in {"read", "clear", "copied"}
             THEN backups'[c] \in [stage : CommandStages, version : Nat] /\ backups'[c].stage = "failed"
             ELSE backups'[c] = backups[c]
  <2>1. backups'[c] = IF backups[c].stage \in {"read", "clear", "copied"}
                      THEN [backups[c] EXCEPT !.stage = "failed"] ELSE backups[c]
    BY DEF PowerLoss
  <2> QED BY <2>1 DEF UpgradeTypeOK, CommandStages
<1>6. StoppedInv'
  BY <1>1, <1>2, <1>5, PathFacts DEF StoppedInv, Stopped, CommandAt
<1>7. RollbackInv'
  BY <1>1, <1>2 DEF RollbackInv, InPlace, Previous, Stopped, Working, Copy
<1> QED BY <1>1, <1>2, <1>3, <1>4, <1>5, <1>6, <1>7, ScriptStep DEF UpgradeTypeOK

LEMMA InstallByHandInv ==
  ASSUME UpgradeInv, NEW r \in Releases, InstallByHand(r)
  PROVE  UpgradeInv'
<1> USE DEF UpgradeInv
<1>1. /\ script.stage = "idle" /\ hub.stage \in {"down", "refused"} /\ installed' = r
      /\ UNCHANGED <<wanted, hub, database, backups, copies, script>>
  BY DEF InstallByHand
<1>2. StoppedInv'
  BY <1>1 DEF StoppedInv, Stopped, CommandAt, Copy, Bundling
<1>3. RollbackInv'
  BY <1>1 DEF RollbackInv, InPlace, Previous, Stopped, Working, Copy
<1> QED BY <1>1, <1>2, <1>3, ScriptStep DEF UpgradeTypeOK
-----------------------------------------------------------------------------
(* Through every start, backup and upgrade, cut short anywhere: the        *)
(* version counts the ledger, the Hub that is up is the one installed, and *)
(* the script keeps a way back to what it found.                           *)
THEOREM UpgradeInvariant == UpgradeSpec => []UpgradeInv
<1>1. ASSUME UpgradeInv, [UpgradeNext]_upgradeVars
      PROVE  UpgradeInv'
  <2>1. CASE StartHub \/ ApplyMigration \/ VerifyMigrations \/ HubEnds
    BY <1>1, <2>1, StartHubInv, ApplyMigrationInv, VerifyMigrationsInv, HubEndsInv
  <2>2. ASSUME NEW c \in Commands,
               ReadVersion(c) \/ CheckDestination(c) \/ Vacuum(c) \/ VerifyCopy(c) \/ KillBackup(c)
        PROVE  UpgradeInv'
    BY <1>1, <2>2, ReadVersionInv, CheckDestinationInv, VacuumInv, VerifyCopyInv, KillBackupInv
  <2>3. ASSUME NEW r \in Releases, StopService(r) \/ InstallByHand(r)
        PROVE  UpgradeInv'
    BY <1>1, <2>3, StopServiceInv, InstallByHandInv
  <2>4. CASE BundleReady \/ InstallCandidate \/ RestartService \/ Healthy \/ Complete
    BY <1>1, <2>4, BundleReadyInv, InstallCandidateInv, RestartServiceInv, WatchInv
  <2>5. CASE Trap \/ RestoreBinary \/ RestoreDatabase \/ RestoreService \/ PowerLoss
    BY <1>1, <2>5, TrapInv, RestoreBinaryInv, RestoreDatabaseInv, RestoreServiceInv, PowerLossInv
  <2>6. CASE UNCHANGED upgradeVars
    BY <1>1, <2>6
    DEF upgradeVars, UpgradeInv, UpgradeTypeOK, LedgerInv, HubInv, MigrationContinued, Plan, StoppedInv, Bundling,
        RollbackInv, InPlace, Previous, BackupIsWhole, CommandAt, Copy
  <2> QED BY <1>1, <2>1, <2>2, <2>3, <2>4, <2>5, <2>6 DEF UpgradeNext
<1> QED BY <1>1, UpgradeInitInv, PTL DEF UpgradeSpec

(* A Hub serves its own schema and refuses only what is no beginning of it. *)
THEOREM CrashedMigrationContinues == UpgradeSpec => []MigrationContinued
<1>1. UpgradeInv => MigrationContinued
  BY DEF UpgradeInv
<1> QED BY <1>1, UpgradeInvariant, PTL

(* A reported backup is a whole database of the version it names.          *)
THEOREM ReportedBackupsWhole == UpgradeSpec => []BackupIsWhole
<1>1. UpgradeInv => BackupIsWhole
  BY DEF UpgradeInv
<1> QED BY <1>1, UpgradeInvariant, PTL

(* A rolled back upgrade leaves what served before, with its database.     *)
THEOREM RolledBackServes == UpgradeSpec => []RollbackServes
<1>1. UpgradeInv => RollbackServes
  BY DEF UpgradeInv, RollbackInv, InPlace, Previous, RollbackServes
<1> QED BY <1>1, UpgradeInvariant, PTL
=============================================================================
