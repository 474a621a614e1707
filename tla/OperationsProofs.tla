--------------------------- MODULE OperationsProofs ---------------------------
(***************************************************************************)
(* Theorems about Operations for every set of requests, hosts and releases *)
(* and every bound on restarts.  IInv is the inductive invariant: its      *)
(* parts tie the position of each Hub handler, of each Agent call, the     *)
(* audit row and the locks together.                                       *)
(***************************************************************************)
EXTENDS Operations, TLAPS

Truthful(r, w) ==
  w.state \in {"succeeded", "rolled_back"} =>
    /\ outcome[r] = w.state
    /\ AsConfirmed(r)
    /\ def[r].kind # "action" =>
         /\ w.before = Found(rootDef[r])
         /\ w.after = IF w.state = "succeeded" THEN rootDef[r].release ELSE Found(rootDef[r])

(* A request past its listing carries the confirmed definition.            *)
DefInv == \A r \in Requests : pc[r] # "idle" => def[r] \in Definition

(* The lock belongs to the one handler between TryLock and Unlock.         *)
LockInv == \A r \in Requests : InSection(r) <=> actionMu = r

(* The row follows the handler, and the call follows the row.              *)
RowInv ==
  \A r \in Requests :
    /\ pc[r] \in {"idle", "admit", "create"} => row[r] = NoRow
    /\ pc[r] = "start" => row[r].state = "requested"
    /\ pc[r] \in {"send", "wait", "finish"} => row[r].state = "running"
    /\ pc[r] \in {"idle", "admit", "create", "start", "send"} => call[r] = "none"
    /\ call[r] # "none" => row[r].state \notin {"none", "requested"}
    /\ ~up => pc[r] \in {"idle", "closed"}

OpenInv == up => \A r \in Requests : row[r].state \in Open => actionMu = r \/ r \in broken

(* Nothing is executed or answered before the helper started and ended.    *)
CallInv ==
  \A r \in Requests :
    /\ call[r] \in {"none", "sent", "listed", "locked"} => execs[r] = 0
    /\ execs[r] <= 1
    /\ call[r] # "done" => outcome[r] = "none" /\ reply[r] \in {NoReply, ErrorReply}
    /\ OnHost(r) => flock[def[r].host] = r

(* Each layer derives a definition with the identifier it was asked for.   *)
DerivedInv ==
  \A r \in Requests :
    /\ call[r] \in {"listed", "locked", "root"} =>
         agentDef[r] \in Definition /\ SameID(agentDef[r], def[r])
    /\ call[r] \in {"root", "orphan"} =>
         /\ rootDef[r] \in Definition
         /\ rootDef[r].kind = def[r].kind /\ rootDef[r].host = def[r].host

(* An answer that is a result tells the outcome of this very execution.    *)
ReplyInv ==
  \A r \in Requests :
    reply[r] \notin {NoReply, ErrorReply} =>
      /\ rootDef[r] \in Definition
      /\ rootDef[r].kind = def[r].kind
      /\ outcome[r] \in Outcomes
      /\ reply[r] \in ResultsOf(rootDef[r], outcome[r])

TruthInv ==
  \A r \in Requests :
    /\ pc[r] = "finish" => verdict[r].state \in Outcomes /\ Truthful(r, verdict[r])
    /\ Truthful(r, row[r])

IInv ==
  /\ TypeOK /\ DefInv /\ LockInv /\ RowInv /\ OpenInv
  /\ CallInv /\ DerivedInv /\ ReplyInv /\ TruthInv
-----------------------------------------------------------------------------
(* What a host offers are definitions, whatever its state file says.       *)
LEMMA DefinitionsTyped ==
  ASSUME TypeOK, NEW h \in Hosts
  PROVE  Definitions(h) \subseteq Definition
BY DEF TypeOK, Definitions, Definition, ReleaseState, AnyRelease, Kinds

(* An execution leaves a well-formed release state behind.                 *)
LEMMA StatesTyped ==
  ASSUME NEW d \in Definition, NEW o \in Outcomes, NEW s \in ReleaseState
  PROVE  StatesAfter(d, o, s) \subseteq ReleaseState
<1>1. Found(d) \in AnyRelease /\ d.release \in AnyRelease
  BY DEF Found, Definition, AnyRelease
<1>2. Switched(d) \subseteq ReleaseState
  BY <1>1 DEF Switched, ReleaseState, AnyRelease
<1>3. Restored(d, s) \in ReleaseState
  BY DEF Restored, ReleaseState, AnyRelease
<1> QED
  BY <1>2, <1>3 DEF StatesAfter

(* The helper's answers are typed results.                                 *)
LEMMA ResultTyped ==
  ASSUME NEW d \in Definition, NEW o \in Outcomes
  PROVE  ResultsOf(d, o) \subseteq Result
<1>1. Found(d) \in AnyRelease
  BY DEF Found, Definition, AnyRelease
<1> QED
  BY <1>1 DEF ResultsOf, Result, Definition, AnyRelease

(* Listing (executeAction, executeDeployment) keeps the invariant: the     *)
(* listed definition is typed, no row or call exists yet.                  *)
LEMMA HubListInv ==
  ASSUME IInv, NEW r \in Requests, HubList(r) PROVE IInv'
<1> USE OperationsAssumption, ReleaseAssumption DEF IInv, hubVars, agentVars
<1>1. TypeOK'
  <2>1. PICK h \in Hosts : \E d \in Definitions(h) : def' = [def EXCEPT ![r] = d]
    BY DEF HubList
  <2>2. PICK d \in Definitions(h) : def' = [def EXCEPT ![r] = d]
    BY <2>1
  <2>3. d \in Definition
    BY DefinitionsTyped
  <2> QED
    BY <2>2, <2>3 DEF HubList, TypeOK
<1>2. DefInv'
  <2>1. PICK h \in Hosts : \E d \in Definitions(h) : def' = [def EXCEPT ![r] = d]
    BY DEF HubList
  <2>2. PICK d \in Definitions(h) : def' = [def EXCEPT ![r] = d]
    BY <2>1
  <2>3. d \in Definition
    BY DefinitionsTyped
  <2> QED
    BY <2>2, <2>3 DEF HubList, TypeOK, DefInv
<1>3. LockInv'
  BY DEF HubList, LockInv, InSection, TypeOK
<1>4. RowInv'
  BY DEF HubList, RowInv, TypeOK, NoRow, Row, Outcomes
<1>5. OpenInv'
  BY DEF HubList, OpenInv, LockInv, InSection, TypeOK, Open, RowInv, NoRow, Outcomes
<1>6. CallInv'
  BY DEF HubList, CallInv, RowInv, OnHost, TypeOK
<1>7. DerivedInv'
  BY DEF HubList, DerivedInv, DefInv, RowInv, TypeOK, SameID, Definition, Kinds, AnyRelease
<1>8. ReplyInv'
  BY DEF HubList, ReplyInv, CallInv, DerivedInv, RowInv, TypeOK
<1>9. TruthInv'
  BY DEF HubList, TruthInv, Truthful, AsConfirmed, RowInv, CallInv, ReplyInv, TypeOK, NoRow, Outcomes
<1> QED
  BY <1>1, <1>2, <1>3, <1>4, <1>5, <1>6, <1>7, <1>8, <1>9

(* Admission keeps the invariant: the lock moves only from free to the one *)
(* request that enters the section.                                        *)
LEMMA HubTryLockInv ==
  ASSUME IInv, NEW r \in Requests, HubTryLock(r) PROVE IInv'
<1> USE OperationsAssumption, ReleaseAssumption DEF IInv, hubVars, agentVars
<1>1. TypeOK'
  BY DEF HubTryLock, TypeOK, Row, Definition, ReleaseState, Result, Outcomes, Kinds, AnyRelease, NoDef, NoReply, ErrorReply, Found
<1>2. DefInv'
  BY DEF HubTryLock, DefInv, TypeOK, Definition, Kinds, AnyRelease
<1>3. LockInv'
  BY DEF HubTryLock, LockInv, InSection, TypeOK
<1>4. RowInv'
  BY DEF HubTryLock, RowInv, TypeOK, NoRow, Row, Outcomes
<1>5. OpenInv'
  BY DEF HubTryLock, OpenInv, LockInv, InSection, TypeOK, Open, RowInv, NoRow, Outcomes
<1>6. CallInv'
  BY DEF HubTryLock, CallInv, RowInv, OnHost, TypeOK
<1>7. DerivedInv'
  BY DEF HubTryLock, DerivedInv, DefInv, RowInv, TypeOK, SameID, Definition, Kinds, AnyRelease
<1>8. ReplyInv'
  BY DEF HubTryLock, ReplyInv, CallInv, DerivedInv, RowInv, TypeOK
<1>9. TruthInv'
  BY DEF HubTryLock, TruthInv, Truthful, AsConfirmed, RowInv, CallInv, ReplyInv, TypeOK, NoRow, Outcomes
<1> QED
  BY <1>1, <1>2, <1>3, <1>4, <1>5, <1>6, <1>7, <1>8, <1>9

(* CreateOperation, or its failure with the unlock, keeps the invariant.   *)
LEMMA HubCreateInv ==
  ASSUME IInv, NEW r \in Requests, HubCreate(r) PROVE IInv'
<1> USE OperationsAssumption, ReleaseAssumption DEF IInv, hubVars, agentVars
<1>1. TypeOK'
  <2>1. def[r] \in Definition
    BY DEF HubCreate, DefInv
  <2>2. [state |-> "requested", before |-> def[r].before, after |-> NoRelease] \in Row
    BY <2>1 DEF Definition, Row, AnyRelease
  <2>3. row' \in [Requests -> Row]
    BY <2>2 DEF HubCreate, AuditWriteFails, TypeOK
  <2> QED
    BY <2>3 DEF HubCreate, AuditWriteFails, TypeOK
<1>2. DefInv'
  BY DEF HubCreate, AuditWriteFails, NoRow, DefInv, TypeOK, Definition, Kinds, AnyRelease
<1>3. LockInv'
  BY DEF HubCreate, AuditWriteFails, NoRow, LockInv, InSection, TypeOK
<1>4. RowInv'
  <2>1. CASE AuditWriteFails(r)
    BY <2>1 DEF HubCreate, AuditWriteFails, RowInv, TypeOK
  <2>2. CASE row' = [row EXCEPT ![r] = [state |-> "requested", before |-> def[r].before,
                                        after |-> NoRelease]]
    BY <2>2 DEF HubCreate, AuditWriteFails, RowInv, TypeOK
  <2> QED
    BY <2>1, <2>2 DEF HubCreate, AuditWriteFails
<1>5. OpenInv'
  BY DEF HubCreate, AuditWriteFails, NoRow, OpenInv, LockInv, InSection, TypeOK, Open, RowInv, NoRow, Outcomes
<1>6. CallInv'
  BY DEF HubCreate, AuditWriteFails, NoRow, CallInv, RowInv, OnHost, TypeOK
<1>7. DerivedInv'
  BY DEF HubCreate, AuditWriteFails, NoRow, DerivedInv, DefInv, RowInv, TypeOK, SameID, Definition, Kinds, AnyRelease
<1>8. ReplyInv'
  BY DEF HubCreate, AuditWriteFails, NoRow, ReplyInv, CallInv, DerivedInv, RowInv, TypeOK
<1>9. TruthInv'
  BY DEF HubCreate, AuditWriteFails, NoRow, TruthInv, Truthful, AsConfirmed, RowInv, CallInv, ReplyInv, TypeOK, NoRow, Outcomes
<1> QED
  BY <1>1, <1>2, <1>3, <1>4, <1>5, <1>6, <1>7, <1>8, <1>9

(* StartOperation, or its failure with the unlock, keeps the invariant:    *)
(* only now may the call be sent.                                          *)
LEMMA HubStartInv ==
  ASSUME IInv, NEW r \in Requests, HubStart(r) PROVE IInv'
<1> USE OperationsAssumption, ReleaseAssumption DEF IInv, hubVars, agentVars
<1>1. TypeOK'
  <2>1. row[r] \in Row
    BY DEF TypeOK
  <2>2. [row[r] EXCEPT !.state = "running"] \in Row
    BY <2>1 DEF Row
  <2>3. row' \in [Requests -> Row]
    BY <2>2 DEF HubStart, AuditWriteFails, TypeOK
  <2> QED
    BY <2>3 DEF HubStart, AuditWriteFails, TypeOK
<1>2. DefInv'
  BY DEF HubStart, AuditWriteFails, DefInv, TypeOK, Definition, Kinds, AnyRelease
<1>3. LockInv'
  BY DEF HubStart, AuditWriteFails, LockInv, InSection, TypeOK
<1>4. RowInv'
  <2>1. row[r] \in Row
    BY DEF TypeOK
  <2>2. [row[r] EXCEPT !.state = "running"].state = "running"
    BY <2>1 DEF Row
  <2>3. CASE AuditWriteFails(r)
    BY <2>3 DEF HubStart, AuditWriteFails, RowInv, TypeOK
  <2>4. CASE row' = [row EXCEPT ![r].state = "running"] /\ pc' = [pc EXCEPT ![r] = "send"]
    BY <2>2, <2>4 DEF HubStart, AuditWriteFails, RowInv, TypeOK
  <2> QED
    BY <2>3, <2>4 DEF HubStart, AuditWriteFails
<1>5. OpenInv'
  BY DEF HubStart, AuditWriteFails, OpenInv, LockInv, InSection, TypeOK, Open, RowInv, NoRow, Outcomes
<1>6. CallInv'
  BY DEF HubStart, AuditWriteFails, CallInv, RowInv, OnHost, TypeOK
<1>7. DerivedInv'
  BY DEF HubStart, AuditWriteFails, DerivedInv, DefInv, RowInv, TypeOK, SameID, Definition, Kinds, AnyRelease
<1>8. ReplyInv'
  BY DEF HubStart, AuditWriteFails, ReplyInv, CallInv, DerivedInv, RowInv, TypeOK
<1>9. TruthInv'
  <2>1. row[r] \in Row
    BY DEF TypeOK
  <2>2. [row[r] EXCEPT !.state = "running"].state = "running"
    BY <2>1 DEF Row
  <2>3. /\ pc' \in [Requests -> {"idle", "admit", "create", "start", "send", "wait",
                                  "finish", "closed"}]
        /\ \A q \in Requests : pc'[q] = "finish" => pc[q] = "finish"
    BY DEF HubStart, AuditWriteFails, TypeOK
  <2>4. \A q \in Requests : row'[q].state \in {"succeeded", "rolled_back"} => row'[q] = row[q]
    BY <2>2 DEF HubStart, AuditWriteFails, TypeOK
  <2>5. UNCHANGED <<verdict, outcome, rootDef, def>>
    BY DEF HubStart
  <2> QED
    BY <2>3, <2>4, <2>5 DEF TruthInv, Truthful, AsConfirmed
<1> QED
  BY <1>1, <1>2, <1>3, <1>4, <1>5, <1>6, <1>7, <1>8, <1>9

(* Sending the call keeps the invariant: the row says running.             *)
LEMMA HubSendInv ==
  ASSUME IInv, NEW r \in Requests, HubSend(r) PROVE IInv'
<1> USE OperationsAssumption, ReleaseAssumption DEF IInv, hubVars, agentVars
<1>1. TypeOK'
  BY DEF HubSend, TypeOK, Row, Definition, ReleaseState, Result, Outcomes, Kinds, AnyRelease, NoDef, NoReply, ErrorReply, Found
<1>2. DefInv'
  BY DEF HubSend, DefInv, TypeOK, Definition, Kinds, AnyRelease
<1>3. LockInv'
  BY DEF HubSend, LockInv, InSection, TypeOK
<1>4. RowInv'
  BY DEF HubSend, RowInv, TypeOK, NoRow, Row, Outcomes
<1>5. OpenInv'
  BY DEF HubSend, OpenInv, LockInv, InSection, TypeOK, Open, RowInv, NoRow, Outcomes
<1>6. CallInv'
  BY DEF HubSend, CallInv, RowInv, OnHost, TypeOK
<1>7. DerivedInv'
  BY DEF HubSend, DerivedInv, DefInv, RowInv, TypeOK, SameID, Definition, Kinds, AnyRelease
<1>8. ReplyInv'
  BY DEF HubSend, ReplyInv, CallInv, DerivedInv, RowInv, TypeOK
<1>9. TruthInv'
  BY DEF HubSend, TruthInv, Truthful, AsConfirmed, RowInv, CallInv, ReplyInv, TypeOK, NoRow, Outcomes
<1> QED
  BY <1>1, <1>2, <1>3, <1>4, <1>5, <1>6, <1>7, <1>8, <1>9

(* Receiving an answer keeps the invariant: a verdict that claims success  *)
(* or rollback is backed by this request's own execution.                  *)
LEMMA HubReceiveInv ==
  ASSUME IInv, NEW r \in Requests, HubReceive(r) PROVE IInv'
<1> USE OperationsAssumption, ReleaseAssumption DEF IInv, hubVars, agentVars
<1>1. TypeOK'
  BY DEF HubReceive, VerdictFor, FailedRow, Accepts, TypeOK, Row, Definition, ReleaseState, Result, Outcomes, Kinds, AnyRelease, NoDef, NoReply, ErrorReply, Found
<1>2. DefInv'
  BY DEF HubReceive, VerdictFor, FailedRow, Accepts, DefInv, TypeOK, Definition, Kinds, AnyRelease
<1>3. LockInv'
  BY DEF HubReceive, VerdictFor, FailedRow, Accepts, LockInv, InSection, TypeOK
<1>4. RowInv'
  BY DEF HubReceive, VerdictFor, FailedRow, Accepts, RowInv, TypeOK, NoRow, Row, Outcomes
<1>5. OpenInv'
  BY DEF HubReceive, VerdictFor, FailedRow, Accepts, OpenInv, LockInv, InSection, TypeOK, Open, RowInv, NoRow, Outcomes
<1>6. CallInv'
  BY DEF HubReceive, VerdictFor, FailedRow, Accepts, CallInv, RowInv, OnHost, TypeOK
<1>7. DerivedInv'
  BY DEF HubReceive, VerdictFor, FailedRow, Accepts, DerivedInv, DefInv, RowInv, TypeOK, SameID, Definition, Kinds, AnyRelease
<1>8. ReplyInv'
  BY DEF HubReceive, VerdictFor, FailedRow, Accepts, ReplyInv, CallInv, DerivedInv, RowInv, TypeOK
<1>9. TruthInv'
  <2>1. UNCHANGED <<row, outcome, rootDef, def>>
    BY DEF HubReceive
  <2>2. VerdictFor(r, reply[r]).state \in Outcomes /\ Truthful(r, VerdictFor(r, reply[r]))
    <3>1. CASE reply[r] = ErrorReply \/ ~Accepts(def[r], reply[r])
      BY <3>1 DEF VerdictFor, FailedRow, Truthful, Outcomes
    <3>2. CASE reply[r] # ErrorReply /\ Accepts(def[r], reply[r])
      <4>1. /\ rootDef[r] \in Definition /\ rootDef[r].kind = def[r].kind
            /\ outcome[r] \in Outcomes /\ reply[r] \in ResultsOf(rootDef[r], outcome[r])
        BY <3>2 DEF HubReceive, ReplyInv
      <4>2. reply[r].outcome = outcome[r] /\ reply[r].release = rootDef[r].release
        BY <4>1 DEF ResultsOf
      <4>3. AsConfirmed(r)
        BY <3>2, <4>1, <4>2 DEF Accepts, AsConfirmed
      <4>4. VerdictFor(r, reply[r]).state = outcome[r]
        BY <3>2, <4>2 DEF VerdictFor
      <4>5. ASSUME outcome[r] \in {"succeeded", "rolled_back"}, rootDef[r].kind # "action"
            PROVE  /\ reply[r].kind # "action" /\ reply[r].before = Found(rootDef[r])
                   /\ Found(rootDef[r]) # NoRelease
        BY <4>1, <4>5 DEF ResultsOf, Found
      <4> QED
        BY <3>2, <4>1, <4>2, <4>3, <4>4, <4>5 DEF VerdictFor, Truthful
    <3> QED
      BY <3>1, <3>2
  <2>3. verdict' = [verdict EXCEPT ![r] = VerdictFor(r, reply[r])]
    BY DEF HubReceive
  <2> QED
    BY <2>1, <2>2, <2>3 DEF HubReceive, TruthInv, Truthful, AsConfirmed, TypeOK
<1> QED
  BY <1>1, <1>2, <1>3, <1>4, <1>5, <1>6, <1>7, <1>8, <1>9

(* A timeout keeps the invariant: its verdict claims nothing.              *)
LEMMA HubTimeoutInv ==
  ASSUME IInv, NEW r \in Requests, HubTimeout(r) PROVE IInv'
<1> USE OperationsAssumption, ReleaseAssumption DEF IInv, hubVars, agentVars
<1>1. TypeOK'
  BY DEF HubTimeout, FailedRow, TypeOK, Row, Definition, ReleaseState, Result, Outcomes, Kinds, AnyRelease, NoDef, NoReply, ErrorReply, Found
<1>2. DefInv'
  BY DEF HubTimeout, FailedRow, DefInv, TypeOK, Definition, Kinds, AnyRelease
<1>3. LockInv'
  BY DEF HubTimeout, FailedRow, LockInv, InSection, TypeOK
<1>4. RowInv'
  BY DEF HubTimeout, FailedRow, RowInv, TypeOK, NoRow, Row, Outcomes
<1>5. OpenInv'
  BY DEF HubTimeout, FailedRow, OpenInv, LockInv, InSection, TypeOK, Open, RowInv, NoRow, Outcomes
<1>6. CallInv'
  BY DEF HubTimeout, FailedRow, CallInv, RowInv, OnHost, TypeOK
<1>7. DerivedInv'
  BY DEF HubTimeout, FailedRow, DerivedInv, DefInv, RowInv, TypeOK, SameID, Definition, Kinds, AnyRelease
<1>8. ReplyInv'
  BY DEF HubTimeout, FailedRow, ReplyInv, CallInv, DerivedInv, RowInv, TypeOK
<1>9. TruthInv'
  BY DEF HubTimeout, FailedRow, TruthInv, Truthful, AsConfirmed, RowInv, CallInv, ReplyInv, TypeOK, NoRow, Outcomes
<1> QED
  BY <1>1, <1>2, <1>3, <1>4, <1>5, <1>6, <1>7, <1>8, <1>9

(* FinishOperation, or its failure, keeps the invariant and frees the lock *)
(* of its holder.                                                          *)
LEMMA HubFinishInv ==
  ASSUME IInv, NEW r \in Requests, HubFinish(r) PROVE IInv'
<1> USE OperationsAssumption, ReleaseAssumption DEF IInv, hubVars, agentVars
<1>1. TypeOK'
  BY DEF HubFinish, AuditWriteFails, TypeOK, Row, Definition, ReleaseState, Result, Outcomes, Kinds, AnyRelease, NoDef, NoReply, ErrorReply, Found
<1>2. DefInv'
  BY DEF HubFinish, AuditWriteFails, DefInv, TypeOK, Definition, Kinds, AnyRelease
<1>3. LockInv'
  BY DEF HubFinish, AuditWriteFails, LockInv, InSection, TypeOK
<1>4. RowInv'
  <2>1. verdict[r].state \in Outcomes
    BY DEF HubFinish, TruthInv
  <2>2. CASE AuditWriteFails(r)
    BY <2>2 DEF HubFinish, AuditWriteFails, RowInv, TypeOK
  <2>3. CASE row' = [row EXCEPT ![r] = verdict[r]]
    BY <2>1, <2>3 DEF HubFinish, AuditWriteFails, RowInv, TypeOK, Outcomes
  <2> QED
    BY <2>2, <2>3 DEF HubFinish, AuditWriteFails
<1>5. OpenInv'
  <2>1. verdict[r].state \in Outcomes
    BY DEF HubFinish, TruthInv
  <2>2. actionMu = r
    BY DEF HubFinish, LockInv, InSection
  <2>3. CASE AuditWriteFails(r)
    BY <2>2, <2>3 DEF HubFinish, AuditWriteFails, OpenInv, TypeOK
  <2>4. CASE row' = [row EXCEPT ![r] = verdict[r]] /\ broken' = broken
    BY <2>1, <2>2, <2>4 DEF HubFinish, AuditWriteFails, OpenInv, TypeOK, Outcomes, Open
  <2> QED
    BY <2>3, <2>4 DEF HubFinish, AuditWriteFails
<1>6. CallInv'
  BY DEF HubFinish, AuditWriteFails, CallInv, RowInv, OnHost, TypeOK
<1>7. DerivedInv'
  BY DEF HubFinish, AuditWriteFails, DerivedInv, DefInv, RowInv, TypeOK, SameID, Definition, Kinds, AnyRelease
<1>8. ReplyInv'
  BY DEF HubFinish, AuditWriteFails, ReplyInv, CallInv, DerivedInv, RowInv, TypeOK
<1>9. TruthInv'
  BY DEF HubFinish, AuditWriteFails, TruthInv, Truthful, AsConfirmed, RowInv, CallInv, ReplyInv, TypeOK, NoRow, Outcomes
<1> QED
  BY <1>1, <1>2, <1>3, <1>4, <1>5, <1>6, <1>7, <1>8, <1>9

(* The Agent's own listing keeps the invariant: it finds the requested     *)
(* identifier or answers an error.                                         *)
LEMMA AgentListInv ==
  ASSUME IInv, NEW r \in Requests, AgentList(r) PROVE IInv'
<1> USE OperationsAssumption, ReleaseAssumption DEF IInv, hubVars, agentVars
<1>1. TypeOK'
  <2>1. def[r] \in Definition
    BY DEF AgentList, RowInv, DefInv
  <2>2. Definitions(def[r].host) \subseteq Definition
    BY <2>1, DefinitionsTyped DEF Definition
  <2>3. agentDef' \in [Requests -> Definition \cup {NoDef}]
    BY <2>2 DEF AgentList, TypeOK
  <2> QED
    BY <2>3 DEF AgentList, Answer, TypeOK
<1>2. DefInv'
  BY DEF AgentList, Answer, Definitions, DefInv, TypeOK, Definition, Kinds, AnyRelease
<1>3. LockInv'
  BY DEF AgentList, Answer, Definitions, LockInv, InSection, TypeOK
<1>4. RowInv'
  BY DEF AgentList, Answer, Definitions, RowInv, TypeOK, NoRow, Row, Outcomes
<1>5. OpenInv'
  BY DEF AgentList, Answer, Definitions, OpenInv, LockInv, InSection, TypeOK, Open, RowInv, NoRow, Outcomes
<1>6. CallInv'
  BY DEF AgentList, Answer, Definitions, CallInv, RowInv, OnHost, TypeOK
<1>7. DerivedInv'
  <2>1. def[r] \in Definition
    BY DEF AgentList, RowInv, DefInv
  <2>2. Definitions(def[r].host) \subseteq Definition
    BY <2>1, DefinitionsTyped DEF Definition
  <2>3. call'[r] = "listed" => agentDef'[r] \in Definition /\ SameID(agentDef'[r], def[r])
    BY <2>2 DEF AgentList, Answer, TypeOK
  <2>4. call'[r] \in {"listed", "done"}
    BY DEF AgentList, Answer, TypeOK
  <2>5. UNCHANGED <<def, rootDef>>
    BY DEF AgentList, hubVars
  <2>6. \A q \in Requests \ {r} : call'[q] = call[q] /\ agentDef'[q] = agentDef[q]
    BY DEF AgentList, Answer, TypeOK
  <2> QED
    BY <2>3, <2>4, <2>5, <2>6 DEF DerivedInv, SameID
<1>8. ReplyInv'
  BY DEF AgentList, Answer, Definitions, ReplyInv, CallInv, DerivedInv, RowInv, TypeOK
<1>9. TruthInv'
  BY DEF AgentList, Answer, Definitions, TruthInv, Truthful, AsConfirmed, RowInv, CallInv, ReplyInv, TypeOK, NoRow, Outcomes
<1> QED
  BY <1>1, <1>2, <1>3, <1>4, <1>5, <1>6, <1>7, <1>8, <1>9

(* The Agent's TryLock keeps the invariant.                                *)
LEMMA AgentTryLockInv ==
  ASSUME IInv, NEW r \in Requests, AgentTryLock(r) PROVE IInv'
<1> USE OperationsAssumption, ReleaseAssumption DEF IInv, hubVars, agentVars
<1>1. TypeOK'
  <2>1. def[r].host \in Hosts
    BY DEF AgentTryLock, RowInv, DefInv, Definition
  <2>2. agentMu' \in [Hosts -> Requests \cup {NoRequest}]
    BY <2>1 DEF AgentTryLock, TypeOK
  <2>3. call' \in [Requests -> {"none", "sent", "listed", "locked", "root", "orphan", "done"}]
        /\ reply' \in [Requests -> Result \cup {NoReply, ErrorReply}]
    BY DEF AgentTryLock, Answer, TypeOK
  <2> QED
    BY <2>2, <2>3 DEF AgentTryLock, TypeOK
<1>2. DefInv'
  BY DEF AgentTryLock, Answer, DefInv, TypeOK, Definition, Kinds, AnyRelease
<1>3. LockInv'
  BY DEF AgentTryLock, Answer, LockInv, InSection, TypeOK
<1>4. RowInv'
  BY DEF AgentTryLock, Answer, RowInv, TypeOK, NoRow, Row, Outcomes
<1>5. OpenInv'
  BY DEF AgentTryLock, Answer, OpenInv, LockInv, InSection, TypeOK, Open, RowInv, NoRow, Outcomes
<1>6. CallInv'
  BY DEF AgentTryLock, Answer, CallInv, RowInv, OnHost, TypeOK
<1>7. DerivedInv'
  BY DEF AgentTryLock, Answer, DerivedInv, DefInv, RowInv, TypeOK, SameID, Definition, Kinds, AnyRelease
<1>8. ReplyInv'
  BY DEF AgentTryLock, Answer, ReplyInv, CallInv, DerivedInv, RowInv, TypeOK
<1>9. TruthInv'
  BY DEF AgentTryLock, Answer, TruthInv, Truthful, AsConfirmed, RowInv, CallInv, ReplyInv, TypeOK, NoRow, Outcomes
<1> QED
  BY <1>1, <1>2, <1>3, <1>4, <1>5, <1>6, <1>7, <1>8, <1>9

(* The helper's start keeps the invariant: a free file lock means that no  *)
(* other helper runs on the host.                                          *)
LEMMA RootStartInv ==
  ASSUME IInv, NEW r \in Requests, RootStart(r) PROVE IInv'
<1> USE OperationsAssumption, ReleaseAssumption DEF IInv, hubVars, agentVars
<1>1. TypeOK'
  <2>1. def[r] \in Definition /\ def[r].host \in Hosts
    BY DEF RootStart, RowInv, DefInv, Definition
  <2>2. Definitions(def[r].host) \subseteq Definition
    BY <2>1, DefinitionsTyped
  <2>3. rootDef' \in [Requests -> Definition \cup {NoDef}]
    BY <2>2 DEF RootStart, TypeOK
  <2>4. /\ agentMu' \in [Hosts -> Requests \cup {NoRequest}]
        /\ flock' \in [Hosts -> Requests \cup {NoRequest}]
    BY <2>1 DEF RootStart, TypeOK
  <2>5. /\ call' \in [Requests -> {"none", "sent", "listed", "locked", "root", "orphan", "done"}]
        /\ reply' \in [Requests -> Result \cup {NoReply, ErrorReply}]
        /\ execs' \in [Requests -> Nat]
    BY DEF RootStart, Answer, TypeOK
  <2> QED
    BY <2>3, <2>4, <2>5 DEF RootStart, TypeOK
<1>2. DefInv'
  BY DEF RootStart, Answer, Definitions, DefInv, TypeOK, Definition, Kinds, AnyRelease
<1>3. LockInv'
  BY DEF RootStart, Answer, Definitions, LockInv, InSection, TypeOK
<1>4. RowInv'
  BY DEF RootStart, Answer, Definitions, RowInv, TypeOK, NoRow, Row, Outcomes
<1>5. OpenInv'
  BY DEF RootStart, Answer, Definitions, OpenInv, LockInv, InSection, TypeOK, Open, RowInv, NoRow, Outcomes
<1>6. CallInv'
  <2>1. def[r] \in Definition /\ def[r].host \in Hosts
    BY DEF RootStart, RowInv, DefInv, Definition
  <2>2. UNCHANGED <<def, outcome>>
    BY DEF RootStart
  <2>3. \A q \in Requests \ {r} : call'[q] = call[q] /\ execs'[q] = execs[q] /\ reply'[q] = reply[q]
    BY DEF RootStart, Answer, TypeOK
  <2>4. CASE call' = [call EXCEPT ![r] = "done"]
    <3>1. execs' = execs /\ flock' = flock
      BY <2>4 DEF RootStart, Answer, TypeOK
    <3>2. execs[r] = 0
      BY DEF RootStart, CallInv
    <3> QED
      BY <2>2, <2>3, <2>4, <3>1, <3>2 DEF CallInv, OnHost, TypeOK
  <2>5. CASE call' = [call EXCEPT ![r] = "root"]
    <3>1. /\ flock[def[r].host] = NoRequest /\ flock' = [flock EXCEPT ![def[r].host] = r]
          /\ execs' = [execs EXCEPT ![r] = @ + 1] /\ reply' = reply
      BY <2>5 DEF RootStart, Answer, TypeOK
    <3>2. execs[r] = 0 /\ outcome[r] = "none" /\ reply[r] \in {NoReply, ErrorReply}
      BY DEF RootStart, CallInv
    <3>3. \A q \in Requests \ {r} : OnHost(q) => def[q].host # def[r].host
      BY <3>1 DEF CallInv, TypeOK
    <3>4. \A q \in Requests : OnHost(q)' => flock'[def[q].host] = q
      BY <2>1, <2>3, <2>5, <3>1, <3>3 DEF CallInv, OnHost, TypeOK
    <3> QED
      BY <2>2, <2>3, <2>5, <3>1, <3>2, <3>4 DEF CallInv, TypeOK
  <2> QED
    BY <2>4, <2>5 DEF RootStart, Answer
<1>7. DerivedInv'
  <2>1. def[r] \in Definition /\ def[r].host \in Hosts
    BY DEF RootStart, RowInv, DefInv, Definition
  <2>2. Definitions(def[r].host) \subseteq Definition
    BY <2>1, DefinitionsTyped
  <2>3. SameID(agentDef[r], def[r])
    BY DEF RootStart, DerivedInv
  <2>4. \A q \in Requests \ {r} : call'[q] = call[q] /\ rootDef'[q] = rootDef[q]
    BY DEF RootStart, Answer, TypeOK
  <2>5. UNCHANGED <<def, agentDef>>
    BY DEF RootStart
  <2>6. CASE call' = [call EXCEPT ![r] = "done"]
    BY <2>4, <2>5, <2>6 DEF DerivedInv, SameID, TypeOK
  <2>7. CASE call' = [call EXCEPT ![r] = "root"]
    <3>1. rootDef'[r] \in Definition /\ SameID(rootDef'[r], agentDef[r])
      BY <2>2, <2>7 DEF RootStart, Answer, TypeOK
    <3>2. rootDef'[r].kind = def[r].kind /\ rootDef'[r].host = def[r].host
      BY <2>3, <3>1 DEF SameID
    <3>3. agentDef[r] \in Definition
      BY DEF RootStart, DerivedInv
    <3> QED
      BY <2>3, <2>4, <2>5, <2>7, <3>1, <3>2, <3>3 DEF DerivedInv, SameID, TypeOK
  <2> QED
    BY <2>6, <2>7 DEF RootStart, Answer
<1>8. ReplyInv'
  BY DEF RootStart, Answer, Definitions, ReplyInv, CallInv, DerivedInv, RowInv, TypeOK
<1>9. TruthInv'
  BY DEF RootStart, Answer, Definitions, TruthInv, Truthful, AsConfirmed, RowInv, CallInv, ReplyInv, TypeOK, NoRow, Outcomes
<1> QED
  BY <1>1, <1>2, <1>3, <1>4, <1>5, <1>6, <1>7, <1>8, <1>9

(* The helper's end and the Agent's answer keep the invariant: the answer  *)
(* is the result of this execution.                                        *)
LEMMA RootFinishInv ==
  ASSUME IInv, NEW r \in Requests, RootFinish(r) PROVE IInv'
<1> USE OperationsAssumption, ReleaseAssumption DEF IInv, hubVars, agentVars
<1>1. TypeOK'
  <2>1. /\ def[r] \in Definition /\ def[r].host \in Hosts
        /\ rootDef[r] \in Definition
    BY DEF RootFinish, RowInv, DefInv, DerivedInv, Definition
  <2>2. PICK o \in Outcomes : Effect(r, o)
    BY DEF RootFinish
  <2>3. rel' \in [Hosts -> ReleaseState]
    BY <2>1, <2>2, StatesTyped DEF Effect, TypeOK
  <2>4. outcome' \in [Requests -> Outcomes \cup {"none"}]
    BY <2>2 DEF Effect, TypeOK
  <2>5. flock' \in [Hosts -> Requests \cup {NoRequest}]
    BY <2>1, <2>2 DEF Effect, TypeOK
  <2>6. call' \in [Requests -> {"none", "sent", "listed", "locked", "root", "orphan", "done"}]
    BY DEF RootFinish, Answer, TypeOK
  <2>7. reply' \in [Requests -> Result \cup {NoReply, ErrorReply}]
    BY <2>1, ResultTyped DEF RootFinish, Answer, TypeOK
  <2>8. agentMu' \in [Hosts -> Requests \cup {NoRequest}]
    BY <2>1 DEF RootFinish, TypeOK
  <2> QED
    BY <2>3, <2>4, <2>5, <2>6, <2>7, <2>8 DEF RootFinish, TypeOK
<1>2. DefInv'
  BY DEF RootFinish, Answer, Effect, Accepts, ResultsOf, StatesAfter, Switched, Restored, DefInv, TypeOK, Definition, Kinds, AnyRelease
<1>3. LockInv'
  BY DEF RootFinish, Answer, Effect, Accepts, ResultsOf, StatesAfter, Switched, Restored, LockInv, InSection, TypeOK
<1>4. RowInv'
  BY DEF RootFinish, Answer, Effect, Accepts, ResultsOf, StatesAfter, Switched, Restored, RowInv, TypeOK, NoRow, Row, Outcomes
<1>5. OpenInv'
  BY DEF RootFinish, Answer, Effect, Accepts, ResultsOf, StatesAfter, Switched, Restored, OpenInv, LockInv, InSection, TypeOK, Open, RowInv, NoRow, Outcomes
<1>6. CallInv'
  BY DEF RootFinish, Answer, Effect, Accepts, ResultsOf, StatesAfter, Switched, Restored, CallInv, RowInv, OnHost, TypeOK
<1>7. DerivedInv'
  BY DEF RootFinish, Answer, Effect, Accepts, ResultsOf, StatesAfter, Switched, Restored, DerivedInv, DefInv, RowInv, TypeOK, SameID, Definition, Kinds, AnyRelease
<1>8. ReplyInv'
  BY DEF RootFinish, Answer, Effect, Accepts, ResultsOf, StatesAfter, Switched, Restored, ReplyInv, CallInv, DerivedInv, RowInv, TypeOK
<1>9. TruthInv'
  BY DEF RootFinish, Answer, Effect, Accepts, ResultsOf, StatesAfter, Switched, Restored, TruthInv, Truthful, AsConfirmed, RowInv, CallInv, ReplyInv, TypeOK, NoRow, Outcomes
<1> QED
  BY <1>1, <1>2, <1>3, <1>4, <1>5, <1>6, <1>7, <1>8, <1>9

(* The end of a helper without an Agent keeps the invariant.               *)
LEMMA OrphanFinishInv ==
  ASSUME IInv, NEW r \in Requests, OrphanFinish(r) PROVE IInv'
<1> USE OperationsAssumption, ReleaseAssumption DEF IInv, hubVars, agentVars
<1>1. TypeOK'
  <2>1. /\ def[r] \in Definition /\ def[r].host \in Hosts
        /\ rootDef[r] \in Definition
    BY DEF OrphanFinish, RowInv, DefInv, DerivedInv, Definition
  <2>2. PICK o \in Outcomes : Effect(r, o)
    BY DEF OrphanFinish
  <2>3. rel' \in [Hosts -> ReleaseState]
    BY <2>1, <2>2, StatesTyped DEF Effect, TypeOK
  <2>4. outcome' \in [Requests -> Outcomes \cup {"none"}]
    BY <2>2 DEF Effect, TypeOK
  <2>5. flock' \in [Hosts -> Requests \cup {NoRequest}]
    BY <2>1, <2>2 DEF Effect, TypeOK
  <2>6. call' \in [Requests -> {"none", "sent", "listed", "locked", "root", "orphan", "done"}]
    BY DEF OrphanFinish, Answer, TypeOK
  <2> QED
    BY <2>3, <2>4, <2>5, <2>6 DEF OrphanFinish, TypeOK
<1>2. DefInv'
  BY DEF OrphanFinish, Effect, StatesAfter, Switched, Restored, DefInv, TypeOK, Definition, Kinds, AnyRelease
<1>3. LockInv'
  BY DEF OrphanFinish, Effect, StatesAfter, Switched, Restored, LockInv, InSection, TypeOK
<1>4. RowInv'
  BY DEF OrphanFinish, Effect, StatesAfter, Switched, Restored, RowInv, TypeOK, NoRow, Row, Outcomes
<1>5. OpenInv'
  BY DEF OrphanFinish, Effect, StatesAfter, Switched, Restored, OpenInv, LockInv, InSection, TypeOK, Open, RowInv, NoRow, Outcomes
<1>6. CallInv'
  <2>1. def[r] \in Definition /\ def[r].host \in Hosts
    BY DEF OrphanFinish, RowInv, DefInv, Definition
  <2>2. /\ flock' = [flock EXCEPT ![def[r].host] = NoRequest]
        /\ \A q \in Requests \ {r} : outcome'[q] = outcome[q]
    BY DEF OrphanFinish, Effect, TypeOK
  <2>3. call' = [call EXCEPT ![r] = "done"]
    BY DEF OrphanFinish
  <2>4. flock[def[r].host] = r
    BY DEF OrphanFinish, CallInv, OnHost
  <2>5. \A q \in Requests : OnHost(q)' => flock'[def[q].host] = q
    BY <2>1, <2>2, <2>3, <2>4 DEF CallInv, OnHost, TypeOK
  <2> QED
    BY <2>2, <2>3, <2>5 DEF OrphanFinish, CallInv, TypeOK
<1>7. DerivedInv'
  BY DEF OrphanFinish, Effect, StatesAfter, Switched, Restored, DerivedInv, DefInv, RowInv, TypeOK, SameID, Definition, Kinds, AnyRelease
<1>8. ReplyInv'
  BY DEF OrphanFinish, Effect, StatesAfter, Switched, Restored, ReplyInv, CallInv, DerivedInv, RowInv, TypeOK
<1>9. TruthInv'
  BY DEF OrphanFinish, Effect, StatesAfter, Switched, Restored, TruthInv, Truthful, AsConfirmed, RowInv, CallInv, ReplyInv, TypeOK, NoRow, Outcomes
<1> QED
  BY <1>1, <1>2, <1>3, <1>4, <1>5, <1>6, <1>7, <1>8, <1>9

(* The initial states satisfy the invariant.                               *)
LEMMA InitInv == Init => IInv
<1> SUFFICES ASSUME Init PROVE IInv
  OBVIOUS
<1> USE OperationsAssumption
<1>1. TypeOK
  BY DEF Init, TypeOK, NoRow, NoReply, Row, AnyRelease
<1>2. DefInv /\ LockInv /\ OpenInv
  BY DEF Init, DefInv, LockInv, InSection, OpenInv, Open, NoRow
<1>3. RowInv /\ CallInv /\ DerivedInv /\ ReplyInv
  BY DEF Init, RowInv, CallInv, OnHost, DerivedInv, ReplyInv
<1>4. TruthInv
  BY DEF Init, TruthInv, Truthful, NoRow
<1> QED
  BY <1>1, <1>2, <1>3, <1>4 DEF IInv

(* The end of the Hub process keeps the invariant: no handler is left in   *)
(* the section.                                                            *)
LEMMA HubStopInv ==
  ASSUME IInv, HubStop PROVE IInv'
<1> USE OperationsAssumption, ReleaseAssumption DEF IInv, agentVars
<1>1. TypeOK'
  <2>1. pc' \in [Requests -> {"idle", "admit", "create", "start", "send", "wait",
                              "finish", "closed"}]
    BY DEF HubStop
  <2>2. hubRestarts' \in Nat
    BY DEF HubStop, TypeOK
  <2> QED
    BY <2>1, <2>2 DEF HubStop, TypeOK
<1>2. DefInv'
  BY DEF HubStop, DefInv
<1>3. LockInv'
  BY DEF HubStop, LockInv, InSection
<1>4. RowInv'
  BY DEF HubStop, RowInv
<1>5. OpenInv'
  BY DEF HubStop, OpenInv
<1>6. CallInv'
  BY DEF HubStop, CallInv, OnHost
<1>7. DerivedInv'
  BY DEF HubStop, DerivedInv, SameID
<1>8. ReplyInv'
  BY DEF HubStop, ReplyInv
<1>9. TruthInv'
  BY DEF HubStop, TruthInv, Truthful, AsConfirmed
<1> QED
  BY <1>1, <1>2, <1>3, <1>4, <1>5, <1>6, <1>7, <1>8, <1>9

(* Recovery keeps the invariant: it closes exactly the open rows.          *)
LEMMA HubStartupInv ==
  ASSUME IInv, HubStartup PROVE IInv'
<1> USE OperationsAssumption, ReleaseAssumption DEF IInv, agentVars
<1>1. \A r \in Requests :
        /\ row'[r] \in Row
        /\ row[r].state \in Open => row'[r].state = "failed"
        /\ row[r].state \notin Open => row'[r] = row[r]
  <2>1. \A r \in Requests : row[r] \in Row
    BY DEF TypeOK
  <2>2. \A r \in Requests : /\ [row[r] EXCEPT !.state = "failed"] \in Row
                            /\ [row[r] EXCEPT !.state = "failed"].state = "failed"
    BY <2>1 DEF Row, Outcomes
  <2> QED
    BY <2>1, <2>2 DEF HubStartup, FailInterruptedOperations
<1>2. TypeOK'
  BY <1>1 DEF HubStartup, FailInterruptedOperations, TypeOK
<1>3. DefInv'
  BY DEF HubStartup, DefInv
<1>4. LockInv'
  BY DEF HubStartup, LockInv, InSection
<1>5. RowInv'
  BY <1>1 DEF HubStartup, RowInv, Open, NoRow
<1>6. OpenInv'
  BY <1>1 DEF HubStartup, OpenInv, Open
<1>7. CallInv'
  BY DEF HubStartup, CallInv, OnHost
<1>8. DerivedInv'
  BY DEF HubStartup, DerivedInv, SameID
<1>9. ReplyInv'
  BY DEF HubStartup, ReplyInv
<1>10. TruthInv'
  BY <1>1 DEF HubStartup, TruthInv, Truthful, AsConfirmed, RowInv
<1> QED
  BY <1>2, <1>3, <1>4, <1>5, <1>6, <1>7, <1>8, <1>9, <1>10

(* A restart of an Agent keeps the invariant, whether its helper outlives  *)
(* it or is killed with it.                                                *)
LEMMA AgentRestartInv ==
  ASSUME IInv, NEW h \in Hosts, AgentRestart(h) PROVE IInv'
<1> USE OperationsAssumption, ReleaseAssumption DEF IInv, hubVars
<1> DEFINE lost == {r \in Requests : /\ call[r] \in {"sent", "listed", "locked", "root"}
                                     /\ def[r].host = h}
           inRoot == {r \in lost : call[r] = "root"}
<1>1. /\ UNCHANGED <<up, pc, def, actionMu, row, verdict, broken, agentDef, rootDef, execs>>
      /\ hubRestarts' = hubRestarts /\ agentRestarts' = agentRestarts + 1
      /\ agentMu' = [agentMu EXCEPT ![h] = NoRequest]
      /\ reply' = [r \in Requests |-> IF r \in lost THEN ErrorReply ELSE reply[r]]
  BY DEF AgentRestart
<1>2. \A r \in lost : execs[r] <= 1 /\ outcome[r] = "none"
  BY DEF CallInv
<1>3. CASE /\ call' = [r \in Requests |-> IF r \in inRoot THEN "orphan"
                                          ELSE IF r \in lost THEN "done" ELSE call[r]]
           /\ UNCHANGED <<outcome, rel, flock>>
  <2>1. TypeOK'
    BY <1>1, <1>3 DEF TypeOK
  <2>2. DefInv' /\ LockInv' /\ RowInv' /\ OpenInv'
    BY <1>1, <1>3 DEF DefInv, LockInv, InSection, RowInv, OpenInv
  <2>3. CallInv'
    BY <1>1, <1>3 DEF CallInv, OnHost
  <2>4. DerivedInv'
    BY <1>1, <1>3 DEF DerivedInv, SameID
  <2>5. ReplyInv' /\ TruthInv'
    BY <1>1, <1>3 DEF ReplyInv, TruthInv, Truthful, AsConfirmed
  <2> QED
    BY <2>1, <2>2, <2>3, <2>4, <2>5
<1>4. ASSUME NEW r \in inRoot,
             call' = [q \in Requests |-> IF q \in lost THEN "done" ELSE call[q]],
             Effect(r, "failed")
      PROVE  IInv'
  <2>1. /\ def[r] \in Definition /\ def[r].host = h /\ rootDef[r] \in Definition
        /\ flock[h] = r
    BY DEF RowInv, DefInv, DerivedInv, CallInv, OnHost
  <2>2. /\ outcome' = [outcome EXCEPT ![r] = "failed"]
        /\ flock' = [flock EXCEPT ![h] = NoRequest]
        /\ \E s \in StatesAfter(rootDef[r], "failed", rel[h]) : rel' = [rel EXCEPT ![h] = s]
    BY <1>4, <2>1 DEF Effect
  <2>3. rel' \in [Hosts -> ReleaseState]
    BY <2>1, <2>2, StatesTyped DEF TypeOK, Outcomes
  <2>4. TypeOK'
    BY <1>1, <1>4, <2>2, <2>3 DEF TypeOK, Outcomes
  <2>5. DefInv' /\ LockInv' /\ RowInv' /\ OpenInv'
    BY <1>1, <1>4 DEF DefInv, LockInv, InSection, RowInv, OpenInv
  <2>6. \A q \in Requests : OnHost(q)' => def[q].host # h /\ call'[q] = call[q]
    <3> SUFFICES ASSUME NEW q \in Requests, OnHost(q)' PROVE def[q].host # h /\ call'[q] = call[q]
      OBVIOUS
    <3>1. q \notin lost /\ call'[q] = call[q]
      BY <1>4 DEF OnHost
    <3>2. CASE def[q].host = h
      <4>1. call[q] = "orphan"
        BY <3>1, <3>2 DEF OnHost
      <4> QED
        BY <2>1, <3>1, <3>2, <4>1 DEF CallInv, OnHost
    <3> QED
      BY <3>1, <3>2
  <2>7. CallInv'
    BY <1>1, <1>4, <2>2, <2>6 DEF CallInv, OnHost, TypeOK, RowInv, DefInv, Definition
  <2>8. DerivedInv'
    BY <1>1, <1>4 DEF DerivedInv, SameID
  <2>9. ReplyInv'
    BY <1>1, <2>2 DEF ReplyInv, TypeOK
  <2>10. TruthInv'
    BY <1>1, <1>2, <2>2 DEF TruthInv, Truthful, AsConfirmed, TypeOK
  <2> QED
    BY <2>4, <2>5, <2>7, <2>8, <2>9, <2>10
<1> QED
  BY <1>3, <1>4 DEF AgentRestart

(* A step that changes nothing keeps the invariant.                        *)
LEMMA StutterInv ==
  ASSUME IInv, UNCHANGED vars PROVE IInv'
<1> USE DEF vars, hubVars, agentVars, IInv
<1>1. TypeOK' /\ DefInv' /\ LockInv' /\ RowInv' /\ OpenInv'
  BY DEF TypeOK, DefInv, LockInv, InSection, RowInv, OpenInv
<1>2. CallInv' /\ DerivedInv' /\ ReplyInv' /\ TruthInv'
  BY DEF CallInv, OnHost, DerivedInv, SameID, ReplyInv, TruthInv, Truthful, AsConfirmed
<1> QED
  BY <1>1, <1>2

(* Every step keeps the invariant.                                         *)
LEMMA NextInv ==
  ASSUME IInv, [Next]_vars PROVE IInv'
<1>1. CASE \E r \in Requests : HubStep(r)
  BY <1>1, HubListInv, HubTryLockInv, HubCreateInv, HubStartInv, HubSendInv,
     HubReceiveInv, HubTimeoutInv, HubFinishInv DEF HubStep
<1>2. CASE \E r \in Requests : AgentStep(r)
  BY <1>2, AgentListInv, AgentTryLockInv, RootStartInv, RootFinishInv, OrphanFinishInv
     DEF AgentStep
<1>3. CASE HubStop \/ HubStartup \/ \E h \in Hosts : AgentRestart(h)
  BY <1>3, HubStopInv, HubStartupInv, AgentRestartInv
<1>4. CASE UNCHANGED vars
  BY <1>4, StutterInv
<1> QED
  BY <1>1, <1>2, <1>3, <1>4 DEF Next

(* The invariant holds in every reachable state, for every number of       *)
(* requests, hosts, releases and restarts.                                 *)
THEOREM Inductive == Spec => []IInv
BY InitInv, NextInv, PTL DEF Spec

(* Handlers, calls, rows and locks keep their types in every behaviour.    *)
THEOREM TypeCorrect == Spec => []TypeOK
<1>1. IInv => TypeOK
  BY DEF IInv
<1> QED
  BY <1>1, Inductive, PTL

(* No host is contacted for a request whose row is not durably past        *)
(* requested (executeAction, executeDeployment).                           *)
THEOREM Audited == Spec => []AuditedBeforeContact
<1>1. IInv => AuditedBeforeContact
  BY DEF IInv, RowInv, AuditedBeforeContact
<1> QED
  BY <1>1, Inductive, PTL

(* No request executes twice, whatever is lost or restarted.               *)
THEOREM ExecutedOnce == Spec => []SingleExecution
<1>1. IInv => SingleExecution
  BY DEF IInv, CallInv, SingleExecution
<1> QED
  BY <1>1, Inductive, PTL

(* A row that claims success or rollback tells what this request's         *)
(* execution did, from which release and to which.                         *)
THEOREM RowsTruthful == Spec => []TruthfulRow
<1>1. IInv => TruthfulRow
  BY DEF IInv, TruthInv, Truthful, TruthfulRow
<1> QED
  BY <1>1, Inductive, PTL

(* The file lock alone keeps two helpers of one host apart, also after     *)
(* restarts of the Agent.                                                  *)
THEOREM HelperExclusive == Spec => []OneHelperPerHost
<1>1. IInv => OneHelperPerHost
  BY DEF IInv, CallInv, OneHelperPerHost
<1> QED
  BY <1>1, Inductive, PTL

(* While the Hub serves, an open row belongs to the lock holder or to a    *)
(* failed audit write.                                                     *)
THEOREM RowsOwned == Spec => []NoAbandonedRow
<1>1. IInv => NoAbandonedRow
  BY DEF IInv, OpenInv, NoAbandonedRow
<1> QED
  BY <1>1, Inductive, PTL

(* No step changes a terminal row.                                         *)
LEMMA TerminalStep ==
  ASSUME IInv, [Next]_vars, NEW r \in Requests, row[r].state \in Outcomes
  PROVE  row'[r] = row[r]
<1> USE DEF IInv, Outcomes
<1>1. ASSUME NEW q \in Requests, HubStep(q) PROVE row'[r] = row[r]
  <2>1. CASE HubCreate(q) \/ HubStart(q) \/ HubFinish(q)
    <3>1. row[q].state \notin Outcomes
      BY <2>1 DEF HubCreate, HubStart, HubFinish, RowInv, NoRow
    <3> QED
      BY <2>1, <3>1 DEF HubCreate, HubStart, HubFinish, AuditWriteFails, TypeOK
  <2>2. CASE row' = row
    BY <2>2
  <2> QED
    BY <1>1, <2>1, <2>2 DEF HubStep, HubList, HubTryLock, HubSend, HubReceive, HubTimeout
<1>2. CASE \E q \in Requests : AgentStep(q)
  BY <1>2 DEF AgentStep, AgentList, AgentTryLock, RootStart, RootFinish, OrphanFinish, hubVars
<1>3. CASE HubStop \/ \E h \in Hosts : AgentRestart(h)
  BY <1>3 DEF HubStop, AgentRestart, hubVars
<1>4. CASE HubStartup
  BY <1>4 DEF HubStartup, FailInterruptedOperations, Open
<1>5. CASE UNCHANGED vars
  BY <1>5 DEF vars, hubVars
<1> QED
  BY <1>1, <1>2, <1>3, <1>4, <1>5 DEF Next

(* A terminal row is final in every behaviour.                             *)
THEOREM RowsFinal == Spec => TerminalRowsFinal
<1>1. IInv /\ [Next]_vars => [\A r \in Requests : row[r].state \in Outcomes => row'[r] = row[r]]_vars
  BY TerminalStep
<1> QED
  BY <1>1, Inductive, PTL DEF Spec, TerminalRowsFinal

-----------------------------------------------------------------------------
(* A step that keeps every row's state and every effect is invisible to    *)
(* the ledger.                                                             *)
LEMMA LedgerStutter ==
  ASSUME \A r \in Requests : row'[r].state = row[r].state /\ EffectOf(r)' = EffectOf(r)
  PROVE  UNCHANGED Ledger!lvars
BY DEF Ledger!lvars

(* A request that has not ended its execution has no effect in the ledger. *)
LEMMA EffectUndone ==
  ASSUME NEW r \in Requests, outcome[r] = "none" PROVE EffectOf(r) = "none"
BY DEF EffectOf

(* HubCreate records the request or is invisible.                          *)
LEMMA LedgerRecord ==
  ASSUME IInv, NEW r \in Requests, HubCreate(r) PROVE [Ledger!LNext]_(Ledger!lvars)
<1>1. UNCHANGED <<outcome, rootDef, def>>
  BY DEF HubCreate, agentVars
<1>2. \A q \in Requests : EffectOf(q)' = EffectOf(q)
  BY <1>1 DEF EffectOf, AsConfirmed
<1>3. CASE row' = row
  BY <1>2, <1>3, LedgerStutter
<1>4. CASE row' = [row EXCEPT ![r] = [state |-> "requested", before |-> def[r].before,
                                      after |-> NoRelease]]
  <2>1. row[r].state = "none" /\ row'[r].state = "requested"
    BY <1>4 DEF HubCreate, IInv, RowInv, NoRow, TypeOK
  <2>2. \A q \in Requests \ {r} : row'[q] = row[q]
    BY <1>4 DEF IInv, TypeOK
  <2>3. Ledger!Record(r)
    BY <1>2, <2>1, <2>2 DEF Ledger!Record
  <2> QED
    BY <2>3 DEF Ledger!LNext
<1> QED
  BY <1>3, <1>4 DEF HubCreate, AuditWriteFails

(* HubStart begins the request or is invisible.                            *)
LEMMA LedgerBegin ==
  ASSUME IInv, NEW r \in Requests, HubStart(r) PROVE [Ledger!LNext]_(Ledger!lvars)
<1>1. UNCHANGED <<outcome, rootDef, def>>
  BY DEF HubStart, agentVars
<1>2. \A q \in Requests : EffectOf(q)' = EffectOf(q)
  BY <1>1 DEF EffectOf, AsConfirmed
<1>3. CASE row' = row
  BY <1>2, <1>3, LedgerStutter
<1>4. CASE row' = [row EXCEPT ![r].state = "running"]
  <2>1. row[r].state = "requested" /\ row[r] \in Row
    BY DEF HubStart, IInv, RowInv, TypeOK
  <2>2. row'[r].state = "running"
    BY <1>4, <2>1 DEF IInv, TypeOK, Row
  <2>3. \A q \in Requests \ {r} : row'[q] = row[q]
    BY <1>4 DEF IInv, TypeOK
  <2>4. Ledger!Begin(r)
    BY <1>2, <2>1, <2>2, <2>3 DEF Ledger!Begin
  <2> QED
    BY <2>4 DEF Ledger!LNext
<1> QED
  BY <1>3, <1>4 DEF HubStart, AuditWriteFails

(* HubFinish settles the request, with a claim only if the effect backs    *)
(* it, or is invisible.                                                    *)
LEMMA LedgerSettle ==
  ASSUME IInv, NEW r \in Requests, HubFinish(r) PROVE [Ledger!LNext]_(Ledger!lvars)
<1>1. UNCHANGED <<outcome, rootDef, def>>
  BY DEF HubFinish, agentVars
<1>2. \A q \in Requests : EffectOf(q)' = EffectOf(q)
  BY <1>1 DEF EffectOf, AsConfirmed
<1>3. CASE row' = row
  BY <1>2, <1>3, LedgerStutter
<1>4. CASE row' = [row EXCEPT ![r] = verdict[r]]
  <2>1. row[r].state = "running" /\ row'[r].state = verdict[r].state
    BY <1>4 DEF HubFinish, IInv, RowInv, TypeOK
  <2>2. \A q \in Requests \ {r} : row'[q] = row[q]
    BY <1>4 DEF IInv, TypeOK
  <2>3. verdict[r].state \in Outcomes /\ Truthful(r, verdict[r])
    BY DEF HubFinish, IInv, TruthInv
  <2>4. verdict[r].state \in {"succeeded", "rolled_back"} => EffectOf(r) = verdict[r].state
    BY <2>3 DEF Truthful, EffectOf
  <2>5. Ledger!Settle(r)
    BY <1>2, <2>1, <2>2, <2>3, <2>4 DEF Ledger!Settle, Ledger!Claims, Outcomes
  <2> QED
    BY <2>5 DEF Ledger!LNext
<1> QED
  BY <1>3, <1>4 DEF HubFinish, AuditWriteFails

(* The end of a helper is the request's single effect, while its row is    *)
(* running or already failed.                                              *)
LEMMA LedgerAct ==
  ASSUME IInv, TypeOK', NEW r \in Requests, OnHost(r), NEW o \in Outcomes, Effect(r, o),
         UNCHANGED <<row, def, rootDef>>
  PROVE  Ledger!Act(r)
<1>1. outcome[r] = "none"
  BY DEF IInv, CallInv, OnHost
<1>2. row[r].state \in {"running", "failed"}
  BY <1>1 DEF IInv, TypeOK, Row, RowInv, OnHost, TruthInv, Truthful, Outcomes
<1>3. outcome'[r] \in Outcomes /\ \A q \in Requests \ {r} : outcome'[q] = outcome[q]
  BY DEF Effect, IInv, TypeOK
<1>4. EffectOf(r)' \in Ledger!Effects \ {"none"}
  BY <1>3 DEF EffectOf, Outcomes, Ledger!Effects, Ledger!Claims
<1>5. \A q \in Requests \ {r} : EffectOf(q)' = EffectOf(q)
  BY <1>3 DEF EffectOf, AsConfirmed
<1> QED
  BY <1>1, <1>2, <1>4, <1>5, EffectUndone DEF Ledger!Act

(* Recovery closes the interrupted rows of the ledger.                     *)
LEMMA LedgerClose ==
  ASSUME IInv, HubStartup PROVE Ledger!CloseInterrupted
<1>1. \A r \in Requests : row[r] \in Row
  BY DEF IInv, TypeOK
<1>2. \A r \in Requests : row'[r].state = IF row[r].state \in {"requested", "running"}
                                          THEN "failed" ELSE row[r].state
  BY <1>1 DEF HubStartup, FailInterruptedOperations, Open, Row
<1>3. \A r \in Requests : EffectOf(r)' = EffectOf(r)
  BY DEF HubStartup, agentVars, EffectOf, AsConfirmed
<1> QED
  BY <1>2, <1>3 DEF Ledger!CloseInterrupted

(* Initial states map to the ledger's initial state.                       *)
LEMMA LedgerInit == Init => Ledger!LInit
BY DEF Init, Ledger!LInit, EffectOf, NoRow

(* Every step maps to a step of the ledger or is invisible.                *)
LEMMA LedgerStep ==
  ASSUME IInv, TypeOK', [Next]_vars PROVE [Ledger!LNext]_(Ledger!lvars)
<1>1. ASSUME NEW r \in Requests, HubStep(r) PROVE [Ledger!LNext]_(Ledger!lvars)
  <2>1. CASE HubCreate(r) \/ HubStart(r) \/ HubFinish(r)
    BY <2>1, LedgerRecord, LedgerBegin, LedgerSettle
  <2>2. CASE HubList(r)
    <3>1. outcome[r] = "none" /\ row' = row /\ outcome' = outcome /\ rootDef' = rootDef
      BY <2>2 DEF HubList, IInv, RowInv, CallInv, agentVars
    <3>2. \A q \in Requests \ {r} : def'[q] = def[q]
      BY <2>2 DEF HubList, IInv, TypeOK
    <3>3. \A q \in Requests : EffectOf(q)' = EffectOf(q)
      BY <3>1, <3>2 DEF EffectOf, AsConfirmed
    <3> QED
      BY <3>1, <3>3, LedgerStutter
  <2>3. CASE HubTryLock(r) \/ HubSend(r) \/ HubReceive(r) \/ HubTimeout(r)
    <3>1. UNCHANGED <<row, outcome, rootDef, def>>
      BY <2>3 DEF HubTryLock, HubSend, HubReceive, HubTimeout, agentVars
    <3> QED
      BY <3>1, LedgerStutter DEF EffectOf, AsConfirmed
  <2> QED
    BY <1>1, <2>1, <2>2, <2>3 DEF HubStep
<1>2. ASSUME NEW r \in Requests, AgentStep(r) PROVE [Ledger!LNext]_(Ledger!lvars)
  <2>1. UNCHANGED <<row, def>>
    BY <1>2 DEF AgentStep, AgentList, AgentTryLock, RootStart, RootFinish, OrphanFinish, hubVars
  <2>2. CASE RootFinish(r) \/ OrphanFinish(r)
    <3>1. OnHost(r) /\ rootDef' = rootDef /\ \E o \in Outcomes : Effect(r, o)
      BY <2>2 DEF RootFinish, OrphanFinish, OnHost
    <3> QED
      BY <2>1, <3>1, LedgerAct DEF Ledger!LNext
  <2>3. CASE RootStart(r)
    <3>1. outcome[r] = "none" /\ outcome' = outcome
      BY <2>3 DEF RootStart, IInv, CallInv
    <3>2. \A q \in Requests \ {r} : rootDef'[q] = rootDef[q]
      BY <2>3 DEF RootStart, IInv, TypeOK
    <3>3. \A q \in Requests : EffectOf(q)' = EffectOf(q)
      BY <2>1, <3>1, <3>2 DEF EffectOf, AsConfirmed
    <3> QED
      BY <2>1, <3>3, LedgerStutter
  <2>4. CASE AgentList(r) \/ AgentTryLock(r)
    <3>1. UNCHANGED <<outcome, rootDef>>
      BY <2>4 DEF AgentList, AgentTryLock
    <3> QED
      BY <2>1, <3>1, LedgerStutter DEF EffectOf, AsConfirmed
  <2> QED
    BY <1>2, <2>2, <2>3, <2>4 DEF AgentStep
<1>3. ASSUME NEW h \in Hosts, AgentRestart(h) PROVE [Ledger!LNext]_(Ledger!lvars)
  <2>1. UNCHANGED <<row, def, rootDef>>
    BY <1>3 DEF AgentRestart, hubVars
  <2>2. CASE UNCHANGED outcome
    BY <2>1, <2>2, LedgerStutter DEF EffectOf, AsConfirmed
  <2>3. CASE \E r \in Requests : OnHost(r) /\ Effect(r, "failed")
    BY <2>1, <2>3, LedgerAct DEF Ledger!LNext, Outcomes
  <2> QED
    BY <1>3, <2>2, <2>3 DEF AgentRestart, OnHost
<1>4. CASE HubStop \/ UNCHANGED vars
  <2>1. UNCHANGED <<row, outcome, rootDef, def>>
    BY <1>4 DEF HubStop, vars, hubVars, agentVars
  <2> QED
    BY <2>1, LedgerStutter DEF EffectOf, AsConfirmed
<1>5. CASE HubStartup
  BY <1>5, LedgerClose DEF Ledger!LNext
<1> QED
  BY <1>1, <1>2, <1>3, <1>4, <1>5 DEF Next

(* The handlers, calls, locks and processes implement the audit ledger.    *)
THEOREM RefinesLedger == Spec => ImplementsLedger
<1>1. IInv => TypeOK
  BY DEF IInv
<1> QED
  BY <1>1, Inductive, LedgerInit, LedgerStep, PTL DEF Spec, ImplementsLedger, Ledger!LSpec
=============================================================================
