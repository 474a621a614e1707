----------------------------- MODULE Operations -----------------------------
(***************************************************************************)
(* Remote operations of Lodge: the Hub handlers that admit an ordinary     *)
(* action or a deployment, the durable audit row they keep, the single     *)
(* HTTP call to the Agent, the Agent handler with its own mutex, and the   *)
(* root helper with its file lock.                                         *)
(*                                                                         *)
(* The Hub lists the live definitions of the Agent and compares the        *)
(* operator's confirmation BEFORE it tries the fleet-wide lock, and the    *)
(* Agent and the root helper each derive the definition again from the     *)
(* host's release state.  Calls are never retried; a timeout, a lost       *)
(* answer, a restart of the Hub or of the Agent may happen at any step.    *)
(* What one execution does to the stack is abstracted to its outcome       *)
(* here (ReleaseEffects); module Deployment models it step by step and     *)
(* implements that abstraction.                                            *)
(***************************************************************************)
EXTENDS Integers, FiniteSets, ReleaseEffects

CONSTANTS
  Requests,          \* the POST requests browsers send, one operation each
  Hosts,             \* hosts with an Agent
  NoRequest,         \* a free lock
  MaxHubRestarts,    \* bound on restarts of the Hub process
  MaxAgentRestarts   \* bound on restarts of Agent processes, over all hosts

ASSUME OperationsAssumption ==
  /\ NoRequest \notin Requests
  /\ MaxHubRestarts \in Nat
  /\ MaxAgentRestarts \in Nat

VARIABLES
  up,        \* the Hub process is serving
  pc,        \* where each request's Hub handler (or finalizer) is
  def,       \* the definition the Hub listed and the operator confirmed
  actionMu,  \* the Hub's fleet-wide admission lock
  row,       \* the durable audit row of each request
  verdict,   \* the result the Hub is about to write to the row
  broken,    \* requests whose audit write failed
  call,      \* where each request's Agent call is
  agentDef,  \* the definition the Agent listed for the call
  rootDef,   \* the definition the root helper derived and executed
  outcome,   \* what the execution did
  execs,     \* how often the request was executed on a host
  reply,     \* the Agent's answer in flight to the Hub
  agentMu,   \* the Agent's local mutex, per host
  flock,     \* the root helper's file lock, per host
  rel,       \* current and previous release in the host's state file
  hubRestarts, agentRestarts

hubVars   == <<up, pc, def, actionMu, row, verdict, broken>>
agentVars == <<call, agentDef, rootDef, outcome, execs, agentMu, flock, rel>>
vars == <<hubVars, agentVars, reply, hubRestarts, agentRestarts>>

Kinds      == {"action", "deploy", "rollback"}

Definition == [host: Hosts, kind: Kinds, release: AnyRelease, before: AnyRelease]
NoDef == [kind |-> "none"]

(* A typed result names the release it acted on and the one it found.      *)
Result == [outcome: Outcomes, kind: Kinds, release: AnyRelease, before: AnyRelease]
NoReply == [outcome |-> "none"]
ErrorReply == [outcome |-> "error"]   \* any answer that is not a typed result

Row == [state: {"none", "requested", "running"} \cup Outcomes,
        before: AnyRelease, after: AnyRelease]
NoRow == [state |-> "none", before |-> NoRelease, after |-> NoRelease]
Open == {"requested", "running"}
-----------------------------------------------------------------------------
(* The definitions a host offers: the policy's action, every approved      *)
(* release that is not current, and one rollback when a previous release   *)
(* is known.  Only the rollback's identifier does not name its release.    *)
(* A release stands for its identifier and its image, which the code       *)
(* compares: a policy lists no image twice.  Module Deployment, where a    *)
(* host's file names images of former policies, tells the two apart.       *)
Definitions(h) ==
  LET s == rel[h]
      D(kind, release) == [host |-> h, kind |-> kind, release |-> release,
                           before |-> IF kind = "action" THEN NoRelease ELSE s.current]
  IN  {D("action", NoRelease)}
      \cup {D("deploy", x) : x \in Releases \ {s.current}}
      \cup (IF s.previous = NoRelease THEN {} ELSE {D("rollback", s.previous)})

SameID(d, e) ==
  d.host = e.host /\ d.kind = e.kind /\ (d.kind = "deploy" => d.release = e.release)

(* The result is accepted for definition d only if it names d's release    *)
(* and, when d knew the current release, the same starting point.          *)
Accepts(d, result) ==
  /\ result.kind = d.kind
  /\ result.release = d.release
  /\ d.before # NoRelease => result.before = d.before

(* A deployment that fails before the running release is looked up answers *)
(* the one it was listed with, later failures the one that was found.      *)
ResultsOf(d, o) ==
  {[outcome |-> o, kind |-> d.kind, release |-> d.release, before |-> before] :
     before \in IF d.kind = "action" THEN {NoRelease}
               ELSE IF o = "failed" THEN {d.before, Found(d)} ELSE {Found(d)}}
-----------------------------------------------------------------------------
Init ==
  /\ up = TRUE
  /\ pc = [r \in Requests |-> "idle"]
  /\ def = [r \in Requests |-> NoDef]
  /\ actionMu = NoRequest
  /\ row = [r \in Requests |-> NoRow]
  /\ verdict = [r \in Requests |-> NoRow]
  /\ broken = {}
  /\ call = [r \in Requests |-> "none"]
  /\ agentDef = [r \in Requests |-> NoDef]
  /\ rootDef = [r \in Requests |-> NoDef]
  /\ outcome = [r \in Requests |-> "none"]
  /\ execs = [r \in Requests |-> 0]
  /\ reply = [r \in Requests |-> NoReply]
  /\ agentMu = [h \in Hosts |-> NoRequest]
  /\ flock = [h \in Hosts |-> NoRequest]
  /\ rel \in [Hosts -> ReleaseState]
  /\ \A h \in Hosts : IF rel[h].current = NoRelease THEN rel[h].previous = NoRelease
                      ELSE rel[h].previous # rel[h].current
  /\ hubRestarts = 0
  /\ agentRestarts = 0
-----------------------------------------------------------------------------
(* Hub handlers.                                                           *)

(* The live definitions are listed and the one the operator confirmed is   *)
(* found with its exact confirmation phrase.  No lock is held yet.         *)
HubList(r) ==
  /\ up /\ pc[r] = "idle"
  /\ \E h \in Hosts : \E d \in Definitions(h) : def' = [def EXCEPT ![r] = d]
  /\ pc' = [pc EXCEPT ![r] = "admit"]
  /\ UNCHANGED <<up, actionMu, row, verdict, broken, agentVars, reply, hubRestarts, agentRestarts>>

(* TryLock: a busy lock refuses the request with 409, nothing is queued.   *)
HubTryLock(r) ==
  /\ up /\ pc[r] = "admit"
  /\ IF actionMu = NoRequest
     THEN actionMu' = r /\ pc' = [pc EXCEPT ![r] = "create"]
     ELSE UNCHANGED actionMu /\ pc' = [pc EXCEPT ![r] = "closed"]
  /\ UNCHANGED <<up, def, row, verdict, broken, agentVars, reply, hubRestarts, agentRestarts>>

(* Mutant: the early return after a failed audit write forgets the unlock. *)
AuditWriteFailsLocked(r) ==
  /\ broken' = broken \cup {r}
  /\ pc' = [pc EXCEPT ![r] = "closed"]
  /\ UNCHANGED <<row, actionMu>>

(* A failed audit write ends the request and frees the lock.               *)
AuditWriteFails(r) ==
  /\ broken' = broken \cup {r}
  /\ actionMu' = NoRequest
  /\ pc' = [pc EXCEPT ![r] = "closed"]
  /\ UNCHANGED row

(* Mutant: the Agent is called right after the row was created.            *)
HubCreateUnstarted(r) ==
  /\ up /\ pc[r] = "create"
  /\ \/ /\ row' = [row EXCEPT ![r] = [state |-> "requested", before |-> def[r].before,
                                      after |-> NoRelease]]
        /\ pc' = [pc EXCEPT ![r] = "send"]
        /\ UNCHANGED <<actionMu, broken>>
     \/ AuditWriteFails(r)
  /\ UNCHANGED <<up, def, verdict, agentVars, reply, hubRestarts, agentRestarts>>

HubCreate(r) ==
  /\ up /\ pc[r] = "create"
  /\ \/ /\ row' = [row EXCEPT ![r] = [state |-> "requested", before |-> def[r].before,
                                      after |-> NoRelease]]
        /\ pc' = [pc EXCEPT ![r] = "start"]
        /\ UNCHANGED <<actionMu, broken>>
     \/ AuditWriteFails(r)
  /\ UNCHANGED <<up, def, verdict, agentVars, reply, hubRestarts, agentRestarts>>

(* Mutant: the error of StartOperation is logged and the work goes on.     *)
HubStartUnpersisted(r) ==
  /\ up /\ pc[r] = "start"
  /\ \/ row' = [row EXCEPT ![r].state = "running"]
     \/ UNCHANGED row
  /\ pc' = [pc EXCEPT ![r] = "send"]
  /\ UNCHANGED <<up, def, actionMu, verdict, broken, agentVars, reply, hubRestarts, agentRestarts>>

(* StartOperation is a compare-and-set from requested to running.          *)
HubStart(r) ==
  /\ up /\ pc[r] = "start"
  /\ \/ /\ row[r].state = "requested"
        /\ row' = [row EXCEPT ![r].state = "running"]
        /\ pc' = [pc EXCEPT ![r] = "send"]
        /\ UNCHANGED <<actionMu, broken>>
     \/ AuditWriteFails(r)
  /\ UNCHANGED <<up, def, verdict, agentVars, reply, hubRestarts, agentRestarts>>

(* One non-retried POST that carries only the definition's identifier.     *)
HubSend(r) ==
  /\ up /\ pc[r] = "send"
  /\ pc' = [pc EXCEPT ![r] = "wait"]
  /\ call' = [call EXCEPT ![r] = "sent"]
  /\ UNCHANGED <<up, def, actionMu, row, verdict, broken, agentDef, rootDef, outcome,
                 execs, agentMu, flock, rel, reply, hubRestarts, agentRestarts>>

(* What the finalizer will write for an answer a: an answer that is not an *)
(* acceptable result is a categorized failure that names no release.       *)
(* Mutant VerdictForUnchecked: the result's identity is not compared.      *)
FailedRow(r) == [state |-> "failed", before |-> row[r].before, after |-> NoRelease]
VerdictForUnchecked(r, a) ==
  IF a = ErrorReply THEN FailedRow(r)
  ELSE [state  |-> a.outcome,
        before |-> IF a.before = NoRelease THEN row[r].before ELSE a.before,
        after  |-> CASE a.outcome = "succeeded"   -> a.release
                     [] a.outcome = "rolled_back" -> a.before
                     [] OTHER -> NoRelease]
VerdictFor(r, a) ==
  IF a = ErrorReply THEN FailedRow(r)
  ELSE IF ~Accepts(def[r], a) THEN FailedRow(r)
  ELSE [state  |-> a.outcome,
        before |-> IF a.before = NoRelease THEN row[r].before ELSE a.before,
        after  |-> CASE a.outcome = "succeeded"   -> a.release
                     [] a.outcome = "rolled_back" -> IF a.kind = "action" THEN NoRelease ELSE a.before
                     [] OTHER -> NoRelease]

HubReceive(r) ==
  /\ up /\ pc[r] = "wait" /\ reply[r] # NoReply
  /\ verdict' = [verdict EXCEPT ![r] = VerdictFor(r, reply[r])]
  /\ reply' = [reply EXCEPT ![r] = NoReply]
  /\ pc' = [pc EXCEPT ![r] = "finish"]
  /\ UNCHANGED <<up, def, actionMu, row, broken, agentVars, hubRestarts, agentRestarts>>

(* Mutant: a timed-out call is sent again.                                 *)
HubTimeoutRetried(r) ==
  /\ up /\ pc[r] = "wait"
  /\ pc' = [pc EXCEPT ![r] = "send"]
  /\ UNCHANGED <<up, def, actionMu, row, verdict, broken, agentVars, reply, hubRestarts, agentRestarts>>

(* The call's deadline passes or its connection breaks.  The Agent does    *)
(* not watch the request context, so the call itself lives on.             *)
HubTimeout(r) ==
  /\ up /\ pc[r] = "wait"
  /\ verdict' = [verdict EXCEPT ![r] = FailedRow(r)]
  /\ pc' = [pc EXCEPT ![r] = "finish"]
  /\ UNCHANGED <<up, def, actionMu, row, broken, agentVars, reply, hubRestarts, agentRestarts>>

(* FinishOperation is a compare-and-set from running to a terminal state;  *)
(* the deferred unlock runs whether or not it was persisted.               *)
HubFinish(r) ==
  /\ up /\ pc[r] = "finish"
  /\ \/ /\ row[r].state = "running"
        /\ row' = [row EXCEPT ![r] = verdict[r]]
        /\ pc' = [pc EXCEPT ![r] = "closed"]
        /\ actionMu' = NoRequest
        /\ UNCHANGED broken
     \/ AuditWriteFails(r)
  /\ UNCHANGED <<up, def, verdict, agentVars, reply, hubRestarts, agentRestarts>>

(* The Hub process ends at any point: every handler and the in-memory lock *)
(* are gone, calls already sent go on.                                     *)
HubStop ==
  /\ up /\ hubRestarts < MaxHubRestarts
  /\ up' = FALSE
  /\ pc' = [r \in Requests |-> IF pc[r] = "idle" THEN "idle" ELSE "closed"]
  /\ actionMu' = NoRequest
  /\ hubRestarts' = hubRestarts + 1
  /\ UNCHANGED <<def, row, verdict, broken, agentVars, reply, agentRestarts>>

(* Mutant: recovery is skipped.                                            *)
FailInterruptedSkipped == UNCHANGED row

(* OpenSQLiteStore closes interrupted rows before the server listens.      *)
FailInterruptedOperations ==
  row' = [r \in Requests |-> IF row[r].state \in Open
                             THEN [row[r] EXCEPT !.state = "failed"] ELSE row[r]]
HubStartup ==
  /\ ~up
  /\ up' = TRUE
  /\ FailInterruptedOperations
  /\ UNCHANGED <<pc, def, actionMu, verdict, broken, agentVars, reply, hubRestarts, agentRestarts>>
-----------------------------------------------------------------------------
(* Agent handler and root helper of one call.                              *)

Answer(r, a) ==
  /\ call' = [call EXCEPT ![r] = "done"]
  /\ reply' = [reply EXCEPT ![r] = a]

(* The second listing: the identifier is looked up in the current state.   *)
AgentList(r) ==
  /\ call[r] = "sent"
  /\ LET found == {d \in Definitions(def[r].host) : SameID(d, def[r])}
     IN  \/ /\ found = {}
            /\ Answer(r, ErrorReply)
            /\ UNCHANGED agentDef
         \/ \E d \in found : /\ agentDef' = [agentDef EXCEPT ![r] = d]
                             /\ call' = [call EXCEPT ![r] = "listed"]
                             /\ UNCHANGED reply
  /\ UNCHANGED <<hubVars, rootDef, outcome, execs, agentMu, flock, rel, hubRestarts, agentRestarts>>

AgentTryLock(r) ==
  /\ call[r] = "listed"
  /\ LET h == def[r].host
     IN  IF agentMu[h] = NoRequest
         THEN /\ agentMu' = [agentMu EXCEPT ![h] = r]
              /\ call' = [call EXCEPT ![r] = "locked"]
              /\ UNCHANGED reply
         ELSE Answer(r, ErrorReply) /\ UNCHANGED agentMu
  /\ UNCHANGED <<hubVars, agentDef, rootDef, outcome, execs, flock, rel, hubRestarts, agentRestarts>>

(* Mutant: the helper trusts the Agent's mutex and takes no file lock.     *)
RootStartUnlocked(r) ==
  /\ call[r] = "locked"
  /\ \E d \in Definitions(def[r].host) :
       SameID(d, agentDef[r]) /\ rootDef' = [rootDef EXCEPT ![r] = d]
  /\ execs' = [execs EXCEPT ![r] = @ + 1]
  /\ call' = [call EXCEPT ![r] = "root"]
  /\ UNCHANGED <<hubVars, agentDef, outcome, rel, reply, agentMu, flock, hubRestarts, agentRestarts>>

(* The root helper takes the file lock without waiting and derives the     *)
(* definition a third time, from the state file it now owns.               *)
RootStart(r) ==
  /\ call[r] = "locked"
  /\ LET h == def[r].host
         found == {d \in Definitions(h) : SameID(d, agentDef[r])}
     IN  \/ /\ flock[h] # NoRequest \/ found = {}
            /\ Answer(r, ErrorReply)
            /\ agentMu' = [agentMu EXCEPT ![h] = NoRequest]
            /\ UNCHANGED <<rootDef, execs, flock>>
         \/ /\ flock[h] = NoRequest
            /\ \E d \in found : rootDef' = [rootDef EXCEPT ![r] = d]
            /\ flock' = [flock EXCEPT ![h] = r]
            /\ execs' = [execs EXCEPT ![r] = @ + 1]
            /\ call' = [call EXCEPT ![r] = "root"]
            /\ UNCHANGED <<reply, agentMu>>
  /\ UNCHANGED <<hubVars, agentDef, outcome, rel, hubRestarts, agentRestarts>>

(* The execution ends with outcome o and the helper exits.                 *)
Effect(r, o) ==
  LET h == def[r].host
  IN  /\ (rootDef[r].kind = "action" => o # "rolled_back")
      /\ outcome' = [outcome EXCEPT ![r] = o]
      /\ \E s \in StatesAfter(rootDef[r], o, rel[h]) : rel' = [rel EXCEPT ![h] = s]
      /\ flock' = [flock EXCEPT ![h] = NoRequest]

(* The Agent compares the helper's result with its own listing, answers    *)
(* and unlocks.                                                            *)
RootFinish(r) ==
  /\ call[r] = "root"
  /\ \E o \in Outcomes :
       /\ Effect(r, o)
       /\ \E result \in ResultsOf(rootDef[r], o) :
            Answer(r, IF Accepts(agentDef[r], result) THEN result ELSE ErrorReply)
  /\ agentMu' = [agentMu EXCEPT ![def[r].host] = NoRequest]
  /\ UNCHANGED <<hubVars, agentDef, rootDef, execs, hubRestarts, agentRestarts>>

(* A helper whose Agent died finishes alone; nobody reads its result.      *)
OrphanFinish(r) ==
  /\ call[r] = "orphan"
  /\ \E o \in Outcomes : Effect(r, o)
  /\ call' = [call EXCEPT ![r] = "done"]
  /\ UNCHANGED <<hubVars, agentDef, rootDef, execs, agentMu, reply, hubRestarts, agentRestarts>>

(* The Agent of host h restarts: its calls break and its mutex is new.  A  *)
(* running helper either outlives it or is killed with it, at a point      *)
(* where the host may or may not have been changed.                        *)
AgentRestart(h) ==
  LET lost == {r \in Requests : /\ call[r] \in {"sent", "listed", "locked", "root"}
                                /\ def[r].host = h}
      inRoot == {r \in lost : call[r] = "root"}
  IN  /\ agentRestarts < MaxAgentRestarts
      /\ agentRestarts' = agentRestarts + 1
      /\ agentMu' = [agentMu EXCEPT ![h] = NoRequest]
      /\ reply' = [r \in Requests |-> IF r \in lost THEN ErrorReply ELSE reply[r]]
      /\ \/ /\ call' = [r \in Requests |-> IF r \in inRoot THEN "orphan"
                                           ELSE IF r \in lost THEN "done" ELSE call[r]]
            /\ UNCHANGED <<outcome, rel, flock>>
         \/ \E r \in inRoot :
              /\ call' = [q \in Requests |-> IF q \in lost THEN "done" ELSE call[q]]
              /\ Effect(r, "failed")
      /\ UNCHANGED <<hubVars, agentDef, rootDef, execs, hubRestarts>>
-----------------------------------------------------------------------------
HubStep(r) ==
  \/ HubList(r) \/ HubTryLock(r) \/ HubCreate(r) \/ HubStart(r)
  \/ HubSend(r) \/ HubReceive(r) \/ HubTimeout(r) \/ HubFinish(r)

AgentStep(r) ==
  AgentList(r) \/ AgentTryLock(r) \/ RootStart(r) \/ RootFinish(r) \/ OrphanFinish(r)

Next ==
  \/ \E r \in Requests : HubStep(r) \/ AgentStep(r)
  \/ HubStop \/ HubStartup
  \/ \E h \in Hosts : AgentRestart(h)

Spec == Init /\ [][Next]_vars

(* Every handler step is a bounded local or network step, the call carries *)
(* a deadline, the root helper's commands have timeouts, and systemd       *)
(* restarts the Hub.  Nothing obliges a browser to send a request.         *)
HubProgress(r) ==
  HubTryLock(r) \/ HubCreate(r) \/ HubStart(r) \/ HubSend(r)
  \/ HubReceive(r) \/ HubTimeout(r) \/ HubFinish(r)
Fairness ==
  /\ \A r \in Requests : WF_vars(HubProgress(r)) /\ WF_vars(AgentStep(r))
  /\ WF_vars(HubStartup)
FairSpec == Spec /\ Fairness
-----------------------------------------------------------------------------
(* Every variable has its type: rows, calls and locks hold only the values *)
(* the handlers, the Agent and the audit table can store.                  *)
TypeOK ==
  /\ up \in BOOLEAN
  /\ pc \in [Requests -> {"idle", "admit", "create", "start", "send", "wait",
                          "finish", "closed"}]
  /\ def \in [Requests -> Definition \cup {NoDef}]
  /\ actionMu \in Requests \cup {NoRequest}
  /\ row \in [Requests -> Row]
  /\ verdict \in [Requests -> Row]
  /\ broken \subseteq Requests
  /\ call \in [Requests -> {"none", "sent", "listed", "locked", "root", "orphan", "done"}]
  /\ agentDef \in [Requests -> Definition \cup {NoDef}]
  /\ rootDef \in [Requests -> Definition \cup {NoDef}]
  /\ outcome \in [Requests -> Outcomes \cup {"none"}]
  /\ execs \in [Requests -> Nat]
  /\ reply \in [Requests -> Result \cup {NoReply, ErrorReply}]
  /\ agentMu \in [Hosts -> Requests \cup {NoRequest}]
  /\ flock \in [Hosts -> Requests \cup {NoRequest}]
  /\ rel \in [Hosts -> ReleaseState]
  /\ hubRestarts \in Nat /\ agentRestarts \in Nat

InSection(r) == pc[r] \in {"create", "start", "send", "wait", "finish"}
OnHost(r) == call[r] \in {"root", "orphan"}

(* What the host did for a request, as the ledger's reader would call it.  *)
AsConfirmed(r) ==
  rootDef[r].kind = def[r].kind /\ rootDef[r].release = def[r].release
EffectOf(r) ==
  IF outcome[r] \in {"succeeded", "rolled_back"} /\ ~AsConfirmed(r) THEN "other"
  ELSE outcome[r]

(* Before the Agent is contacted the row is durably running, and it never  *)
(* falls back afterwards: no host is touched for a request without an      *)
(* audit row that says work began (executeAction, executeDeployment).      *)
AuditedBeforeContact ==
  \A r \in Requests : call[r] # "none" => row[r].state \notin {"none", "requested"}

(* Whatever is lost, late or restarted, one accepted request executes at   *)
(* most once on its host: no layer retries the call or the helper.         *)
SingleExecution == \A r \in Requests : execs[r] <= 1

(* A row says succeeded or rolled back only if this request's execution    *)
(* ended so, on the confirmed release, and the row's before and after are  *)
(* the releases that execution really started from and left behind.        *)
TruthfulRow ==
  \A r \in Requests : row[r].state \in {"succeeded", "rolled_back"} =>
    /\ outcome[r] = row[r].state
    /\ AsConfirmed(r)
    /\ def[r].kind # "action" =>
         /\ row[r].before = Found(rootDef[r])
         /\ row[r].after = IF row[r].state = "succeeded" THEN rootDef[r].release
                           ELSE Found(rootDef[r])

(* Actions and deployments never overlap on one host, even when an Agent   *)
(* restart leaves a helper running and forgets the Agent's own mutex.      *)
OneHelperPerHost ==
  \A r, q \in Requests : OnHost(r) /\ OnHost(q) /\ def[r].host = def[q].host => r = q

(* While the Hub serves, an unfinished row is either the lock holder's or  *)
(* one whose audit write failed: restarts leave no row open behind.        *)
NoAbandonedRow ==
  up => \A r \in Requests : row[r].state \in Open => actionMu = r \/ r \in broken

(* A terminal audit row is never rewritten, by a late result or a restart. *)
TerminalRowsFinal ==
  [][\A r \in Requests : row[r].state \in Outcomes => row'[r] = row[r]]_vars

(* Whoever holds the fleet-wide lock gives it back, also when the Agent    *)
(* never answers or the audit row cannot be written.                       *)
LockReleased == \A r \in Requests : actionMu = r ~> actionMu # r

(* Every admitted operation reaches a terminal row unless a write of its   *)
(* row failed, across restarts of the Hub.                                 *)
RowSettles ==
  \A r \in Requests :
    row[r].state \in Open ~> (row[r].state \in Outcomes \/ r \in broken)

(* The handlers, calls, locks and restarts implement the audit ledger.     *)
Ledger == INSTANCE OperationLedger WITH
            ledger <- [r \in Requests |-> row[r].state],
            effect <- [r \in Requests |-> EffectOf(r)]
ImplementsLedger == Ledger!LSpec

(* "re-lists it, finds the exact deployment ID, and compares the exact     *)
(* confirmation phrase before admitting work" and "rejects removed or      *)
(* changed definitions": a helper executes only what was confirmed.        *)
ConfirmedExecution ==
  \A r \in Requests : execs[r] > 0 => rootDef[r].release = def[r].release
=============================================================================
