--------------------------- MODULE ConsoleDialogs ---------------------------
(***************************************************************************)
(* The operation dialog of the console (frontend/src/app.ts): one window   *)
(* that asks for the confirmation of an action or a deployment, submits    *)
(* it, and shows what came of it, while sessions end and begin, answers    *)
(* are late, and the pages follow accepted deployments to their end.       *)
(*                                                                         *)
(* A submission is named by its number.  As in EventList, sessionGeneration *)
(* and actionSubmitSeq are the marks "live" and "owner" of the calls that  *)
(* captured them; session and opening number the sessions and the times    *)
(* the dialog was opened, and are history.                                 *)
(***************************************************************************)
EXTENDS Integers, FiniteSets

CONSTANTS
  Actions, Deployments, \* what the Agents offer
  AgentOf,              \* the Agent of each
  NoItem,
  MaxSubmits, MaxOpenings, MaxSessions \* bounds

Items == Actions \cup Deployments
Agents == {AgentOf[i] : i \in Items}
Submits == 1..MaxSubmits

ASSUME DialogAssumption ==
  /\ Actions \cap Deployments = {} /\ NoItem \notin Items
  /\ MaxSubmits \in Nat /\ MaxOpenings \in Nat /\ MaxSessions \in Nat

VARIABLES
  signedIn,       \* authed
  agent,          \* selectedActionAgent
  open,           \* the dialog is on the screen
  pending,        \* pendingAction or pendingDeployment
  executing,      \* actionExecuting
  fields,         \* the confirmation fields are visible
  shown,          \* the result area: what it shows, of which submission
  active,         \* activeDeploymentOperationID
  submits,        \* Submits -> the execute call
  outcome,        \* Submits -> where the Hub has the operation
  trackers,       \* Submits -> the page's polling of a deployment
  session, opening

dialogVars == <<signedIn, agent, open, pending, executing, fields, shown, active, submits, outcome,
                trackers, session, opening>>

Nothing == [what |-> "nothing", of |-> 0, session |-> 0]
Unsent == [item |-> NoItem, live |-> FALSE, owner |-> FALSE, state |-> "unsent", session |-> 0, opening |-> 0]

DialogInit ==
  /\ signedIn = TRUE /\ agent \in Agents
  /\ open = FALSE /\ pending = NoItem /\ executing = FALSE /\ fields = FALSE
  /\ shown = Nothing /\ active = 0
  /\ submits = [s \in Submits |-> Unsent]
  /\ outcome = [s \in Submits |-> "none"]
  /\ trackers = [s \in Submits |-> "off"]
  /\ session = 1 /\ opening = 0
-----------------------------------------------------------------------------
SelectAgent(a) ==
  /\ signedIn /\ ~open /\ a # agent
  /\ agent' = a
  /\ UNCHANGED <<signedIn, open, pending, executing, fields, shown, active, submits, outcome, trackers,
                 session, opening>>

(* Mutant: the result area keeps what it showed.                           *)
OpenDialogDirty(i) ==
  /\ signedIn /\ ~open /\ AgentOf[i] = agent /\ opening < MaxOpenings
  /\ open' = TRUE /\ pending' = i /\ executing' = FALSE /\ fields' = TRUE
  /\ opening' = opening + 1
  /\ UNCHANGED <<signedIn, agent, shown, active, submits, outcome, trackers, session>>

(* openActionDialog and openDeploymentDialog: activeDeploymentOperationID  *)
(* keeps its value.                                                        *)
OpenDialog(i) ==
  /\ signedIn /\ ~open /\ AgentOf[i] = agent /\ opening < MaxOpenings
  /\ open' = TRUE /\ pending' = i /\ executing' = FALSE /\ fields' = TRUE
  /\ shown' = Nothing
  /\ opening' = opening + 1
  /\ UNCHANGED <<signedIn, agent, active, submits, outcome, trackers, session>>

(* The two buttons and a click beside the dialog.                          *)
CloseActionDialog ==
  /\ open /\ ~executing
  /\ open' = FALSE /\ pending' = NoItem /\ active' = 0
  /\ shown' = IF shown.what = "logs" THEN Nothing ELSE shown
  /\ UNCHANGED <<signedIn, agent, executing, fields, submits, outcome, trackers, session, opening>>

(* Escape: the browser closes the dialog unless an execution is out, and   *)
(* the "close" listener clears what it clears.                             *)
Escape ==
  /\ open /\ ~executing
  /\ open' = FALSE /\ pending' = NoItem
  /\ shown' = IF shown.what = "logs" THEN Nothing ELSE shown
  /\ UNCHANGED <<signedIn, agent, executing, fields, active, submits, outcome, trackers, session, opening>>

(* executePendingAction up to its request; the phrase was typed.           *)
Submit(s) ==
  /\ open /\ fields /\ pending # NoItem /\ ~executing
  /\ submits[s].state = "unsent" /\ \A r \in 1..(s - 1) : submits[r].state # "unsent"
  /\ executing' = TRUE
  /\ submits' = [r \in Submits |->
       IF r = s THEN [item |-> pending, live |-> TRUE, owner |-> TRUE, state |-> "sent",
                      session |-> session, opening |-> opening]
       ELSE [submits[r] EXCEPT !.owner = FALSE]]
  /\ UNCHANGED <<signedIn, agent, open, pending, fields, shown, active, outcome, trackers, session, opening>>
-----------------------------------------------------------------------------
(* The Hub: an action is over when it answers, with an audited result or   *)
(* without one; a deployment is accepted and ends later.                   *)
HubAnswers(s) ==
  /\ submits[s].state = "sent"
  /\ \E answer \in {"answered", "refused"} :
       /\ submits' = [submits EXCEPT ![s].state = answer]
       /\ outcome' = [outcome EXCEPT ![s] =
            IF answer = "refused" THEN "none" ELSE IF submits[s].item \in Actions THEN "terminal" ELSE "running"]
  /\ UNCHANGED <<signedIn, agent, open, pending, executing, fields, shown, active, trackers, session, opening>>

DeploymentEnds(s) ==
  /\ outcome[s] = "running"
  /\ outcome' = [outcome EXCEPT ![s] = "terminal"]
  /\ UNCHANGED <<signedIn, agent, open, pending, executing, fields, shown, active, submits, trackers, session, opening>>
-----------------------------------------------------------------------------
(* Mutant: any answer belongs to whoever is signed in.                     *)
OwnsAnyRequest(s) == signedIn

(* The answer in the browser.                                              *)
OwnsActionRequest(s) == signedIn /\ submits[s].live /\ submits[s].owner
Show(what, s) == shown' = [what |-> what, of |-> s, session |-> submits[s].session]

Settled(s) == submits' = [submits EXCEPT ![s].state = "settled"]

ShowActionExecutionResult(s) ==
  /\ Show("logs", s) /\ fields' = FALSE
  /\ UNCHANGED <<active, trackers>>

ShowDeploymentAccepted(s) ==
  /\ Show("accepted", s) /\ fields' = FALSE
  /\ active' = s
  /\ trackers' = [trackers EXCEPT ![s] = "polling"]

(* An error without an audited result leaves the dialog ready to submit    *)
(* again.                                                                  *)
AnswerArrives(s) ==
  /\ submits[s].state \in {"answered", "refused"}
  /\ Settled(s)
  /\ IF OwnsActionRequest(s) /\ submits[s].state = "answered"
     THEN IF submits[s].item \in Actions THEN ShowActionExecutionResult(s) ELSE ShowDeploymentAccepted(s)
     ELSE UNCHANGED <<shown, fields, active, trackers>>
  /\ executing' = (executing /\ ~OwnsActionRequest(s))
  /\ UNCHANGED <<signedIn, agent, open, pending, outcome, session, opening>>

(* One round of trackDeploymentOperation: it gives up with its session,    *)
(* waits while another Agent is selected, and reports the end once.        *)
Poll(s) ==
  /\ trackers[s] = "polling"
  /\ \/ /\ ~submits[s].live
        /\ trackers' = [trackers EXCEPT ![s] = "off"]
        /\ UNCHANGED shown
     \/ /\ submits[s].live /\ agent = AgentOf[submits[s].item] /\ outcome[s] = "terminal"
        /\ trackers' = [trackers EXCEPT ![s] = "reported"]
        /\ IF active = s /\ open THEN Show("end", s) ELSE UNCHANGED shown
     \/ /\ submits[s].live      \* 800 rounds went by
        /\ trackers' = [trackers EXCEPT ![s] = "off"]
        /\ UNCHANGED shown
  /\ UNCHANGED <<signedIn, agent, open, pending, executing, fields, active, submits, outcome, session, opening>>
-----------------------------------------------------------------------------
(* expireSession and dismissTransientOverlays: a 401 of any request, or a  *)
(* logout.                                                                 *)
EndSession ==
  /\ signedIn /\ signedIn' = FALSE
  /\ submits' = [s \in Submits |-> [submits[s] EXCEPT !.live = FALSE, !.owner = FALSE]]
  /\ executing' = FALSE /\ pending' = NoItem /\ active' = 0
  /\ shown' = Nothing /\ open' = FALSE
  /\ UNCHANGED <<agent, fields, outcome, trackers, session, opening>>

SignIn ==
  /\ ~signedIn /\ session < MaxSessions
  /\ signedIn' = TRUE /\ session' = session + 1
  /\ agent' \in Agents
  /\ submits' = [s \in Submits |-> [submits[s] EXCEPT !.live = FALSE, !.owner = FALSE]]
  /\ UNCHANGED <<open, pending, executing, fields, shown, active, outcome, trackers, opening>>

DialogNext ==
  \/ \E a \in Agents : SelectAgent(a)
  \/ \E i \in Items : OpenDialog(i)
  \/ CloseActionDialog
  \/ Escape
  \/ \E s \in Submits : Submit(s) \/ HubAnswers(s) \/ DeploymentEnds(s) \/ AnswerArrives(s) \/ Poll(s)
  \/ EndSession
  \/ SignIn

DialogSpec == DialogInit /\ [][DialogNext]_dialogVars
-----------------------------------------------------------------------------
(* What an open dialog shows of an execution came from this session and,   *)
(* apart from the end of a deployment, from this dialog: no late answer    *)
(* brings the logs of an earlier one back.                                 *)
ResultsOwned ==
  shown.what # "nothing" =>
    /\ shown.session = session /\ signedIn
    /\ open /\ shown.what # "end" => submits[shown.of].opening = opening

(* An execution of the present session is out exactly while the dialog is  *)
(* held, and never two of them: a late answer of an earlier one cannot     *)
(* unlock the dialog.                                                      *)
OneSubmission ==
  LET out == {s \in Submits : submits[s].state \in {"sent", "answered", "refused"} /\ submits[s].live}
  IN /\ Cardinality(out) <= 1
     /\ executing <=> out # {}
     /\ executing => open

(* The end of a deployment is shown in the window that submitted it.       *)
EndInItsDialog == open /\ shown.what = "end" => submits[shown.of].opening = opening
=============================================================================
