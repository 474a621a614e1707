---------------------------- MODULE ConsoleProofs ----------------------------
(***************************************************************************)
(* Proofs about the console: that the operation dialog is held by one      *)
(* submission and shows no answer of another session or dialog, and that   *)
(* the event list shows the rows of the filter that was asked for, as they *)
(* follow one another in one list of the Hub, and is never left loading.   *)
(*                                                                         *)
(* They rest on the marks a call captured before it waited: what is still  *)
(* marked as present was started by the session and the dialog that are    *)
(* there now; and on what the Hub froze: a page is cut from a list without *)
(* repetition, behind the rows that are a beginning of it.                 *)
(***************************************************************************)
EXTENDS ConsoleDialogs, EventList, FiniteSetTheorems, SequenceTheorems, WellFoundedInduction, TLAPS
-----------------------------------------------------------------------------
(* The operation dialog.                                                   *)
(*                                                                         *)
(* A submission whose answer this session still waits for.                 *)
Out(s) == submits[s].live /\ submits[s].state \in {"sent", "answered", "refused"}

IsSubmission(row) ==
  /\ DOMAIN row = DOMAIN Unsent
  /\ row.state \in {"unsent", "sent", "answered", "refused", "settled"}
  /\ row.live \in BOOLEAN /\ row.owner \in BOOLEAN

DialogTypeOK ==
  /\ signedIn \in BOOLEAN /\ open \in BOOLEAN /\ executing \in BOOLEAN
  /\ DOMAIN submits = Submits /\ \A s \in Submits : IsSubmission(submits[s])
  /\ DOMAIN trackers = Submits

(* The calls that captured the present session generation were made in the *)
(* present session, by somebody who is signed in.                          *)
LiveInv ==
  /\ open => signedIn
  /\ \A s \in Submits :
       /\ submits[s].live => signedIn /\ submits[s].session = session /\ submits[s].state # "unsent"
       /\ trackers[s] = "polling" => submits[s].state = "settled"

(* The dialog is held by the one submission that is out: it was submitted  *)
(* in the dialog that is open, and its answer will be taken.               *)
HeldInv ==
  /\ \A s \in Submits : Out(s) =>
       executing /\ submits[s].owner /\ submits[s].opening = opening
  /\ \A s, t \in Submits : Out(s) /\ Out(t) => s = t
  /\ executing => open /\ \E s \in Submits : Out(s)

(* The result area shows a submission that was made.                       *)
ShownInv ==
  shown.what # "nothing" =>
    /\ shown.of \in Submits /\ submits[shown.of].state # "unsent"
    /\ signedIn /\ shown.session = session
    /\ open /\ shown.what # "end" => submits[shown.of].opening = opening

DialogInv == DialogTypeOK /\ LiveInv /\ HeldInv /\ ShownInv

(* A step of one submission leaves the others as they are.                 *)
LEMMA OneSubmits ==
  ASSUME NEW s \in Submits, NEW row, DialogTypeOK, submits' = [submits EXCEPT ![s] = row]
  PROVE  DOMAIN submits' = Submits /\ submits'[s] = row /\ \A t \in Submits \ {s} : submits'[t] = submits[t]
BY DEF DialogTypeOK

LEMMA OneTracks ==
  ASSUME NEW s \in Submits, NEW stage, DialogTypeOK, trackers' = [trackers EXCEPT ![s] = stage]
  PROVE  DOMAIN trackers' = Submits /\ trackers'[s] = stage /\ \A t \in Submits \ {s} : trackers'[t] = trackers[t]
BY DEF DialogTypeOK

(* A new state of a submission keeps the marks of its call.                *)
LEMMA StateFields ==
  ASSUME NEW row, NEW state, IsSubmission(row)
  PROVE  LET new == [row EXCEPT !.state = state]
         IN /\ DOMAIN new = DOMAIN Unsent /\ new.state = state
            /\ new.live = row.live /\ new.owner = row.owner /\ new.item = row.item
            /\ new.session = row.session /\ new.opening = row.opening
BY DEF IsSubmission, Unsent

(* Ending a session, or beginning one, disowns every call.                 *)
LEMMA DisownedFields ==
  ASSUME DialogTypeOK,
         submits' = [s \in Submits |-> [submits[s] EXCEPT !.live = FALSE, !.owner = FALSE]]
  PROVE  /\ DOMAIN submits' = Submits
         /\ \A s \in Submits : /\ IsSubmission(submits'[s]) /\ ~submits'[s].live
                               /\ submits'[s].state = submits[s].state
BY DEF DialogTypeOK, IsSubmission, Unsent

(* A step that leaves the calls and the trackers as they are.              *)
LEMMA WindowStep ==
  ASSUME DialogInv, UNCHANGED <<signedIn, submits, trackers, session>>,
         open' \in BOOLEAN, open' => open \/ signedIn, ~executing, executing' = FALSE,
         \/ shown' = Nothing
         \/ shown' = shown /\ (UNCHANGED opening \/ ~open') /\ (open' => open)
  PROVE  DialogInv'
<1> USE DEF DialogInv
<1>1. DialogTypeOK' /\ LiveInv'
  BY DEF DialogTypeOK, LiveInv
<1>2. \A s \in Submits : ~Out(s) /\ ~Out(s)'
  BY DEF HeldInv, Out
<1>3. HeldInv'
  BY <1>2 DEF HeldInv
<1>4. ShownInv'
  BY DEF ShownInv, Nothing
<1> QED BY <1>1, <1>3, <1>4

LEMMA DialogStarts == DialogInit => DialogInv
<1> SUFFICES ASSUME DialogInit PROVE DialogInv
  OBVIOUS
<1>1. \A s \in Submits : IsSubmission(submits[s]) /\ submits[s].state = "unsent" /\ ~submits[s].live
  BY DEF DialogInit, IsSubmission, Unsent
<1> QED BY <1>1 DEF DialogInit, DialogInv, DialogTypeOK, LiveInv, HeldInv, ShownInv, Out, Nothing

(* The dialog is free while it is being left.                              *)
LEMMA WindowInv ==
  ASSUME DialogInv,
         \/ \E a \in Agents : SelectAgent(a)
         \/ \E i \in Items : OpenDialog(i)
         \/ CloseActionDialog
         \/ Escape
  PROVE  DialogInv'
<1>1. executing = FALSE /\ open \in BOOLEAN
  BY DEF SelectAgent, OpenDialog, CloseActionDialog, Escape, DialogInv, HeldInv, DialogTypeOK
<1>2. /\ UNCHANGED <<signedIn, submits, trackers, session>> /\ executing' = FALSE
      /\ open' \in BOOLEAN /\ (open' => open \/ signedIn)
  BY <1>1 DEF SelectAgent, OpenDialog, CloseActionDialog, Escape
<1>3. \/ shown' = Nothing
      \/ shown' = shown /\ (UNCHANGED opening \/ ~open') /\ (open' => open)
  BY DEF SelectAgent, OpenDialog, CloseActionDialog, Escape
<1> QED BY <1>1, <1>2, <1>3, WindowStep

(* Nothing is out before the dialog submits, so what it submits is alone.  *)
LEMMA SubmitInv ==
  ASSUME DialogInv, NEW s \in Submits, Submit(s)
  PROVE  DialogInv'
<1> USE DEF DialogInv
<1> DEFINE row == [item |-> pending, live |-> TRUE, owner |-> TRUE, state |-> "sent",
                   session |-> session, opening |-> opening]
<1>1. /\ open /\ ~executing /\ executing' = TRUE /\ submits[s].state = "unsent"
      /\ UNCHANGED <<signedIn, open, shown, trackers, session, opening>>
  BY DEF Submit
<1>2. /\ DOMAIN submits' = Submits
      /\ submits'[s] = row
      /\ \A t \in Submits \ {s} : submits'[t] = [submits[t] EXCEPT !.owner = FALSE]
  BY DEF Submit
<1>3. /\ IsSubmission(submits'[s]) /\ submits'[s].state = "sent" /\ submits'[s].live /\ submits'[s].owner
      /\ submits'[s].session = session /\ submits'[s].opening = opening
  BY <1>2 DEF IsSubmission, Unsent
<1>4. \A t \in Submits \ {s} :
        /\ IsSubmission(submits'[t]) /\ submits'[t].state = submits[t].state /\ submits'[t].live = submits[t].live
        /\ submits'[t].session = submits[t].session /\ submits'[t].opening = submits[t].opening
  BY <1>2 DEF DialogTypeOK, IsSubmission, Unsent
<1>5. signedIn
  BY <1>1 DEF LiveInv
<1>6. \A t \in Submits \ {s} : ~Out(t) /\ ~Out(t)'
  BY <1>1, <1>4 DEF HeldInv, Out
<1>7. DialogTypeOK'
  BY <1>1, <1>2, <1>3, <1>4 DEF DialogTypeOK
<1>8. LiveInv'
  BY <1>1, <1>3, <1>4, <1>5 DEF LiveInv
<1>9. HeldInv'
  BY <1>1, <1>3, <1>6 DEF HeldInv, Out
<1>10. ShownInv'
  BY <1>1, <1>3, <1>4 DEF ShownInv
<1> QED BY <1>7, <1>8, <1>9, <1>10

(* The Hub's answer leaves the submission out.                             *)
LEMMA HubAnswersInv ==
  ASSUME DialogInv, NEW s \in Submits, HubAnswers(s)
  PROVE  DialogInv'
<1> USE DEF DialogInv
<1>1. PICK answer \in {"answered", "refused"} : submits' = [submits EXCEPT ![s].state = answer]
  BY DEF HubAnswers
<1> DEFINE row == [submits[s] EXCEPT !.state = answer]
<1>2. submits' = [submits EXCEPT ![s] = row]
  BY <1>1
<1>3. IsSubmission(submits[s]) /\ submits[s].state = "sent"
  BY DEF DialogTypeOK, HubAnswers
<1>4. /\ DOMAIN row = DOMAIN Unsent /\ row.state = answer /\ row.live = submits[s].live
      /\ row.owner = submits[s].owner /\ row.session = submits[s].session /\ row.opening = submits[s].opening
  BY <1>3, StateFields
<1> HIDE DEF row
<1>5. IsSubmission(row)
  BY <1>3, <1>4 DEF IsSubmission
<1>6. DOMAIN submits' = Submits /\ submits'[s] = row /\ \A t \in Submits \ {s} : submits'[t] = submits[t]
  BY <1>2, OneSubmits
<1>7. UNCHANGED <<signedIn, open, executing, shown, trackers, session, opening>>
  BY DEF HubAnswers
<1>8. \A t \in Submits : Out(t)' <=> Out(t)
  BY <1>3, <1>4, <1>6 DEF Out
<1>9. DialogTypeOK' /\ LiveInv'
  BY <1>3, <1>4, <1>5, <1>6, <1>7 DEF DialogTypeOK, LiveInv
<1>10. HeldInv'
  BY <1>4, <1>6, <1>7, <1>8 DEF HeldInv
<1>11. ShownInv'
  BY <1>3, <1>4, <1>6, <1>7 DEF ShownInv
<1> QED BY <1>9, <1>10, <1>11

(* An answer is shown and frees the dialog only when its call owns them;   *)
(* one that is still waited for does.                                      *)
LEMMA AnswerArrivesInv ==
  ASSUME DialogInv, NEW s \in Submits, AnswerArrives(s)
  PROVE  DialogInv'
<1> USE DEF DialogInv
<1> DEFINE row == [submits[s] EXCEPT !.state = "settled"]
<1>1. submits' = [submits EXCEPT ![s] = row]
  BY DEF AnswerArrives, Settled
<1>2. IsSubmission(submits[s]) /\ submits[s].state \in {"answered", "refused"}
  BY DEF DialogTypeOK, AnswerArrives
<1>3. /\ DOMAIN row = DOMAIN Unsent /\ row.state = "settled" /\ row.live = submits[s].live
      /\ row.owner = submits[s].owner /\ row.session = submits[s].session /\ row.opening = submits[s].opening
  BY <1>2, StateFields
<1> HIDE DEF row
<1>4. IsSubmission(row)
  BY <1>2, <1>3 DEF IsSubmission
<1>5. DOMAIN submits' = Submits /\ submits'[s] = row /\ \A t \in Submits \ {s} : submits'[t] = submits[t]
  BY <1>1, OneSubmits
<1>6. /\ UNCHANGED <<signedIn, open, session, opening>>
      /\ executing' = (executing /\ ~OwnsActionRequest(s))
  BY DEF AnswerArrives
<1>7. /\ DOMAIN trackers' = Submits
      /\ trackers'[s] \in {trackers[s], "polling"} /\ \A t \in Submits \ {s} : trackers'[t] = trackers[t]
  BY DEF AnswerArrives, ShowActionExecutionResult, ShowDeploymentAccepted, DialogTypeOK
<1>8. \/ shown' = shown
      \/ /\ OwnsActionRequest(s) /\ shown'.of = s /\ shown'.session = submits[s].session
  BY DEF AnswerArrives, ShowActionExecutionResult, ShowDeploymentAccepted, Show
<1>9. \A t \in Submits \ {s} : Out(t)' <=> Out(t)
  BY <1>5 DEF Out
<1>10. ~Out(s)' /\ (Out(s) <=> submits[s].live)
  BY <1>2, <1>3, <1>5 DEF Out
<1>11. OwnsActionRequest(s) <=> Out(s)
  BY <1>10 DEF OwnsActionRequest, HeldInv, LiveInv
<1>12. DialogTypeOK'
  BY <1>4, <1>5, <1>6, <1>7 DEF DialogTypeOK
<1>13. LiveInv'
  BY <1>2, <1>3, <1>5, <1>6, <1>7 DEF LiveInv
<1>14. HeldInv'
  BY <1>5, <1>6, <1>9, <1>10, <1>11 DEF HeldInv
<1>15. ShownInv'
  <2>1. CASE shown' = shown
    BY <2>1, <1>2, <1>3, <1>5, <1>6 DEF ShownInv
  <2>2. CASE OwnsActionRequest(s) /\ shown'.of = s /\ shown'.session = submits[s].session
    BY <2>2, <1>3, <1>5, <1>6, <1>10, <1>11 DEF ShownInv, HeldInv, LiveInv
  <2> QED BY <1>8, <2>1, <2>2
<1> QED BY <1>12, <1>13, <1>14, <1>15

LEMMA PollInv ==
  ASSUME DialogInv, NEW s \in Submits, Poll(s)
  PROVE  DialogInv'
<1> USE DEF DialogInv
<1>1. /\ UNCHANGED <<signedIn, open, executing, submits, session, opening>> /\ submits[s].state = "settled"
      /\ \/ shown' = shown
         \/ submits[s].live /\ shown' = [what |-> "end", of |-> s, session |-> submits[s].session]
  BY DEF Poll, Show, LiveInv
<1>2. DOMAIN trackers' = Submits /\ \A t \in Submits : trackers'[t] = "polling" => trackers[t] = "polling"
  <2>1. PICK stage \in {"off", "reported"} : trackers' = [trackers EXCEPT ![s] = stage]
    BY DEF Poll
  <2> QED BY <2>1, OneTracks
<1>3. \A t \in Submits : Out(t)' <=> Out(t)
  BY <1>1 DEF Out
<1>4. DialogTypeOK' /\ LiveInv'
  BY <1>1, <1>2 DEF DialogTypeOK, LiveInv
<1>5. HeldInv'
  BY <1>1, <1>3 DEF HeldInv
<1>6. ShownInv'
  BY <1>1 DEF ShownInv, LiveInv
<1> QED BY <1>4, <1>5, <1>6

(* The generation changes: nothing is out and nothing is shown.            *)
LEMMA SessionInv ==
  ASSUME DialogInv, EndSession \/ SignIn
  PROVE  DialogInv'
<1> USE DEF DialogInv
<1>1. submits' = [s \in Submits |-> [submits[s] EXCEPT !.live = FALSE, !.owner = FALSE]]
  BY DEF EndSession, SignIn
<1>2. /\ DOMAIN submits' = Submits
      /\ \A s \in Submits : IsSubmission(submits'[s]) /\ ~submits'[s].live /\ submits'[s].state = submits[s].state
  BY <1>1, DisownedFields
<1>3. \A s \in Submits : ~Out(s)'
  BY <1>2 DEF Out
<1>4. CASE EndSession
  <2>1. signedIn' = FALSE /\ open' = FALSE /\ executing' = FALSE /\ shown' = Nothing /\ trackers' = trackers
    BY <1>4 DEF EndSession
  <2> QED BY <1>2, <1>3, <2>1 DEF DialogTypeOK, LiveInv, HeldInv, ShownInv, Nothing
<1>5. CASE SignIn
  <2>1. ~signedIn /\ signedIn' = TRUE /\ UNCHANGED <<open, executing, shown, trackers>>
    BY <1>5 DEF SignIn
  <2>2. ~open /\ ~executing /\ shown.what = "nothing"
    BY <2>1 DEF LiveInv, HeldInv, ShownInv
  <2> QED BY <1>2, <1>3, <2>1, <2>2 DEF DialogTypeOK, LiveInv, HeldInv, ShownInv
<1> QED BY <1>4, <1>5

(* Every step of the dialog, the Hub and the session keeps the invariant,  *)
(* for any Agents and offers and any number of submissions and sessions.   *)
THEOREM DialogInvariant == DialogSpec => []DialogInv
<1>1. DialogInv /\ [DialogNext]_dialogVars => DialogInv'
  <2> SUFFICES ASSUME DialogInv, [DialogNext]_dialogVars PROVE DialogInv'
    OBVIOUS
  <2>1. ASSUME NEW s \in Submits, DeploymentEnds(s) PROVE DialogInv'
    BY <2>1 DEF DeploymentEnds, DialogInv, DialogTypeOK, LiveInv, HeldInv, ShownInv, Out
  <2>2. CASE UNCHANGED dialogVars
    BY <2>2 DEF dialogVars, DialogInv, DialogTypeOK, LiveInv, HeldInv, ShownInv, Out
  <2>3. CASE DialogNext
    BY <2>3, <2>1, WindowInv, SubmitInv, HubAnswersInv, AnswerArrivesInv, PollInv, SessionInv DEF DialogNext
  <2> QED BY <2>2, <2>3
<1> QED BY <1>1, DialogStarts, PTL DEF DialogSpec

(* No answer of an earlier session or dialog is shown in a later one: what *)
(* app.ts writes after an await is guarded by the marks it captured.       *)
THEOREM AnswersStayHome == DialogSpec => []ResultsOwned
<1>1. DialogInv => ResultsOwned
  BY DEF DialogInv, ShownInv, ResultsOwned
<1> QED BY <1>1, DialogInvariant, PTL

(* The dialog is held exactly while its one execution is out.              *)
THEOREM HeldByOneSubmission == DialogSpec => []OneSubmission
<1>1. ASSUME DialogInv PROVE OneSubmission
  <2> DEFINE out == {s \in Submits : submits[s].state \in {"sent", "answered", "refused"} /\ submits[s].live}
  <2>1. \A s \in Submits : s \in out <=> Out(s)
    BY DEF Out
  <2>2. executing <=> out # {}
    BY <1>1, <2>1 DEF DialogInv, HeldInv
  <2>3. executing => open
    BY <1>1 DEF DialogInv, HeldInv
  <2>4. Cardinality(out) <= 1
    <3>1. CASE out = {}
      BY <3>1, FS_EmptySet
    <3>2. CASE out # {}
      <4>1. PICK s \in Submits : out = {s}
        BY <3>2, <1>1, <2>1 DEF DialogInv, HeldInv
      <4>2. Cardinality({s}) = 1
        BY FS_Singleton
      <4> QED BY <4>1, <4>2
    <3> QED BY <3>1, <3>2
  <2> QED BY <2>2, <2>3, <2>4 DEF OneSubmission
<1> QED BY <1>1, DialogInvariant, PTL
-----------------------------------------------------------------------------
(* The event list.                                                         *)
(*                                                                         *)
(* Only the pages of a refresh are complete, or useless, before the call   *)
(* ends: its other requests are still out.                                 *)
CallKinds == {"refresh", "select", "load", "more", "ack"}
CallFields == {"kind", "live", "owner", "query", "target", "got", "answer"}

IsCall(row) ==
  /\ DOMAIN row = CallFields /\ row.kind \in CallKinds
  /\ row.live \in BOOLEAN /\ row.owner \in BOOLEAN
  /\ "status" \in DOMAIN row.answer
  /\ row.answer.status \in {"complete", "useless"} => row.kind = "refresh"

CallsInv ==
  DOMAIN calls = Slots /\ \A c \in Slots : calls[c] = Idle \/ IsCall(calls[c])

(* A flag has the call that will clear it; nobody who is signed out sees   *)
(* one of the list.                                                        *)
OutFor(kind) == \E c \in Slots : calls[c].kind = kind
OwnedFor(kinds) == \E c \in Slots : calls[c].kind \in kinds /\ Present(c)

FlagsInv ==
  /\ authed \in BOOLEAN /\ loadingMore \in BOOLEAN /\ loadingFirst \in BOOLEAN /\ refreshing \in BOOLEAN
  /\ loadingMore => authed /\ OwnedFor({"more"})
  /\ loadingFirst => authed /\ OwnedFor({"select", "load"})
  /\ refreshing => OutFor("refresh")

(* The calls of the present session are those of somebody signed in.       *)
LiveCallsInv == \A c \in Slots : calls[c].kind \in CallKinds /\ calls[c].live => authed

ListInv == CallsInv /\ FlagsInv /\ LiveCallsInv /\ RowsOfChosen

(* A step leaves the selected filter, or draws it: what is drawn is the    *)
(* filter itself, or the filter for all hosts if its host is not known.    *)
Drawn == selected' = selected \/ Draw(selected, options')

LEMMA AllHostsTwice == \A f : AllHosts(AllHosts(f)) = AllHosts(f)
BY DEF AllHosts

(* Rows of the filter that was asked for stay those of it when the page is *)
(* drawn.                                                                  *)
LEMMA DrawnChosen ==
  ASSUME Drawn,
         list'.loaded => list'.filter = dataFilter' /\ selected \in {dataFilter', AllHosts(dataFilter')}
  PROVE  RowsOfChosen'
<1>1. selected' \in {selected, AllHosts(selected)}
  BY DEF Drawn, Draw
<1> QED BY <1>1, AllHostsTwice DEF RowsOfChosen

(* The rows leave the selected filter only where its host is not known.    *)
Parts == RowsOfSelected /\ ~RowsOfSelected' => list'.filter.host \notin options' \cup {""}

LEMMA DrawnParts ==
  ASSUME Drawn, RowsOfSelected /\ list'.loaded => list'.filter = selected /\ dataFilter' = selected
  PROVE  Parts
<1> SUFFICES ASSUME RowsOfSelected, list'.loaded, selected' # selected
             PROVE  list'.filter.host \notin options' \cup {""}
  BY DEF Parts, RowsOfSelected
<1>1. selected' = IF selected.host \in options' \cup {""} THEN selected ELSE AllHosts(selected)
  BY DEF Drawn, Draw
<1> QED BY <1>1

LEMMA IdleIsNoCall == Idle.kind = "idle"
BY DEF Idle

(* Advancing the sequence number, or the generation, ends no call.         *)
LEMMA MarkedCalls ==
  ASSUME CallsInv, NEW inFlight, inFlight = Bumped \/ inFlight = Left
  PROVE  /\ DOMAIN inFlight = Slots
         /\ \A d \in Slots : /\ inFlight[d] = Idle \/ IsCall(inFlight[d])
                             /\ inFlight[d].kind = calls[d].kind
<1>1. ASSUME NEW d \in Slots, calls[d] # Idle,
             NEW row, row = [calls[d] EXCEPT !.owner = FALSE] \/ row = [calls[d] EXCEPT !.owner = FALSE, !.live = FALSE]
      PROVE  IsCall(row) /\ row.kind = calls[d].kind
  BY <1>1 DEF CallsInv, IsCall, CallFields
<1>2. CASE inFlight = Bumped
  BY <1>1, <1>2 DEF Bumped, Busy
<1>3. CASE inFlight = Left
  BY <1>1, <1>3 DEF Left, Busy
<1> QED BY <1>2, <1>3

(* After a change of the generation no call is live.                       *)
LEMMA NoneLeftLive ==
  ASSUME CallsInv, NEW d \in Slots
  PROVE  Left[d] = Idle \/ Left[d].live = FALSE
<1>1. calls[d] # Idle => [calls[d] EXCEPT !.owner = FALSE, !.live = FALSE].live = FALSE
  BY DEF CallsInv, IsCall, CallFields
<1> QED BY <1>1 DEF Left, Busy

(* A call begins in a free slot, or in the place of one that ends.         *)
LEMMA CallBegins ==
  ASSUME NEW inFlight, DOMAIN inFlight = Slots, \A d \in Slots : inFlight[d] = Idle \/ IsCall(inFlight[d]),
         NEW c \in Slots, NEW kind \in CallKinds, NEW query, NEW target,
         calls' = [inFlight EXCEPT ![c] = Call(kind, query, target)]
  PROVE  /\ CallsInv' /\ calls'[c].kind = kind /\ Present(c)'
         /\ \A d \in Slots \ {c} : calls'[d] = inFlight[d]
<1>1. DOMAIN calls' = Slots /\ calls'[c] = Call(kind, query, target) /\ \A d \in Slots \ {c} : calls'[d] = inFlight[d]
  OBVIOUS
<1>2. IsCall(Call(kind, query, target)) /\ Call(kind, query, target).kind = kind
      /\ Call(kind, query, target).live = TRUE /\ Call(kind, query, target).owner = TRUE
  BY DEF Call, IsCall, CallFields, Blank
<1> QED BY <1>1, <1>2 DEF CallsInv, Present

(* A step of one call leaves the others as they are.                       *)
LEMMA OneCall ==
  ASSUME CallsInv, NEW c \in Slots, NEW row, row = Idle \/ IsCall(row), calls' = [calls EXCEPT ![c] = row]
  PROVE  CallsInv' /\ calls'[c] = row /\ \A d \in Slots \ {c} : calls'[d] = calls[d]
BY DEF CallsInv

(* A step that leaves the page as it is and no call out of its kind.       *)
LEMMA CallStep ==
  ASSUME ListInv, CallsInv', UNCHANGED <<authed, selector, list, dataFilter, loadingMore, loadingFirst, refreshing>>,
         \A d \in Slots : calls[d] # Idle => calls'[d].kind = calls[d].kind /\ (Present(d)' <=> Present(d)),
         \/ authed
         \/ \A d \in Slots : calls'[d].kind = calls[d].kind /\ calls'[d].live = calls[d].live
  PROVE  ListInv'
<1>1. \A d \in Slots : calls[d].kind \in CallKinds => calls'[d].kind = calls[d].kind /\ (Present(d)' <=> Present(d))
  BY IdleIsNoCall DEF CallKinds
<1>2. FlagsInv'
  BY <1>1 DEF ListInv, FlagsInv, OutFor, OwnedFor, CallKinds
<1>3. LiveCallsInv'
  BY DEF ListInv, LiveCallsInv
<1> QED BY <1>2, <1>3 DEF ListInv, RowsOfChosen, selector

(* A step of a call that keeps what it is.                                 *)
LEMMA RowStep ==
  ASSUME ListInv, NEW c \in Slots, NEW row, IsCall(row), calls' = [calls EXCEPT ![c] = row],
         row.kind = calls[c].kind, row.live = calls[c].live, row.owner = calls[c].owner,
         UNCHANGED <<authed, selector, list, dataFilter, loadingMore, loadingFirst, refreshing>>
  PROVE  ListInv'
<1>1. CallsInv' /\ calls'[c] = row /\ \A d \in Slots \ {c} : calls'[d] = calls[d]
  BY OneCall DEF ListInv
<1>2. \A d \in Slots : /\ calls'[d].kind = calls[d].kind /\ (Present(d)' <=> Present(d))
                      /\ calls'[d].live = calls[d].live
  BY <1>1 DEF Present
<1> QED BY <1>1, <1>2, CallStep

LEMMA ListStarts == ListInit => ListInv
<1> SUFFICES ASSUME ListInit PROVE ListInv
  OBVIOUS
<1>1. /\ authed = FALSE /\ loadingMore = FALSE /\ loadingFirst = FALSE /\ refreshing = FALSE
      /\ list.loaded = FALSE /\ calls = [c \in Slots |-> Idle]
  BY DEF ListInit, Empty
<1>2. \A c \in Slots : calls[c].kind \notin CallKinds
  BY <1>1, IdleIsNoCall DEF CallKinds
<1> QED BY <1>1, <1>2 DEF ListInv, CallsInv, FlagsInv, LiveCallsInv, RowsOfChosen
-----------------------------------------------------------------------------
LEMMA RefreshInv ==
  ASSUME ListInv, NEW c \in Slots, StartRefresh(c) \/ Login(c)
  PROVE  ListInv'
<1> USE DEF ListInv
<1>1. PICK inFlight : /\ inFlight = Bumped \/ inFlight = Left
                      /\ \/ Refresh(c, inFlight)
                         \/ /\ calls' = inFlight /\ refreshing /\ ~authed
                            /\ UNCHANGED <<list, dataFilter, selector, loadingMore, loadingFirst, refreshing>>
  BY DEF StartRefresh, Login
<1>2. authed' = TRUE /\ authed \in BOOLEAN
  BY DEF StartRefresh, Login, FlagsInv
<1>3. /\ DOMAIN inFlight = Slots
      /\ \A d \in Slots : (inFlight[d] = Idle \/ IsCall(inFlight[d])) /\ inFlight[d].kind = calls[d].kind
  BY <1>1, MarkedCalls
<1>4. CASE Refresh(c, inFlight)
  <2>1. PICK query, target : calls' = [inFlight EXCEPT ![c] = Call("refresh", query, target)]
    BY <1>4 DEF Refresh, Fetch
  <2>2. CallsInv' /\ calls'[c].kind = "refresh"
    BY <1>3, <2>1, CallBegins DEF CallKinds
  <2>3. /\ loadingMore' = FALSE /\ loadingFirst' = FALSE /\ refreshing' = TRUE
        /\ UNCHANGED <<selector, list, dataFilter>>
    BY <1>4 DEF Refresh
  <2> QED BY <1>2, <2>2, <2>3 DEF FlagsInv, LiveCallsInv, OutFor, RowsOfChosen, selector
<1>5. CASE /\ calls' = inFlight /\ refreshing /\ ~authed
           /\ UNCHANGED <<list, dataFilter, selector, loadingMore, loadingFirst, refreshing>>
  <2>1. CallsInv'
    BY <1>3, <1>5 DEF CallsInv
  <2>2. OutFor("refresh")'
    BY <1>3, <1>5 DEF FlagsInv, OutFor
  <2> QED BY <1>2, <1>5, <2>1, <2>2 DEF FlagsInv, LiveCallsInv, RowsOfChosen, selector
<1> QED BY <1>1, <1>4, <1>5

(* loadEvents takes the list over from whatever was loading it.            *)
LEMMA LoadFirstInv ==
  ASSUME ListInv, NEW c \in Slots, NEW kind \in {"select", "load"}, NEW f, LoadFirst(c, kind, f),
         authed = TRUE, authed' = TRUE, refreshing' = refreshing, calls[c].kind # "refresh"
  PROVE  ListInv'
<1> USE DEF ListInv
<1>1. PICK query, target : calls' = [Bumped EXCEPT ![c] = Call(kind, query, target)]
  BY DEF LoadFirst, Fetch
<1>2. DOMAIN Bumped = Slots
      /\ \A d \in Slots : (Bumped[d] = Idle \/ IsCall(Bumped[d])) /\ Bumped[d].kind = calls[d].kind
  BY MarkedCalls
<1>3. CallsInv' /\ calls'[c].kind = kind /\ Present(c)' /\ \A d \in Slots \ {c} : calls'[d].kind = calls[d].kind
  BY <1>1, <1>2, CallBegins DEF CallKinds
<1>4. loadingMore' = FALSE /\ loadingFirst' = TRUE
  BY DEF LoadFirst
<1>5. FlagsInv'
  BY <1>3, <1>4 DEF FlagsInv, OwnedFor, OutFor
<1>6. RowsOfChosen'
  <2>1. selected' \in {f, AllHosts(f)}
    BY DEF LoadFirst, Draw
  <2>2. list'.loaded => list' = list /\ dataFilter' = dataFilter /\ dataFilter = f
    BY DEF LoadFirst, DropRows, Empty
  <2> QED BY <2>1, <2>2 DEF RowsOfChosen
<1>7. LiveCallsInv'
  BY DEF LiveCallsInv
<1> QED BY <1>3, <1>5, <1>6, <1>7

LEMMA SelectFilterInv ==
  ASSUME ListInv, NEW c \in Slots, NEW f \in Filters, SelectFilter(c, f)
  PROVE  ListInv'
<1>1. authed = TRUE /\ authed' = TRUE /\ refreshing' = refreshing /\ LoadFirst(c, "select", f)
  BY DEF SelectFilter, ListInv, FlagsInv
<1>2. calls[c].kind # "refresh"
  BY IdleIsNoCall DEF SelectFilter, Busy
<1> QED BY <1>1, <1>2, LoadFirstInv

LEMMA LoadMoreInv ==
  ASSUME ListInv, NEW c \in Slots, LoadMore(c)
  PROVE  ListInv'
<1> USE DEF ListInv
<1>1. PICK query, target : calls' = [Bumped EXCEPT ![c] = Call("more", query, target)]
  BY DEF LoadMore
<1>2. DOMAIN Bumped = Slots
      /\ \A d \in Slots : (Bumped[d] = Idle \/ IsCall(Bumped[d])) /\ Bumped[d].kind = calls[d].kind
  BY MarkedCalls
<1>3. CallsInv' /\ calls'[c].kind = "more" /\ Present(c)' /\ \A d \in Slots \ {c} : calls'[d].kind = calls[d].kind
  BY <1>1, <1>2, CallBegins DEF CallKinds
<1>4. /\ loadingMore' = TRUE /\ ~loadingFirst /\ authed /\ calls[c].kind # "refresh"
      /\ UNCHANGED <<authed, selector, list, dataFilter, loadingFirst, refreshing>>
  BY IdleIsNoCall DEF LoadMore, Busy
<1>5. FlagsInv'
  BY <1>3, <1>4 DEF FlagsInv, OwnedFor, OutFor
<1>6. RowsOfChosen'
  BY <1>4 DEF RowsOfChosen, selector
<1>7. LiveCallsInv'
  BY <1>4 DEF LiveCallsInv
<1> QED BY <1>3, <1>5, <1>6, <1>7

LEMMA AcknowledgeEventInv ==
  ASSUME ListInv, NEW c \in Slots, NEW e \in Events, AcknowledgeEvent(c, e)
  PROVE  ListInv'
<1>1. PICK query, target : calls' = [calls EXCEPT ![c] = Call("ack", query, target)]
  BY DEF AcknowledgeEvent
<1>2. CallsInv' /\ \A d \in Slots \ {c} : calls'[d] = calls[d]
  BY <1>1, CallBegins DEF CallKinds, ListInv, CallsInv
<1>3. calls[c] = Idle /\ authed /\ UNCHANGED <<authed, selector, list, dataFilter, loadingMore, loadingFirst, refreshing>>
  BY DEF AcknowledgeEvent, Busy
<1>4. \A d \in Slots : calls[d] # Idle => calls'[d].kind = calls[d].kind /\ (Present(d)' <=> Present(d))
  BY <1>2, <1>3 DEF Present
<1> QED BY <1>2, <1>3, <1>4, CallStep

LEMMA LoseSessionInv ==
  ASSUME ListInv, LoseSession
  PROVE  ListInv'
<1> USE DEF ListInv
<1>1. /\ calls' = Left /\ authed' = FALSE /\ list' = Empty
      /\ loadingMore' = FALSE /\ loadingFirst' = FALSE /\ refreshing' = refreshing
  BY DEF LoseSession, ExpireSession
<1>2. DOMAIN calls' = Slots
      /\ \A d \in Slots : /\ calls'[d] = Idle \/ IsCall(calls'[d])
                          /\ calls'[d].kind = calls[d].kind
                          /\ calls'[d] = Idle \/ calls'[d].live = FALSE
  BY <1>1, MarkedCalls, NoneLeftLive
<1>3. CallsInv'
  BY <1>2 DEF CallsInv
<1>4. FlagsInv'
  BY <1>1, <1>2 DEF FlagsInv, OutFor
<1>5. RowsOfChosen'
  BY <1>1 DEF RowsOfChosen, Empty
<1>6. LiveCallsInv'
  BY <1>2, IdleIsNoCall DEF LiveCallsInv, CallKinds
<1> QED BY <1>3, <1>4, <1>5, <1>6
-----------------------------------------------------------------------------
(* The Hub's answer, or the failure of the request, is an answer of a page. *)
LEMMA AnswerStatus ==
  ASSUME NEW c \in Slots, Answer(c)
  PROVE  \E answer : Answered(c, answer) /\ "status" \in DOMAIN answer /\ answer.status \in {"ok", "failed"}
<1>1. \A status : "status" \in DOMAIN Blank(status) /\ Blank(status).status = status
  BY DEF Blank
<1>2. \A query, s : "status" \in DOMAIN Page(query, s) /\ Page(query, s).status = "ok"
  BY DEF Page
<1> DEFINE query == calls[c].query
<1>3. \/ Answered(c, Blank("failed"))
      \/ Answered(c, Blank("ok"))
      \/ \E s : Answered(c, Page(query, s))
      \/ \E answer \in LaterPages(query) : Answered(c, answer)
  BY DEF Answer
<1>4. \A answer \in LaterPages(query) : (answer = Blank("failed") \/ \E s : answer = Page(query, s))
  BY DEF LaterPages
<1> QED BY <1>1, <1>2, <1>3, <1>4

LEMMA AnswerInv ==
  ASSUME ListInv, NEW c \in Slots, Answer(c)
  PROVE  ListInv'
<1>1. PICK answer : Answered(c, answer) /\ "status" \in DOMAIN answer /\ answer.status \in {"ok", "failed"}
  BY AnswerStatus
<1> DEFINE row == [calls[c] EXCEPT !.answer = answer]
<1>2. calls' = [calls EXCEPT ![c] = row]
  BY <1>1 DEF Answered
<1>3. IsCall(calls[c])
  BY DEF Answer, Busy, ListInv, CallsInv
<1>4. /\ DOMAIN row = CallFields /\ row.answer = answer /\ row.kind = calls[c].kind
      /\ row.live = calls[c].live /\ row.owner = calls[c].owner
  BY <1>3 DEF IsCall, CallFields
<1> HIDE DEF row
<1>5. IsCall(row)
  BY <1>1, <1>3, <1>4 DEF IsCall
<1>6. UNCHANGED <<authed, selector, list, dataFilter, loadingMore, loadingFirst, refreshing>>
  BY DEF Answer
<1> QED BY <1>2, <1>4, <1>5, <1>6, RowStep

LEMMA FetchNextInv ==
  ASSUME ListInv, NEW c \in Slots, FetchNext(c)
  PROVE  ListInv'
<1>1. PICK got, query : calls' = [calls EXCEPT ![c].got = got, ![c].query = query, ![c].answer = Blank("none")]
  BY DEF FetchNext
<1> DEFINE row == [calls[c] EXCEPT !.got = got, !.query = query, !.answer = Blank("none")]
<1>2. IsCall(calls[c])
  BY DEF FetchNext, Arrives, Busy, ListInv, CallsInv
<1>3. calls' = [calls EXCEPT ![c] = row]
  BY <1>1, <1>2 DEF IsCall
<1>4. /\ DOMAIN row = CallFields /\ row.answer = Blank("none") /\ row.kind = calls[c].kind
      /\ row.live = calls[c].live /\ row.owner = calls[c].owner
  BY <1>2 DEF IsCall, CallFields
<1> HIDE DEF row
<1>5. "status" \in DOMAIN Blank("none") /\ Blank("none").status = "none"
  BY DEF Blank
<1>6. IsCall(row)
  BY <1>2, <1>4, <1>5 DEF IsCall
<1>7. UNCHANGED <<authed, selector, list, dataFilter, loadingMore, loadingFirst, refreshing>>
  BY DEF FetchNext
<1> QED BY <1>3, <1>4, <1>6, <1>7, RowStep

LEMMA FetchEndsInv ==
  ASSUME ListInv, NEW c \in Slots, FetchEnds(c)
  PROVE  ListInv'
<1> DEFINE complete == [calls[c] EXCEPT !.got = Collected(c), !.answer.status = "complete"]
           useless == [calls[c] EXCEPT !.got = <<>>, !.answer = Blank("useless")]
<1>1. IsCall(calls[c]) /\ calls[c].kind = "refresh"
  BY DEF FetchEnds, Arrives, Busy, ListInv, CallsInv
<1>2. calls' = [calls EXCEPT ![c] = complete] \/ calls' = [calls EXCEPT ![c] = useless]
  BY DEF FetchEnds
<1>3. UNCHANGED <<authed, selector, list, dataFilter, loadingMore, loadingFirst, refreshing>>
  BY DEF FetchEnds
<1>4. /\ DOMAIN complete = CallFields /\ complete.kind = "refresh" /\ complete.live = calls[c].live
      /\ complete.owner = calls[c].owner /\ "status" \in DOMAIN complete.answer
  BY <1>1 DEF IsCall, CallFields
<1>5. "status" \in DOMAIN Blank("useless")
  BY DEF Blank
<1>6. /\ DOMAIN useless = CallFields /\ useless.kind = "refresh" /\ useless.live = calls[c].live
      /\ useless.owner = calls[c].owner /\ useless.answer = Blank("useless")
  BY <1>1 DEF IsCall, CallFields
<1> HIDE DEF complete, useless
<1>7. IsCall(complete) /\ IsCall(useless)
  BY <1>1, <1>4, <1>5, <1>6 DEF IsCall
<1> QED BY <1>1, <1>2, <1>3, <1>4, <1>6, <1>7, RowStep
-----------------------------------------------------------------------------
(* A call ends, and with it the flag it was to clear.                      *)
LEMMA CallEnds ==
  ASSUME ListInv, NEW c \in Slots, calls' = Done(c)
  PROVE  /\ CallsInv' /\ (authed' = authed => LiveCallsInv')
         /\ \A d \in Slots \ {c} : calls'[d] = calls[d] /\ (Present(d)' <=> Present(d))
<1>1. CallsInv' /\ calls'[c] = Idle /\ \A d \in Slots \ {c} : calls'[d] = calls[d]
  BY OneCall DEF Done, ListInv
<1>2. authed' = authed => LiveCallsInv'
  BY <1>1, IdleIsNoCall DEF ListInv, LiveCallsInv, CallKinds
<1> QED BY <1>1, <1>2 DEF Present

LEMMA FinishRefreshInv ==
  ASSUME ListInv, NEW c \in Slots, FinishRefresh(c)
  PROVE  ListInv'
<1> USE DEF ListInv
<1>1. calls[c].kind = "refresh"
  BY DEF FinishRefresh, Arrives, Busy, CallsInv, IsCall
<1>2. /\ CallsInv' /\ LiveCallsInv'
      /\ \A d \in Slots \ {c} : calls'[d] = calls[d] /\ (Present(d)' <=> Present(d))
  BY CallEnds DEF FinishRefresh
<1>3. /\ refreshing' = FALSE /\ UNCHANGED <<authed, loadingMore>>
  BY DEF FinishRefresh
<1>7. \/ loadingFirst' = loadingFirst
      \/ loadingFirst' = FALSE
  BY DEF FinishRefresh
<1>6. ASSUME NEW kinds \in {{"more"}, {"select", "load"}}, OwnedFor(kinds) PROVE OwnedFor(kinds)'
  BY <1>1, <1>2, <1>6 DEF OwnedFor
<1>4. FlagsInv'
  <2>1. CASE loadingFirst' = loadingFirst
    BY <1>3, <1>6, <2>1 DEF FlagsInv
  <2>2. CASE loadingFirst' = FALSE
    BY <1>3, <1>6, <2>2 DEF FlagsInv
  <2> QED BY <1>7, <2>1, <2>2
<1>5. RowsOfChosen'
  <2>1. Drawn
    BY DEF FinishRefresh, Drawn, Draw, selector
  <2>2. \/ UNCHANGED <<list, dataFilter>>
        \/ list'.filter = dataFilter' /\ dataFilter' = selected
    BY DEF FinishRefresh, Rows
  <2> QED BY <2>1, <2>2, DrawnChosen DEF RowsOfChosen
<1> QED BY <1>2, <1>4, <1>5

LEMMA FinishLoadInv ==
  ASSUME ListInv, NEW c \in Slots, FinishLoad(c)
  PROVE  ListInv'
<1> USE DEF ListInv
<1>1. calls[c].kind \in {"select", "load"}
  BY DEF FinishLoad
<1>2. /\ CallsInv' /\ LiveCallsInv'
      /\ \A d \in Slots \ {c} : calls'[d] = calls[d] /\ (Present(d)' <=> Present(d))
  BY CallEnds DEF FinishLoad
<1>3. loadingFirst' = (loadingFirst /\ ~Present(c)) /\ UNCHANGED <<authed, loadingMore, refreshing>>
  BY DEF FinishLoad
<1>4. FlagsInv'
  BY <1>1, <1>2, <1>3 DEF FlagsInv, OwnedFor, OutFor
<1>5. RowsOfChosen'
  <2>1. Drawn
    BY DEF FinishLoad, Drawn, Draw
  <2>2. \/ UNCHANGED <<list, dataFilter>>
        \/ list'.filter = dataFilter' /\ dataFilter' = selected
    BY DEF FinishLoad, Rows
  <2> QED BY <2>1, <2>2, DrawnChosen DEF RowsOfChosen
<1> QED BY <1>2, <1>4, <1>5

LEMMA FinishMoreInv ==
  ASSUME ListInv, NEW c \in Slots, FinishMore(c)
  PROVE  ListInv'
<1> USE DEF ListInv
<1>1. calls[c].kind = "more"
  BY DEF FinishMore
<1>2. /\ CallsInv' /\ LiveCallsInv'
      /\ \A d \in Slots \ {c} : calls'[d] = calls[d] /\ (Present(d)' <=> Present(d))
  BY CallEnds DEF FinishMore
<1>3. loadingMore' = (loadingMore /\ ~Present(c)) /\ UNCHANGED <<authed, loadingFirst, refreshing>>
  BY DEF FinishMore
<1>4. FlagsInv'
  BY <1>1, <1>2, <1>3 DEF FlagsInv, OwnedFor, OutFor
<1>5. RowsOfChosen'
  <2>1. Drawn
    BY DEF FinishMore, Drawn, Draw
  <2>2. /\ dataFilter' = dataFilter
        /\ \/ UNCHANGED list
           \/ dataFilter = selected /\ \E rows, answer : list' = Rows(rows, answer, selected)
    BY DEF FinishMore, Continues
  <2>3. \A rows, answer : Rows(rows, answer, selected).filter = selected
    BY DEF Rows
  <2> QED BY <2>1, <2>2, <2>3, DrawnChosen DEF RowsOfChosen
<1> QED BY <1>2, <1>4, <1>5

LEMMA FinishAcknowledgeInv ==
  ASSUME ListInv, NEW c \in Slots, FinishAcknowledge(c)
  PROVE  ListInv'
<1> USE DEF ListInv
<1>1. calls[c].kind = "ack" /\ UNCHANGED <<authed, refreshing>>
  BY DEF FinishAcknowledge
<1>2. CASE calls[c].live /\ LoadFirst(c, "load", selected)
  <2>1. authed = TRUE
    BY <1>1, <1>2 DEF LiveCallsInv, CallKinds, FlagsInv
  <2> QED BY <1>1, <1>2, <2>1, LoadFirstInv
<1>3. CASE calls' = Done(c) /\ UNCHANGED <<selector, list, dataFilter, loadingMore, loadingFirst>>
  <2>1. /\ CallsInv' /\ LiveCallsInv'
        /\ \A d \in Slots \ {c} : calls'[d] = calls[d] /\ (Present(d)' <=> Present(d))
    BY <1>1, <1>3, CallEnds
  <2>2. FlagsInv'
    BY <1>1, <1>3, <2>1 DEF FlagsInv, OwnedFor, OutFor
  <2> QED BY <1>1, <1>3, <2>1, <2>2 DEF RowsOfChosen, selector
<1> QED BY <1>2, <1>3 DEF FinishAcknowledge

LEMMA RedrawInv ==
  ASSUME ListInv, RedrawPage
  PROVE  ListInv'
<1> USE DEF ListInv
<1>1. UNCHANGED <<authed, list, dataFilter, loadingMore, loadingFirst, refreshing, calls>>
  BY DEF RedrawPage
<1>2. CallsInv' /\ FlagsInv' /\ LiveCallsInv'
  BY <1>1 DEF CallsInv, FlagsInv, LiveCallsInv, OutFor, OwnedFor, Present
<1>3. Drawn
  BY DEF RedrawPage, Drawn, Draw
<1>4. RowsOfChosen'
  BY <1>1, <1>3, DrawnChosen DEF RowsOfChosen
<1> QED BY <1>2, <1>4

(* Every step of the page, the operator and the Hub keeps the invariant,   *)
(* for any events, filters, page sizes and number of calls in flight.      *)
THEOREM ListInvariant == ListSpec => []ListInv
<1>1. ListInv /\ [ListNext]_<<pageVars, listVars>> => ListInv'
  <2> SUFFICES ASSUME ListInv, [ListNext]_<<pageVars, listVars>> PROVE ListInv'
    OBVIOUS
  <2>1. CASE UNCHANGED listVars
    BY <2>1 DEF listVars, selector, ListInv, CallsInv, FlagsInv, LiveCallsInv, RowsOfChosen, OutFor, OwnedFor, Present
  <2>2. CASE \/ LoseSession
             \/ \E c \in Slots : StartRefresh(c) \/ Login(c) \/ LoadMore(c)
             \/ \E c \in Slots, f \in Filters : SelectFilter(c, f)
             \/ \E c \in Slots, e \in Events : AcknowledgeEvent(c, e)
    BY <2>2, LoseSessionInv, RefreshInv, LoadMoreInv, SelectFilterInv, AcknowledgeEventInv
  <2>3. CASE \E c \in Slots :
               \/ Answer(c)
               \/ FetchNext(c) \/ FetchEnds(c) \/ FinishRefresh(c) \/ FinishLoad(c) \/ FinishMore(c)
               \/ FinishAcknowledge(c)
    BY <2>3, AnswerInv, FetchNextInv, FetchEndsInv, FinishRefreshInv, FinishLoadInv, FinishMoreInv,
       FinishAcknowledgeInv
  <2>4. CASE RedrawPage
    BY <2>4, RedrawInv
  <2> QED BY <2>1, <2>2, <2>3, <2>4 DEF ListNext, listVars
<1> QED BY <1>1, ListStarts, PTL DEF ListSpec

(* A flag that hides the buttons of the page belongs to a call that will   *)
(* clear it, whatever overtakes what (loadEvents, refresh in app.ts).      *)
THEOREM FlagsAreOwned == ListSpec => []BusyHasOwner
<1>1. \A c \in Slots : calls[c].kind \in CallKinds => c \in Busy
  BY IdleIsNoCall DEF Busy, CallKinds
<1>2. ListInv => BusyHasOwner
  BY <1>1 DEF ListInv, FlagsInv, OutFor, OwnedFor, BusyHasOwner, CallKinds
<1> QED BY <1>2, ListInvariant, PTL

(* No late answer puts the rows of another filter on the page, nor another *)
(* filter above the rows: what the operator chose and what the page shows  *)
(* differ at most by the host a drawing missed (loadEvents, refresh and    *)
(* syncEventAgentSelect in app.ts).                                        *)
THEOREM RowsMatchFilter == ListSpec => []RowsOfChosen
<1>1. ListInv => RowsOfChosen
  BY DEF ListInv
<1> QED BY <1>1, ListInvariant, PTL

LEMMA SelectFilterParts ==
  ASSUME ListInv, NEW c \in Slots, NEW f \in Filters, SelectFilter(c, f)
  PROVE  Parts
<1>1. f # selected /\ DropRows(f)
  BY DEF SelectFilter, LoadFirst
<1>2. CASE dataFilter = f
  BY <1>1, <1>2 DEF DropRows, Parts, RowsOfSelected
<1>3. CASE dataFilter # f
  <2>1. list'.loaded = FALSE
    BY <1>1, <1>3 DEF DropRows, Empty
  <2> QED BY <2>1 DEF Parts, RowsOfSelected
<1> QED BY <1>2, <1>3

(* A step that draws the page, if any, below rows of the selected filter.  *)
LEMMA OtherParts ==
  ASSUME ListInv,
         \/ UNCHANGED listVars
         \/ LoseSession
         \/ RedrawPage
         \/ \E c \in Slots, e \in Events : AcknowledgeEvent(c, e)
         \/ \E c \in Slots :
              \/ StartRefresh(c) \/ Login(c) \/ LoadMore(c) \/ Answer(c)
              \/ FetchNext(c) \/ FetchEnds(c) \/ FinishRefresh(c) \/ FinishLoad(c) \/ FinishMore(c)
              \/ FinishAcknowledge(c)
  PROVE  Parts
<1> DEFINE Rests == UNCHANGED <<selected, list, dataFilter>>
           Below == RowsOfSelected /\ list'.loaded => list'.filter = selected /\ dataFilter' = selected
<1>1. Rests => Drawn /\ Below
  BY DEF Drawn, RowsOfSelected
<1>2. CASE UNCHANGED listVars
  BY <1>1, <1>2, DrawnParts DEF listVars, selector
<1>3. CASE LoseSession
  BY <1>3 DEF LoseSession, ExpireSession, Empty, Parts, RowsOfSelected
<1>4. CASE RedrawPage
  <2>1. Drawn /\ Below
    BY <1>4 DEF RedrawPage, Draw, Drawn, RowsOfSelected
  <2> QED BY <2>1, DrawnParts
<1>5. CASE \E c \in Slots, e \in Events : AcknowledgeEvent(c, e)
  BY <1>1, <1>5, DrawnParts DEF AcknowledgeEvent, selector
<1>6. ASSUME NEW c \in Slots,
             StartRefresh(c) \/ Login(c) \/ LoadMore(c) \/ Answer(c) \/ FetchNext(c) \/ FetchEnds(c)
      PROVE  Parts
  <2>1. Rests
    BY <1>6 DEF StartRefresh, Login, Refresh, LoadMore, Answer, FetchNext, FetchEnds, selector
  <2> QED BY <1>1, <2>1, DrawnParts
<1>7. ASSUME NEW c \in Slots, FinishRefresh(c)
      PROVE  Parts
  <2>1. Drawn
    BY <1>7 DEF FinishRefresh, Drawn, Draw, selector
  <2>2. UNCHANGED <<list, dataFilter>> \/ (list'.filter = selected /\ dataFilter' = selected)
    BY <1>7 DEF FinishRefresh, Rows
  <2> QED BY <2>1, <2>2, DrawnParts DEF RowsOfSelected
<1>8. ASSUME NEW c \in Slots, FinishLoad(c)
      PROVE  Parts
  <2>1. Drawn
    BY <1>8 DEF FinishLoad, Drawn, Draw
  <2>2. UNCHANGED <<list, dataFilter>> \/ (list'.filter = selected /\ dataFilter' = selected)
    BY <1>8 DEF FinishLoad, Rows
  <2> QED BY <2>1, <2>2, DrawnParts DEF RowsOfSelected
<1>9. ASSUME NEW c \in Slots, FinishMore(c)
      PROVE  Parts
  <2>1. Drawn
    BY <1>9 DEF FinishMore, Drawn, Draw
  <2>2. /\ dataFilter' = dataFilter
        /\ \/ UNCHANGED list
           \/ dataFilter = selected /\ \E rows, answer : list' = Rows(rows, answer, selected)
    BY <1>9 DEF FinishMore, Continues
  <2>3. \A rows, answer : Rows(rows, answer, selected).filter = selected
    BY DEF Rows
  <2> QED BY <2>1, <2>2, <2>3, DrawnParts DEF RowsOfSelected
<1>10. ASSUME NEW c \in Slots, FinishAcknowledge(c)
       PROVE  Parts
  <2>1. CASE LoadFirst(c, "load", selected)
    <3>1. Drawn
      BY <2>1 DEF LoadFirst, Draw, Drawn
    <3>2. list'.loaded => UNCHANGED <<list, dataFilter>>
      BY <2>1 DEF LoadFirst, DropRows, Empty
    <3> QED BY <3>1, <3>2, DrawnParts DEF RowsOfSelected
  <2>2. CASE Rests
    BY <1>1, <2>2, DrawnParts
  <2> QED BY <1>10, <2>1, <2>2 DEF FinishAcknowledge, selector
<1> QED BY <1>2, <1>3, <1>4, <1>5, <1>6, <1>7, <1>8, <1>9, <1>10

(* The rows and the selected filter part only where the page is drawn      *)
(* without the selected host (syncEventAgentSelect): no change of filter   *)
(* and no late answer, failure or acknowledgement parts them.              *)
THEOREM RowsPartByDrawing == ListSpec => RowsLeaveFilter
<1>1. ListInv /\ [ListNext]_<<pageVars, listVars>> =>
        [ RowsOfSelected /\ ~RowsOfSelected' => list'.filter.host \notin options' \cup {""}
        ]_<<list, dataFilter, selected>>
  <2> SUFFICES ASSUME ListInv, [ListNext]_<<pageVars, listVars>> PROVE Parts
    BY DEF Parts
  <2>1. CASE \E c \in Slots, f \in Filters : SelectFilter(c, f)
    BY <2>1, SelectFilterParts
  <2>2. CASE ~\E c \in Slots, f \in Filters : SelectFilter(c, f)
    BY <2>2, OtherParts DEF ListNext, listVars
  <2> QED BY <2>1, <2>2
<1> QED BY <1>1, ListInvariant, PTL DEF ListSpec, RowsLeaveFilter
-----------------------------------------------------------------------------
(* The pages of the event list.                                            *)

(* Among some numbers one is the least.                                    *)
LEMMA LeastNumber ==
  ASSUME NEW T, T \subseteq Nat, T # {}
  PROVE  \E t \in T : \A u \in T : t <= u
<1> DEFINE R == {ss \in Nat \X Nat : ss[1] < ss[2]}
<1>1. IsWellFoundedOn(R, Nat)
  BY NatLessThanWellFounded DEF OpToRel
<1>2. \A a, b \in Nat : a < b => <<a, b>> \in R
  OBVIOUS
<1> HIDE DEF R
<1>3. PICK t \in T : \A u \in T : <<u, t>> \notin R
  BY <1>1, WFMin
<1>4. \A u \in T : u \in Nat /\ t \in Nat /\ ~(u < t)
  BY <1>2, <1>3
<1> QED BY <1>4

(* What is kept of the first entries, one entry after the other.           *)
Grown(s, S, rows, i) == IF s[i] \in S THEN Append(rows, s[i]) ELSE rows
IsGrowth(E, s, S, g, n) ==
  g \in [0..n -> Seq(E)] /\ g[0] = <<>> /\ \A i \in 1..n : g[i] = Grown(s, S, g[i - 1], i)

LEMMA GrowthExists ==
  ASSUME NEW E, NEW s \in Seq(E), NEW S
  PROVE  \E g : IsGrowth(E, s, S, g, Len(s))
<1> DEFINE T == {n \in 0..Len(s) : ~ \E g : IsGrowth(E, s, S, g, n)}
<1> SUFFICES ASSUME T # {}
             PROVE  FALSE
  <2>1. Len(s) \in 0..Len(s)
    OBVIOUS
  <2> QED BY <2>1
<1>0. T \subseteq Nat
  OBVIOUS
<1>1. PICK t \in T : \A u \in T : t <= u
  <2> HIDE DEF T
  <2> QED BY <1>0, LeastNumber
<1>2. t \in 0..Len(s) /\ ~ \E g : IsGrowth(E, s, S, g, t)
  OBVIOUS
<1>3. t # 0
  <2>1. IsGrowth(E, s, S, [i \in 0..0 |-> <<>>], 0)
    BY DEF IsGrowth
  <2> QED BY <1>2, <2>1
<1>4. t - 1 \in 0..Len(s) /\ t \in 1..Len(s) /\ t - 1 \notin T
  BY <1>1, <1>2, <1>3
<1>5. PICK g : IsGrowth(E, s, S, g, t - 1)
  BY <1>4
<1> HIDE DEF T
<1> DEFINE h == [i \in 0..t |-> IF i = t THEN Grown(s, S, g[t - 1], t) ELSE g[i]]
<1>6. t \in Nat /\ t - 1 \in 0..(t - 1) /\ t \in 0..t /\ \A i \in 0..t : i # t => i \in 0..(t - 1)
  BY <1>4
<1>7. g[t - 1] \in Seq(E) /\ s[t] \in E /\ Grown(s, S, g[t - 1], t) \in Seq(E)
  <2>1. g[t - 1] \in Seq(E) /\ s[t] \in E
    BY <1>4, <1>5, <1>6 DEF IsGrowth
  <2>2. \A rows \in Seq(E) : Append(rows, s[t]) \in Seq(E)
    BY <2>1
  <2> HIDE DEF h
  <2> QED BY <2>1, <2>2 DEF Grown
<1>8. \A i \in 0..(t - 1) : g[i] \in Seq(E) /\ i \in 0..t /\ h[i] = g[i]
  BY <1>4, <1>5, <1>6 DEF IsGrowth
<1>9. h[t] = Grown(s, S, g[t - 1], t)
  BY <1>6
<1>10. h \in [0..t -> Seq(E)]
  <2>1. \A i \in 0..t : (IF i = t THEN Grown(s, S, g[t - 1], t) ELSE g[i]) \in Seq(E)
    BY <1>6, <1>7, <1>8
  <2> QED BY <2>1
<1>11. h[0] = <<>>
  BY <1>4, <1>5, <1>8 DEF IsGrowth
<1> HIDE DEF h
<1>12. ASSUME NEW i \in 1..t
      PROVE  h[i] = Grown(s, S, h[i - 1], i)
  <2>1. i - 1 \in 0..(t - 1) /\ h[i - 1] = g[i - 1]
    BY <1>6, <1>8
  <2>2. CASE i = t
    BY <1>9, <2>1, <2>2
  <2>3. CASE i # t
    <3>1. i \in 0..(t - 1) /\ i \in 1..(t - 1)
      BY <1>6, <2>3
    <3> QED BY <1>5, <1>8, <2>1, <3>1 DEF IsGrowth
  <2> QED BY <2>2, <2>3
<1>13. IsGrowth(E, s, S, h, t)
  BY <1>10, <1>11, <1>12 DEF IsGrowth
<1> QED BY <1>2, <1>13

Distinct(s) == \A i, j \in 1..Len(s) : s[i] = s[j] => i = j

(* What is kept is a list of entries of s that are in S, distinct if those *)
(* of s are, and all of s if all of it is in S.                            *)
LEMMA KeptIsList ==
  ASSUME NEW E, NEW s \in Seq(E), NEW S
  PROVE  /\ Kept(s, S) \in Seq(E)
         /\ \A k \in 1..Len(Kept(s, S)) : Kept(s, S)[k] \in S /\ \E j \in 1..Len(s) : Kept(s, S)[k] = s[j]
         /\ Distinct(s) => Distinct(Kept(s, S))
         /\ (\A j \in 1..Len(s) : s[j] \in S) => Kept(s, S) = s
<1> DEFINE Body(f) == [i \in 0..Len(s) |-> IF i = 0 THEN <<>>
                         ELSE IF s[i] \in S THEN Append(f[i - 1], s[i]) ELSE f[i - 1]]
           kept == CHOOSE f : f = Body(f)
<1>1. Kept(s, S) = kept[Len(s)]
  BY DEF Kept
<1>2. kept = Body(kept)
  <2>1. PICK g : IsGrowth(E, s, S, g, Len(s))
    BY GrowthExists
  <2>2. \A i \in 0..Len(s) : g[i] = Body(g)[i]
    <3> SUFFICES ASSUME NEW i \in 0..Len(s)
                 PROVE  g[i] = Body(g)[i]
      OBVIOUS
    <3>1. CASE i = 0
      BY <2>1, <3>1 DEF IsGrowth
    <3>2. CASE i # 0
      <4>1. i \in 1..Len(s)
        BY <3>2
      <4> QED BY <2>1, <3>2, <4>1 DEF IsGrowth, Grown
    <3> QED BY <3>1, <3>2
  <2>3. g = [i \in 0..Len(s) |-> g[i]]
    BY <2>1 DEF IsGrowth
  <2>4. Body(g) = [i \in 0..Len(s) |-> Body(g)[i]]
    OBVIOUS
  <2> HIDE DEF Body
  <2>5. g = Body(g)
    BY <2>2, <2>3, <2>4
  <2> QED BY <2>5
<1>3. kept[0] = <<>> /\ \A i \in 1..Len(s) : kept[i] = Grown(s, S, kept[i - 1], i)
  <2>1. \A f : Body(f)[0] = <<>> /\ \A i \in 1..Len(s) : Body(f)[i] = Grown(s, S, f[i - 1], i)
    BY DEF Grown
  <2> HIDE DEF kept, Body
  <2> QED BY <1>2, <2>1
<1> HIDE DEF kept
<1> DEFINE Fine(i, rows) ==
             /\ rows \in Seq(E)
             /\ \A k \in 1..Len(rows) : rows[k] \in S /\ \E j \in 1..i : rows[k] = s[j]
             /\ Distinct(s) => Distinct(rows)
             /\ (\A j \in 1..Len(s) : s[j] \in S) => Len(rows) = i /\ \A k \in 1..i : rows[k] = s[k]
           T == {i \in 0..Len(s) : ~Fine(i, kept[i])}
<1>4. Fine(0, <<>>)
  BY DEF Distinct
<1>5. ASSUME NEW i \in 1..Len(s), NEW rows, Fine(i - 1, rows)
      PROVE  Fine(i, Grown(s, S, rows, i))
  <2>1. rows \in Seq(E) /\ s[i] \in E /\ i - 1 \in Nat
    BY <1>5
  <2>2. CASE s[i] \notin S
    <3>1. Grown(s, S, rows, i) = rows
      BY <2>2 DEF Grown
    <3>2. \A j \in 1..(i - 1) : j \in 1..i
      OBVIOUS
    <3> QED BY <1>5, <2>2, <3>1, <3>2
  <2>3. CASE s[i] \in S
    <3> DEFINE new == Append(rows, s[i])
    <3>1. Grown(s, S, rows, i) = new
      BY <2>3 DEF Grown
    <3>2. /\ new \in Seq(E) /\ Len(new) = Len(rows) + 1 /\ Len(rows) \in Nat
          /\ new[Len(rows) + 1] = s[i] /\ \A k \in 1..Len(rows) : new[k] = rows[k]
      BY <2>1
    <3> HIDE DEF new
    <3>3. \A k \in 1..Len(new) : k \in 1..Len(rows) \/ k = Len(rows) + 1
      BY <3>2
    <3>4. ASSUME NEW k \in 1..Len(new)
          PROVE  new[k] \in S /\ \E j \in 1..i : new[k] = s[j]
      <4>1. CASE k = Len(rows) + 1
        BY <2>3, <3>2, <4>1
      <4>2. CASE k \in 1..Len(rows)
        <5>1. rows[k] \in S /\ \E j \in 1..(i - 1) : rows[k] = s[j]
          BY <1>5, <4>2
        <5>2. \A j \in 1..(i - 1) : j \in 1..i
          OBVIOUS
        <5> QED BY <3>2, <4>2, <5>1, <5>2
      <4> QED BY <3>3, <4>1, <4>2
    <3>5. ASSUME Distinct(s), NEW k \in 1..Len(new), NEW l \in 1..Len(new), new[k] = new[l]
          PROVE  k = l
      <4>1. Distinct(rows) /\ \A m \in 1..Len(rows) : \E j \in 1..(i - 1) : rows[m] = s[j]
        BY <1>5, <3>5
      <4>2. \A m \in 1..Len(rows) : rows[m] # s[i]
        <5> SUFFICES ASSUME NEW m \in 1..Len(rows), rows[m] = s[i]
                     PROVE  FALSE
          OBVIOUS
        <5>1. PICK j \in 1..(i - 1) : rows[m] = s[j]
          BY <4>1
        <5>2. j \in 1..Len(s) /\ j # i
          OBVIOUS
        <5> QED BY <3>5, <5>1, <5>2 DEF Distinct
      <4>3. CASE k \in 1..Len(rows) /\ l \in 1..Len(rows)
        BY <3>2, <3>5, <4>1, <4>3 DEF Distinct
      <4> QED BY <3>2, <3>3, <3>5, <4>2, <4>3
    <3>6. ASSUME \A j \in 1..Len(s) : s[j] \in S
          PROVE  Len(new) = i /\ \A k \in 1..i : new[k] = s[k]
      <4>1. Len(rows) = i - 1 /\ \A k \in 1..(i - 1) : rows[k] = s[k]
        BY <1>5, <3>6
      <4>2. \A k \in 1..i : k \in 1..(i - 1) \/ k = i
        OBVIOUS
      <4> QED BY <3>2, <4>1, <4>2
    <3> QED BY <3>1, <3>2, <3>4, <3>5, <3>6 DEF Distinct
  <2> QED BY <2>2, <2>3
<1> HIDE DEF Fine
<1>6. T = {}
  <2> SUFFICES ASSUME T # {}
               PROVE  FALSE
    OBVIOUS
  <2>0. T \subseteq Nat
    OBVIOUS
  <2>1. PICK t \in T : \A u \in T : t <= u
    <3> HIDE DEF T
    <3> QED BY <2>0, LeastNumber
  <2>2. t # 0
    BY <1>3, <1>4
  <2>3. t - 1 \in 0..Len(s) /\ t \in 1..Len(s) /\ t - 1 \notin T
    BY <2>1, <2>2
  <2>4. Fine(t - 1, kept[t - 1])
    BY <2>3
  <2> QED BY <1>3, <1>5, <2>3, <2>4
<1>7. Fine(Len(s), kept[Len(s)])
  BY <1>6
<1> DEFINE rows == Kept(s, S)
<1>8. Fine(Len(s), rows)
  BY <1>1, <1>7
<1> HIDE DEF rows
<1>9. ASSUME \A j \in 1..Len(s) : s[j] \in S
      PROVE  rows = s
  <2>1. rows \in Seq(E) /\ Len(rows) = Len(s) /\ \A k \in 1..Len(s) : rows[k] = s[k]
    BY <1>8, <1>9 DEF Fine
  <2> QED BY <2>1
<1> QED BY <1>8, <1>9 DEF Fine, rows
-----------------------------------------------------------------------------
(* Snapshots as the Hub keeps them: lists without repetition, and one list *)
(* for one id.                                                             *)
Live == ToSet(snapshots)
IsSnapshot(s) == s.token \in Tokens /\ s.ids \in Seq(Events) /\ Distinct(s.ids)

TimelineInv ==
  /\ DOMAIN condition = Events
  /\ recency \in Seq(Events) /\ Distinct(recency)
  /\ \A i \in 1..Len(recency) : condition[recency[i]] # "absent"
  /\ snapshots \in Seq(Live)
  /\ \A s \in Live : IsSnapshot(s)
  /\ \A s, t \in Live : s.token = t.token => s.ids = t.ids

(* Rows that are a beginning of what the Hub froze under an id.            *)
Begins(rows, all) ==
  rows \in Seq(Events) /\ Len(rows) <= Len(all) /\ \A i \in 1..Len(rows) : rows[i] = all[i]

Place(live, rows, answer) ==
  /\ answer.token \in Tokens \cup {NoToken} /\ answer.all \in Seq(Events) /\ Distinct(answer.all)
  /\ Begins(rows, answer.all)
  /\ answer.more \in BOOLEAN /\ (answer.more <=> Len(rows) < Len(answer.all))
  /\ \A s \in live : s.token = answer.token => s.ids = answer.all

NextPage(live, rows, answer) ==
  /\ answer.token \in Tokens /\ answer.ids \in Seq(Events)
  /\ Place(live, rows \o answer.ids, answer)

(* What a later page asks for: the place behind the rows collected.        *)
Asks(live, query, rows) ==
  /\ query.token \in Tokens /\ rows # <<>> /\ query.after = Last(rows)
  /\ \A s \in live : s.token = query.token => Begins(rows, s.ids)

AnswerFields == {"status", "token", "ids", "all", "more"}

(* Every call that fetches pages has collected a beginning of one list.    *)
FetchOK(live, row) ==
  row.kind \in {"refresh", "select", "load"} =>
    /\ row.got \in Seq(Events) /\ row.target \in Nat /\ row.query.limit \in Nat \ {0}
    /\ row.answer.status = "none" =>
         \/ row.query.token = NoToken /\ row.query.after = NoEvent /\ row.got = <<>>
         \/ Asks(live, row.query, row.got)
    /\ row.answer.status = "ok" =>
         NextPage(live, row.got, row.answer) /\ (row.answer.more => row.answer.ids # <<>>)
    /\ row.answer.status = "complete" =>
         Place(live, row.got, row.answer) /\ (Len(row.got) >= row.target \/ ~row.answer.more)

(* The owner of the list finds it as it was when the call began: "load     *)
(* more" continues it, and a reload asks for as many rows.                 *)
MoreOK(live, page, row) ==
  row.kind = "more" /\ row.owner =>
    /\ row.query.limit \in Nat /\ row.query.token = page.token
    /\ page.token \in Tokens /\ page.rows # <<>> /\ row.query.after = Last(page.rows)
    /\ row.answer.status = "ok" => row.answer.token = page.token /\ NextPage(live, page.rows, row.answer)

ReloadOK(page, row) ==
  row.kind \in {"refresh", "load"} /\ row.owner =>
    (page.loaded /\ page.filter = row.query.filter => row.target >= Len(page.rows))

CallOK(live, page, row) ==
  DOMAIN row.answer = AnswerFields /\ FetchOK(live, row) /\ MoreOK(live, page, row) /\ ReloadOK(page, row)

Owns(row) == row.kind \in {"refresh", "select", "load", "more"} /\ row.owner

PlacesInv ==
  /\ TimelineInv
  /\ Place(Live, list.rows, list)
  /\ \A c \in Slots : calls[c].kind \in CallKinds => CallOK(Live, list, calls[c])
  /\ \A c, d \in Slots : Owns(calls[c]) /\ Owns(calls[d]) => c = d
-----------------------------------------------------------------------------
(* An entry of two lists joined is one of the first or of the second.      *)
LEMMA JoinedEntries ==
  ASSUME NEW E, NEW a \in Seq(E), NEW b \in Seq(E), NEW i \in 1..Len(a \o b)
  PROVE  \/ i \in 1..Len(a) /\ (a \o b)[i] = a[i]
         \/ i - Len(a) \in 1..Len(b) /\ (a \o b)[i] = b[i - Len(a)]
<1> DEFINE s == a \o b
           m == Len(a)
           n == Len(b)
<1>1. Len(s) = m + n /\ \A k \in 1..(m + n) : s[k] = IF k <= m THEN a[k] ELSE b[k - m]
  BY ConcatProperties
<1>2. m \in Nat /\ n \in Nat
  BY LenProperties
<1>3. i \in 1..Len(s)
  OBVIOUS
<1> HIDE DEF s, m, n
<1>4. CASE i <= m
  BY <1>1, <1>2, <1>3, <1>4 DEF s, m
<1>5. CASE ~(i <= m)
  <2>1. i \in 1..(m + n) /\ i - m \in 1..n
    BY <1>1, <1>2, <1>3, <1>5
  <2>2. s[i] = b[i - m]
    BY <1>1, <1>5, <2>1
  <2> QED BY <2>1, <2>2 DEF s, m, n
<1> QED BY <1>4, <1>5

(* Two lists without repetition that share nothing.                        *)
LEMMA JoinedDistinct ==
  ASSUME NEW a \in Seq(Events), NEW b \in Seq(Events), Distinct(a), Distinct(b),
         \A i \in 1..Len(a), j \in 1..Len(b) : a[i] # b[j]
  PROVE  a \o b \in Seq(Events) /\ Distinct(a \o b)
<1>1. /\ a \o b \in Seq(Events) /\ Len(a \o b) = Len(a) + Len(b) /\ Len(a) \in Nat /\ Len(b) \in Nat
      /\ \A i \in 1..(Len(a) + Len(b)) : (a \o b)[i] = IF i <= Len(a) THEN a[i] ELSE b[i - Len(a)]
  OBVIOUS
<1> DEFINE s == a \o b
<1> HIDE DEF s
<1>2. ASSUME NEW i \in 1..Len(s), NEW j \in 1..Len(s), s[i] = s[j]
      PROVE  i = j
  <2>1. \A k \in 1..Len(s) : \/ k \in 1..Len(a) /\ s[k] = a[k]
                             \/ k - Len(a) \in 1..Len(b) /\ s[k] = b[k - Len(a)]
    BY JoinedEntries DEF s
  <2>2. CASE i \in 1..Len(a) /\ s[i] = a[i] /\ j \in 1..Len(a) /\ s[j] = a[j]
    BY <1>2, <2>2 DEF Distinct
  <2>3. CASE /\ i - Len(a) \in 1..Len(b) /\ s[i] = b[i - Len(a)]
             /\ j - Len(a) \in 1..Len(b) /\ s[j] = b[j - Len(a)]
    <3>1. i - Len(a) = j - Len(a)
      BY <1>2, <2>3 DEF Distinct
    <3> QED BY <3>1, <1>1
  <2> QED BY <1>2, <2>1, <2>2, <2>3
<1> QED BY <1>1, <1>2 DEF Distinct, s

(* The order of the timeline lists no event twice.                         *)
LEMMA OrderDistinct ==
  ASSUME TimelineInv, NEW filter
  PROVE  EventIDs(filter) \in Seq(Events) /\ Distinct(EventIDs(filter))
<1> DEFINE Those(state) == {e \in Events : condition[e] = state /\ Matches(e, filter)}
           Block(state) == Kept(recency, Those(state))
<1>1. ASSUME NEW state
      PROVE  /\ Block(state) \in Seq(Events) /\ Distinct(Block(state))
             /\ \A i \in 1..Len(Block(state)) : condition[Block(state)[i]] = state
  <2>1. /\ Block(state) \in Seq(Events) /\ Distinct(Block(state))
        /\ \A i \in 1..Len(Block(state)) : Block(state)[i] \in Those(state)
    <3> HIDE DEF Those
    <3> QED BY KeptIsList DEF TimelineInv
  <2> HIDE DEF Block
  <2> QED BY <2>1
<1>2. EventIDs(filter) = Block("active") \o Block("acknowledged") \o Block("resolved")
  BY DEF EventIDs
<1> DEFINE a == Block("active")
           b == Block("acknowledged")
           r == Block("resolved")
<1>3. /\ a \in Seq(Events) /\ Distinct(a) /\ \A i \in 1..Len(a) : condition[a[i]] = "active"
      /\ b \in Seq(Events) /\ Distinct(b) /\ \A i \in 1..Len(b) : condition[b[i]] = "acknowledged"
      /\ r \in Seq(Events) /\ Distinct(r) /\ \A i \in 1..Len(r) : condition[r[i]] = "resolved"
  BY <1>1
<1>4. EventIDs(filter) = a \o b \o r
  BY <1>2
<1> HIDE DEF a, b, r
<1>5. a \o b \in Seq(Events) /\ Distinct(a \o b)
  BY <1>3, JoinedDistinct
<1>6. ASSUME NEW i \in 1..Len(a \o b)
      PROVE  condition[(a \o b)[i]] # "resolved"
  <2>1. \/ i \in 1..Len(a) /\ (a \o b)[i] = a[i]
        \/ i - Len(a) \in 1..Len(b) /\ (a \o b)[i] = b[i - Len(a)]
    BY <1>3, JoinedEntries
  <2> QED BY <1>3, <2>1
<1>7. \A i \in 1..Len(a \o b), j \in 1..Len(r) : (a \o b)[i] # r[j]
  <2>1. \A j \in 1..Len(r) : condition[r[j]] = "resolved"
    BY <1>3
  <2> QED BY <1>6, <2>1
<1> QED BY <1>3, <1>4, <1>5, <1>7, JoinedDistinct

(* A page continues the rows behind whose last one it starts.              *)
LEMMA PageContinues ==
  ASSUME NEW s, s.ids \in Seq(Events), Distinct(s.ids), NEW rows, Begins(rows, s.ids),
         NEW query, query.limit \in Nat,
         \/ rows = <<>> /\ query.after = NoEvent
         \/ rows # <<>> /\ query.after = Last(rows)
  PROVE  LET page == Page(query, s)
         IN /\ DOMAIN page = AnswerFields /\ page.status = "ok" /\ page.token = s.token /\ page.all = s.ids
            /\ page.ids \in Seq(Events) /\ Begins(rows \o page.ids, s.ids)
            /\ page.more \in BOOLEAN /\ (page.more <=> Len(rows \o page.ids) < Len(s.ids))
            /\ query.limit # 0 /\ page.more => page.ids # <<>>
<1> DEFINE start == IF query.after = NoEvent THEN 0
                    ELSE CHOOSE i \in 1..Len(s.ids) : s.ids[i] = query.after
           end == IF start + query.limit > Len(s.ids) THEN Len(s.ids) ELSE start + query.limit
           ids == SubSeq(s.ids, start + 1, end)
           more == end < Len(s.ids)
           page == Page(query, s)
<1>1. page = [status |-> "ok", token |-> s.token, ids |-> ids, all |-> s.ids, more |-> more]
  BY DEF Page
<1>2. /\ rows \in Seq(Events) /\ Len(rows) \in Nat /\ Len(s.ids) \in Nat /\ Len(rows) <= Len(s.ids)
      /\ \A i \in 1..Len(rows) : rows[i] = s.ids[i]
  BY DEF Begins
<1>3. start = Len(rows)
  <2>1. CASE rows = <<>> /\ query.after = NoEvent
    BY <2>1
  <2>2. CASE rows # <<>> /\ query.after = Last(rows)
    <3>1. Len(rows) \in 1..Len(s.ids) /\ Last(rows) = rows[Len(rows)]
      BY <1>2, <2>2 DEF Last
    <3>2. s.ids[Len(rows)] = query.after /\ query.after \in Events
      BY <1>2, <2>2, <3>1
    <3>3. query.after # NoEvent
      BY <3>2, PagesAssumption
    <3>4. \A i \in 1..Len(s.ids) : s.ids[i] = query.after => i = Len(rows)
      BY <3>1, <3>2 DEF Distinct
    <3> QED BY <3>1, <3>2, <3>3, <3>4
  <2> QED BY <2>1, <2>2
<1>4. end \in start..Len(s.ids) /\ (end < Len(s.ids) => end = start + query.limit)
  <2> HIDE DEF start
  <2> QED BY <1>2, <1>3
<1> HIDE DEF start, end
<1>5. /\ ids \in Seq(Events) /\ Len(ids) = end - Len(rows)
      /\ \A i \in 1..Len(ids) : ids[i] = s.ids[Len(rows) + i]
  BY <1>2, <1>3, <1>4
<1> DEFINE joined == rows \o ids
<1>6. /\ joined \in Seq(Events) /\ Len(joined) = end
      /\ \A i \in 1..Len(joined) : joined[i] = IF i <= Len(rows) THEN rows[i] ELSE ids[i - Len(rows)]
  <2> HIDE DEF ids
  <2> QED BY <1>2, <1>3, <1>4, <1>5
<1> HIDE DEF joined, ids
<1>7. \A i \in 1..Len(joined) : joined[i] = s.ids[i]
  <2> SUFFICES ASSUME NEW i \in 1..Len(joined)
               PROVE  joined[i] = s.ids[i]
    OBVIOUS
  <2>1. CASE i <= Len(rows)
    BY <1>2, <1>6, <2>1
  <2>2. CASE ~(i <= Len(rows))
    <3>1. i - Len(rows) \in 1..Len(ids) /\ Len(rows) + (i - Len(rows)) = i
      BY <1>2, <1>3, <1>4, <1>5, <1>6, <2>2
    <3> QED BY <1>5, <1>6, <2>2, <3>1
  <2> QED BY <2>1, <2>2
<1>8. Begins(joined, s.ids)
  BY <1>3, <1>4, <1>6, <1>7 DEF Begins
<1>9. query.limit # 0 /\ more => ids # <<>>
  <2> SUFFICES ASSUME query.limit # 0, more
               PROVE  ids # <<>>
    OBVIOUS
  <2>1. Len(ids) = query.limit
    BY <1>2, <1>3, <1>4, <1>5
  <2> QED BY <2>1
<1>10. /\ DOMAIN page = AnswerFields /\ page.status = "ok" /\ page.token = s.token /\ page.all = s.ids
       /\ page.ids = ids /\ page.more = more /\ more \in BOOLEAN
  <2> HIDE DEF page
  <2> QED BY <1>1 DEF AnswerFields
<1>11. more <=> Len(joined) < Len(s.ids)
  BY <1>6
<1> HIDE DEF more, page
<1> QED BY <1>5, <1>8, <1>9, <1>10, <1>11 DEF joined, page

(* A page of a list whose beginning is there brings nothing twice.         *)
LEMMA NothingTwice ==
  ASSUME NEW all \in Seq(Events), Distinct(all), NEW rows \in Seq(Events), NEW ids \in Seq(Events),
         Begins(rows \o ids, all)
  PROVE  New(rows, ids) = ids
<1>1. /\ Len(rows \o ids) = Len(rows) + Len(ids) /\ Len(rows) \in Nat /\ Len(ids) \in Nat
      /\ \A i \in 1..Len(rows) : (rows \o ids)[i] = rows[i]
      /\ \A i \in 1..Len(ids) : (rows \o ids)[Len(rows) + i] = ids[i]
  OBVIOUS
<1>2. ASSUME NEW i \in 1..Len(rows), NEW j \in 1..Len(ids)
      PROVE  ids[j] # rows[i]
  <2>1. /\ i \in 1..Len(rows \o ids) /\ Len(rows) + j \in 1..Len(rows \o ids) /\ i # Len(rows) + j
        /\ Len(rows \o ids) <= Len(all)
    BY <1>1 DEF Begins
  <2>2. all[i] = rows[i] /\ all[Len(rows) + j] = ids[j]
    BY <1>1, <2>1 DEF Begins
  <2>3. i \in 1..Len(all) /\ Len(rows) + j \in 1..Len(all)
    BY <1>1, <2>1
  <2> QED BY <2>1, <2>2, <2>3 DEF Distinct
<1>3. \A j \in 1..Len(ids) : ids[j] \in Events \ ToSet(rows)
  <2>1. ToSet(rows) = {rows[i] : i \in 1..Len(rows)}
    BY DEF ToSet
  <2>2. \A j \in 1..Len(ids) : ids[j] \in Events
    OBVIOUS
  <2> QED BY <1>2, <2>1, <2>2
<1> QED BY <1>3, KeptIsList DEF New
-----------------------------------------------------------------------------
(* The Hub's table and snapshots, which no step of the page touches.       *)
LEMMA HubRests ==
  ASSUME TimelineInv, UNCHANGED pageVars
  PROVE  TimelineInv' /\ Live' = Live
<1>1. condition' = condition /\ recency' = recency /\ snapshots' = snapshots
  BY DEF pageVars
<1>2. Live' = Live
  BY <1>1 DEF Live
<1> QED BY <1>1, <1>2 DEF TimelineInv

(* An event moves to the front of the order, or into it.                   *)
LEMMA FrontDistinct ==
  ASSUME NEW e \in Events, NEW rest \in Seq(Events), Distinct(rest), \A i \in 1..Len(rest) : rest[i] # e
  PROVE  /\ <<e>> \o rest \in Seq(Events) /\ Distinct(<<e>> \o rest)
         /\ \A i \in 1..Len(<<e>> \o rest) :
              (<<e>> \o rest)[i] = e \/ \E j \in 1..Len(rest) : (<<e>> \o rest)[i] = rest[j]
<1> DEFINE front == <<e>>
<1>1. front \in Seq(Events) /\ Len(front) = 1 /\ front[1] = e
  OBVIOUS
<1>2. Distinct(front) /\ \A i \in 1..Len(front), j \in 1..Len(rest) : front[i] # rest[j]
  <2> HIDE DEF front
  <2> QED BY <1>1 DEF Distinct
<1> HIDE DEF front
<1>3. front \o rest \in Seq(Events) /\ Distinct(front \o rest)
  BY <1>1, <1>2, JoinedDistinct
<1>4. ASSUME NEW i \in 1..Len(front \o rest)
      PROVE  (front \o rest)[i] = e \/ \E j \in 1..Len(rest) : (front \o rest)[i] = rest[j]
  <2>1. \/ i \in 1..Len(front) /\ (front \o rest)[i] = front[i]
        \/ i - Len(front) \in 1..Len(rest) /\ (front \o rest)[i] = rest[i - Len(front)]
    BY <1>1, JoinedEntries
  <2>2. CASE i \in 1..Len(front) /\ (front \o rest)[i] = front[i]
    BY <1>1, <2>2
  <2>3. CASE i - Len(front) \in 1..Len(rest) /\ (front \o rest)[i] = rest[i - Len(front)]
    BY <2>3
  <2> QED BY <2>1, <2>2, <2>3
<1> QED BY <1>3, <1>4 DEF front

(* The event table changes, and no snapshot with it.                       *)
LEMMA EventTableKeeps ==
  ASSUME TimelineInv, NEW e \in Events, OpenEvent(e) \/ Observe(e) \/ Recover(e)
  PROVE  TimelineInv' /\ Live' = Live
<1>1. snapshots' = snapshots
  BY DEF OpenEvent, Observe, Recover, Change
<1>2. Live' = Live
  BY <1>1 DEF Live
<1> DEFINE Order == /\ DOMAIN condition = Events
                    /\ recency \in Seq(Events) /\ Distinct(recency)
                    /\ \A i \in 1..Len(recency) : condition[recency[i]] # "absent"
<1>3. Order
  BY DEF TimelineInv
<1>4. CASE OpenEvent(e)
  <2>1. condition[e] = "absent" /\ condition' = [condition EXCEPT ![e] = "active"] /\ recency' = <<e>> \o recency
    BY <1>4 DEF OpenEvent
  <2>2. \A i \in 1..Len(recency) : recency[i] # e
    BY <1>3, <2>1
  <2>3. /\ recency' \in Seq(Events) /\ Distinct(recency')
        /\ \A i \in 1..Len(recency') : recency'[i] = e \/ \E j \in 1..Len(recency) : recency'[i] = recency[j]
    BY <1>3, <2>1, <2>2, FrontDistinct
  <2>4. DOMAIN condition' = Events /\ condition'[e] = "active" /\ \A f \in Events \ {e} : condition'[f] = condition[f]
    BY <1>3, <2>1
  <2>5. \A j \in 1..Len(recency) : condition'[recency[j]] # "absent"
    BY <1>3, <2>2, <2>4
  <2>6. \A i \in 1..Len(recency') : condition'[recency'[i]] # "absent"
    BY <2>3, <2>4, <2>5
  <2> QED BY <1>1, <1>2, <2>3, <2>4, <2>6 DEF TimelineInv
<1>5. CASE Observe(e)
  <2> DEFINE rest == Kept(recency, Events \ {e})
  <2>1. condition[e] # "absent" /\ condition' = condition /\ recency' = <<e>> \o rest
    BY <1>5 DEF Observe
  <2>2. /\ rest \in Seq(Events) /\ Distinct(rest)
        /\ \A k \in 1..Len(rest) : rest[k] \in Events \ {e} /\ \E j \in 1..Len(recency) : rest[k] = recency[j]
    <3>1. \A S : /\ Kept(recency, S) \in Seq(Events) /\ Distinct(Kept(recency, S))
                 /\ \A k \in 1..Len(Kept(recency, S)) :
                      Kept(recency, S)[k] \in S /\ \E j \in 1..Len(recency) : Kept(recency, S)[k] = recency[j]
      BY <1>3, KeptIsList
    <3> QED BY <3>1
  <2> HIDE DEF rest
  <2>3. /\ recency' \in Seq(Events) /\ Distinct(recency')
        /\ \A i \in 1..Len(recency') : recency'[i] = e \/ \E j \in 1..Len(rest) : recency'[i] = rest[j]
    BY <2>1, <2>2, FrontDistinct
  <2>4. \A k \in 1..Len(rest) : condition[rest[k]] # "absent"
    BY <1>3, <2>2
  <2>5. \A i \in 1..Len(recency') : condition[recency'[i]] # "absent"
    BY <2>1, <2>3, <2>4
  <2> QED BY <1>1, <1>2, <1>3, <2>1, <2>3, <2>5 DEF TimelineInv
<1>6. CASE Recover(e)
  <2>1. condition' = [condition EXCEPT ![e] = "resolved"] /\ recency' = recency
    BY <1>6 DEF Recover
  <2>2. DOMAIN condition' = Events /\ \A f \in Events : condition[f] # "absent" => condition'[f] # "absent"
    BY <1>3, <2>1
  <2>3. \A i \in 1..Len(recency) : recency[i] \in Events /\ condition'[recency[i]] # "absent"
    BY <1>3, <2>2
  <2> QED BY <1>1, <1>2, <1>3, <2>1, <2>2, <2>3 DEF TimelineInv
<1> QED BY <1>4, <1>5, <1>6

LEMMA AcknowledgeKeeps ==
  ASSUME TimelineInv, NEW e, NEW answer, Acknowledge(e, answer)
  PROVE  TimelineInv' /\ Live' = Live
<1>1. /\ condition' = [condition EXCEPT ![e] = IF @ = "active" THEN "acknowledged" ELSE @]
      /\ recency' = recency /\ snapshots' = snapshots
  BY DEF Acknowledge
<1>2. Live' = Live
  BY <1>1 DEF Live
<1>3. DOMAIN condition' = Events /\ \A f \in Events : condition[f] # "absent" => condition'[f] # "absent"
  BY <1>1 DEF TimelineInv
<1>4. \A i \in 1..Len(recency) : recency[i] \in Events /\ condition'[recency[i]] # "absent"
  BY <1>3 DEF TimelineInv
<1> QED BY <1>1, <1>2, <1>3, <1>4 DEF TimelineInv

(* The snapshots stay a queue of snapshots when one joins or leaves it.    *)
LEMMA QueueMembers ==
  ASSUME NEW T, NEW s \in Seq(T)
  PROVE  s \in Seq(ToSet(s)) /\ ToSet(s) = {s[i] : i \in 1..Len(s)}
<1>1. ToSet(s) = {s[i] : i \in 1..Len(s)}
  BY LenProperties DEF ToSet
<1>2. Len(s) \in Nat /\ s \in [1..Len(s) -> T]
  BY LenProperties
<1>3. s \in [1..Len(s) -> ToSet(s)]
  BY <1>1, <1>2
<1> QED BY <1>1, <1>2, <1>3, SeqDef

LEMMA QueueGrows ==
  ASSUME NEW T, NEW s \in Seq(T), NEW x
  PROVE  /\ Append(s, x) \in Seq(ToSet(Append(s, x)))
         /\ \A y \in ToSet(Append(s, x)) : y \in ToSet(s) \/ y = x
         /\ Last(Append(s, x)) = x /\ x \in ToSet(Append(s, x))
<1> DEFINE U == T \cup {x}
<1>1. s \in Seq(U)
  BY SeqMonotonic
<1>2. /\ Append(s, x) \in Seq(U) /\ Len(Append(s, x)) = Len(s) + 1 /\ Len(s) \in Nat
      /\ \A i \in 1..Len(s) : Append(s, x)[i] = s[i]
      /\ Append(s, x)[Len(s) + 1] = x
  BY <1>1
<1> HIDE DEF U
<1> DEFINE t == Append(s, x)
<1>3. t \in Seq(ToSet(t)) /\ ToSet(t) = {t[i] : i \in 1..Len(t)}
  BY <1>2, QueueMembers
<1>4. ToSet(s) = {s[i] : i \in 1..Len(s)}
  BY QueueMembers
<1>5. t \in Seq(U) /\ Len(t) = Len(s) + 1 /\ (\A i \in 1..Len(s) : t[i] = s[i]) /\ t[Len(s) + 1] = x
  BY <1>2
<1> HIDE DEF t
<1>6. \A i \in 1..Len(t) : i \in 1..Len(s) \/ i = Len(s) + 1
  BY <1>2, <1>5
<1>7. \A y \in ToSet(t) : y \in ToSet(s) \/ y = x
  BY <1>3, <1>4, <1>5, <1>6
<1>8. Len(t) \in 1..Len(t) /\ Last(t) = x /\ x \in ToSet(t)
  BY <1>2, <1>3, <1>5 DEF Last
<1> QED BY <1>3, <1>7, <1>8 DEF t

LEMMA QueueShrinks ==
  ASSUME NEW T, NEW s \in Seq(T), s # <<>>
  PROVE  Tail(s) \in Seq(ToSet(Tail(s))) /\ ToSet(Tail(s)) \subseteq ToSet(s)
<1>1. Tail(s) \in Seq(T) /\ Len(s) \in Nat /\ Len(Tail(s)) = Len(s) - 1 /\ \A i \in 1..Len(Tail(s)) : Tail(s)[i] = s[i + 1]
  BY HeadTailProperties, LenProperties
<1> DEFINE t == Tail(s)
<1>3. t \in Seq(T) /\ Len(t) = Len(s) - 1 /\ \A i \in 1..Len(t) : t[i] = s[i + 1]
  BY <1>1
<1> HIDE DEF t
<1>2. t \in Seq(ToSet(t)) /\ ToSet(t) = {t[i] : i \in 1..Len(t)} /\ ToSet(s) = {s[i] : i \in 1..Len(s)}
  BY <1>3, QueueMembers
<1>4. \A i \in 1..Len(t) : i + 1 \in 1..Len(s)
  BY <1>1, <1>3
<1> QED BY <1>2, <1>3, <1>4 DEF t

(* The oldest snapshot passes its hour.                                    *)
LEMMA ExpireKeeps ==
  ASSUME TimelineInv, ExpireSnapshot
  PROVE  TimelineInv' /\ Live' \subseteq Live
<1>1. snapshots # <<>> /\ snapshots' = Tail(snapshots) /\ condition' = condition /\ recency' = recency
  BY DEF ExpireSnapshot
<1>2. snapshots' \in Seq(Live') /\ Live' \subseteq Live
  BY <1>1, QueueShrinks DEF Live, TimelineInv
<1> QED BY <1>1, <1>2 DEF TimelineInv

(* A first page freezes a list under an id nobody holds.                   *)
LEMMA FirstPageKeeps ==
  ASSUME TimelineInv, NEW query, NEW token \in Tokens, FirstPage(query, token),
         \A s \in Live : s.token # token
  PROVE  LET new == Last(snapshots')
         IN /\ TimelineInv' /\ IsSnapshot(new) /\ new.token = token
            /\ \A s \in Live' : s \in Live \/ s = new
<1> DEFINE new == [token |-> token, filter |-> query.filter, ids |-> EventIDs(query.filter)]
           kept == IF Len(snapshots) < TokenLimit THEN snapshots ELSE Tail(snapshots)
<1>1. snapshots' = Append(kept, new) /\ condition' = condition /\ recency' = recency
  BY DEF FirstPage, PutSnapshot
<1>2. IsSnapshot(new) /\ new.token = token
  BY OrderDistinct DEF IsSnapshot
<1>3. kept \in Seq(ToSet(kept)) /\ ToSet(kept) \subseteq Live
  <2>1. CASE Len(snapshots) < TokenLimit
    BY <2>1 DEF TimelineInv, Live
  <2>2. CASE ~(Len(snapshots) < TokenLimit)
    <3>1. snapshots # <<>>
      BY <2>2, PagesAssumption
    <3> QED BY <2>2, <3>1, QueueShrinks DEF TimelineInv, Live
  <2> QED BY <2>1, <2>2
<1> HIDE DEF kept, new
<1>4. /\ snapshots' \in Seq(Live') /\ Last(snapshots') = new
      /\ \A s \in Live' : s \in Live \/ s = new
  BY <1>1, <1>3, QueueGrows DEF Live
<1>5. \A s \in Live' : IsSnapshot(s)
  BY <1>2, <1>4 DEF TimelineInv
<1>6. \A s, t \in Live' : s.token = t.token => s.ids = t.ids
  BY <1>2, <1>4 DEF TimelineInv
<1> QED BY <1>1, <1>2, <1>4, <1>5, <1>6 DEF TimelineInv

(* A Hub that starts has no snapshot.                                      *)
LEMMA TimelineStarts == PagesInit => TimelineInv /\ Live = {}
<1> SUFFICES ASSUME PagesInit
             PROVE  TimelineInv /\ Live = {}
  OBVIOUS
<1>1. /\ condition \in [Events -> {"absent", "active"}] /\ snapshots = <<>>
      /\ recency \in SeqOf(Events, Cardinality(Events)) /\ IsInjective(recency)
      /\ ToSet(recency) = {e \in Events : condition[e] # "absent"}
  BY DEF PagesInit
<1>2. recency \in Seq(Events)
  <2>1. PICK n \in 0..Cardinality(Events) : recency \in [1..n -> Events]
    BY <1>1 DEF SeqOf
  <2>2. n \in Nat
    BY FS_CardinalityType, PagesAssumption
  <2> QED BY <2>1, <2>2, SeqDef
<1>3. DOMAIN recency = 1..Len(recency)
  BY <1>2, LenProperties
<1>4. Distinct(recency)
  BY <1>1, <1>3 DEF IsInjective, Distinct
<1>5. \A i \in 1..Len(recency) : condition[recency[i]] # "absent"
  BY <1>1, <1>3 DEF ToSet
<1>6. Live = {} /\ snapshots \in Seq(Live)
  BY <1>1, EmptySeq DEF Live, ToSet
<1> QED BY <1>1, <1>2, <1>4, <1>5, <1>6 DEF TimelineInv
-----------------------------------------------------------------------------
(* What the Hub drops, or freezes under an id the call does not name, does *)
(* not concern a call.                                                     *)
LEMMA HubMoves ==
  ASSUME NEW live, NEW now, NEW page, NEW row, CallOK(live, page, row),
         \A s \in now : s \in live \/ (s.token # row.query.token /\ s.token # row.answer.token)
  PROVE  CallOK(now, page, row)
<1>1. \A rows : Place(live, rows, row.answer) => Place(now, rows, row.answer)
  BY DEF Place
<1>2. \A rows : NextPage(live, rows, row.answer) => NextPage(now, rows, row.answer)
  BY <1>1 DEF NextPage
<1>3. \A rows : Asks(live, row.query, rows) => Asks(now, row.query, rows)
  BY DEF Asks
<1>4. FetchOK(now, row)
  BY <1>1, <1>2, <1>3 DEF CallOK, FetchOK
<1>5. MoreOK(now, page, row)
  BY <1>2 DEF CallOK, MoreOK
<1> QED BY <1>4, <1>5 DEF CallOK

(* A call that does not own the list does not care what the page shows.    *)
LEMMA OthersKeep ==
  ASSUME NEW live, NEW page, NEW later, NEW row, NEW new, CallOK(live, page, row), ~Owns(new),
         new.kind = row.kind, new.query = row.query, new.target = row.target, new.got = row.got,
         new.answer = row.answer
  PROVE  CallOK(live, later, new)
<1>1. FetchOK(live, new)
  BY DEF CallOK, FetchOK
<1>2. MoreOK(live, later, new) /\ ReloadOK(later, new)
  BY DEF MoreOK, ReloadOK, Owns
<1> QED BY <1>1, <1>2 DEF CallOK

(* The calls in flight keep what they ask and hold, and lose the list.     *)
LEMMA MarkedKeep ==
  ASSUME CallsInv, NEW inFlight, inFlight = Bumped \/ inFlight = Left
  PROVE  \A d \in Slots : inFlight[d].kind \in CallKinds =>
           /\ calls[d].kind \in CallKinds /\ ~Owns(inFlight[d])
           /\ inFlight[d].kind = calls[d].kind /\ inFlight[d].query = calls[d].query
           /\ inFlight[d].target = calls[d].target /\ inFlight[d].got = calls[d].got
           /\ inFlight[d].answer = calls[d].answer
<1> SUFFICES ASSUME NEW d \in Slots, inFlight[d].kind \in CallKinds
             PROVE  /\ calls[d].kind \in CallKinds /\ ~Owns(inFlight[d])
                    /\ inFlight[d].kind = calls[d].kind /\ inFlight[d].query = calls[d].query
                    /\ inFlight[d].target = calls[d].target /\ inFlight[d].got = calls[d].got
                    /\ inFlight[d].answer = calls[d].answer
  OBVIOUS
<1> DEFINE row == inFlight[d]
<1>1. calls[d] # Idle
  BY IdleIsNoCall DEF Bumped, Left, Busy, CallKinds
<1>2. row = [calls[d] EXCEPT !.owner = FALSE] \/ row = [calls[d] EXCEPT !.owner = FALSE, !.live = FALSE]
  BY <1>1 DEF Bumped, Left, Busy
<1>3. IsCall(calls[d])
  BY <1>1 DEF CallsInv
<1>4. DOMAIN calls[d] = CallFields /\ calls[d].kind \in CallKinds
  BY <1>3 DEF IsCall
<1> HIDE DEF row
<1>5. /\ row.owner = FALSE /\ row.kind = calls[d].kind /\ row.query = calls[d].query
      /\ row.target = calls[d].target /\ row.got = calls[d].got /\ row.answer = calls[d].answer
  BY <1>2, <1>4 DEF CallFields
<1> QED BY <1>4, <1>5 DEF Owns, row

(* The sequence number advances, and a new call may take the list over.    *)
LEMMA Restart ==
  ASSUME ListInv, PlacesInv, UNCHANGED pageVars,
         NEW inFlight, inFlight = Bumped \/ inFlight = Left,
         NEW c \in Slots, NEW row, CallOK(Live, list', row),
         calls' = inFlight \/ calls' = [inFlight EXCEPT ![c] = row],
         Place(Live, list'.rows, list')
  PROVE  PlacesInv'
<1>1. TimelineInv' /\ Live' = Live
  BY HubRests DEF PlacesInv
<1>2. DOMAIN inFlight = Slots
  BY MarkedCalls DEF ListInv
<1>3. \A d \in Slots : calls'[d] = inFlight[d] \/ (d = c /\ calls'[d] = row)
  BY <1>2
<1>4. \A d \in Slots : inFlight[d].kind \in CallKinds => CallOK(Live, list', inFlight[d]) /\ ~Owns(inFlight[d])
  BY MarkedKeep, OthersKeep DEF ListInv, PlacesInv
<1>5. \A d \in Slots : Owns(inFlight[d]) => inFlight[d].kind \in CallKinds
  BY DEF Owns, CallKinds
<1>6. \A d \in Slots : calls'[d].kind \in CallKinds => CallOK(Live, list', calls'[d])
  BY <1>3, <1>4
<1>7. \A d \in Slots : Owns(calls'[d]) => d = c
  BY <1>3, <1>4, <1>5
<1> QED BY <1>1, <1>6, <1>7 DEF PlacesInv

(* One call goes on, and the page is as it was.                            *)
LEMMA OneGoesOn ==
  ASSUME ListInv, PlacesInv, TimelineInv', Place(Live', list.rows, list), list' = list,
         NEW c \in Slots, NEW row, calls' = [calls EXCEPT ![c] = row],
         row.kind \in CallKinds => CallOK(Live', list, row),
         Owns(row) => Owns(calls[c]),
         \A d \in Slots \ {c} : calls[d].kind \in CallKinds => CallOK(Live', list, calls[d])
  PROVE  PlacesInv'
<1>1. calls'[c] = row /\ \A d \in Slots \ {c} : calls'[d] = calls[d]
  BY DEF ListInv, CallsInv
<1>2. \A d \in Slots : calls'[d].kind \in CallKinds => CallOK(Live', list', calls'[d])
  BY <1>1
<1>3. \A d \in Slots : Owns(calls'[d]) => Owns(calls[d])
  BY <1>1
<1> QED BY <1>2, <1>3 DEF PlacesInv

(* The owner of the list puts its rows there and ends, or ends.            *)
LEMMA OneEnds ==
  ASSUME ListInv, PlacesInv, UNCHANGED pageVars, NEW c \in Slots, calls' = Done(c),
         list' = list \/ (Owns(calls[c]) /\ Place(Live, list'.rows, list'))
  PROVE  PlacesInv'
<1>1. TimelineInv' /\ Live' = Live
  BY HubRests DEF PlacesInv
<1>2. calls'[c] = Idle /\ \A d \in Slots \ {c} : calls'[d] = calls[d]
  BY DEF Done, ListInv, CallsInv
<1>3. Idle.kind \notin CallKinds /\ ~Owns(Idle)
  BY IdleIsNoCall DEF CallKinds, Owns
<1>4. \A d \in Slots \ {c} : calls[d].kind \in CallKinds => CallOK(Live, list', calls[d])
  <2> SUFFICES ASSUME NEW d \in Slots \ {c}, calls[d].kind \in CallKinds
               PROVE  CallOK(Live, list', calls[d])
    OBVIOUS
  <2>1. CallOK(Live, list, calls[d])
    BY DEF PlacesInv
  <2>2. CASE list' = list
    BY <2>1, <2>2
  <2>3. CASE Owns(calls[c])
    <3>1. ~Owns(calls[d])
      BY <2>3 DEF PlacesInv
    <3> QED BY <2>1, <3>1, OthersKeep
  <2> QED BY <2>2, <2>3
<1>5. Place(Live, list'.rows, list')
  BY DEF PlacesInv
<1>6. \A d \in Slots : calls'[d].kind \in CallKinds => CallOK(Live', list', calls'[d])
  BY <1>1, <1>2, <1>3, <1>4
<1>7. \A d \in Slots : Owns(calls'[d]) => Owns(calls[d])
  BY <1>2, <1>3
<1> QED BY <1>1, <1>5, <1>6, <1>7 DEF PlacesInv

LEMMA BlankFields ==
  ASSUME NEW status
  PROVE  DOMAIN Blank(status) = AnswerFields /\ Blank(status).status = status
BY DEF Blank, AnswerFields

LEMMA CallIsOne ==
  ASSUME NEW kind, NEW query, NEW target
  PROVE  /\ Call(kind, query, target).kind = kind /\ Call(kind, query, target).query = query
         /\ Call(kind, query, target).target = target /\ Call(kind, query, target).got = <<>>
         /\ DOMAIN Call(kind, query, target).answer = AnswerFields
         /\ Call(kind, query, target).answer.status = "none"
<1>1. Call(kind, query, target).answer = Blank("none")
  BY DEF Call
<1> QED BY <1>1, BlankFields DEF Call

(* A fetch begins: with its first page, for as many rows as the page shows. *)
LEMMA FetchBegins ==
  ASSUME NEW live, NEW page, NEW kind \in {"refresh", "select", "load"}, NEW filter, NEW target \in Nat,
         kind # "select" /\ page.loaded /\ page.filter = filter => target >= Len(page.rows)
  PROVE  CallOK(live, page, Fetch(kind, filter, target))
<1> DEFINE query == Request(filter, NextLimit(target, <<>>), NoToken, NoEvent)
           row == Call(kind, query, target)
<1>1. Fetch(kind, filter, target) = row
  BY DEF Fetch
<1>2. /\ query.filter = filter /\ query.token = NoToken /\ query.after = NoEvent
      /\ query.limit = NextLimit(target, <<>>)
  BY DEF Request
<1>3. NextLimit(target, <<>>) \in Nat \ {0}
  BY PagesAssumption, ListAssumption DEF NextLimit, Smaller, Larger
<1> HIDE DEF query
<1>4. /\ row.kind = kind /\ row.query = query /\ row.target = target /\ row.got = <<>>
      /\ DOMAIN row.answer = AnswerFields /\ row.answer.status = "none"
  BY CallIsOne
<1> HIDE DEF row
<1>5. FetchOK(live, row)
  BY <1>2, <1>3, <1>4, EmptySeq DEF FetchOK
<1>6. MoreOK(live, page, row)
  BY <1>4 DEF MoreOK
<1>7. ReloadOK(page, row)
  BY <1>2, <1>4 DEF ReloadOK
<1> QED BY <1>1, <1>4, <1>5, <1>6, <1>7 DEF CallOK

(* The page without rows has its place.                                    *)
LEMMA EmptyPlace == TimelineInv => Place(Live, Empty.rows, Empty) /\ Empty.loaded = FALSE
<1> SUFFICES ASSUME TimelineInv
             PROVE  Place(Live, Empty.rows, Empty) /\ Empty.loaded = FALSE
  OBVIOUS
<1>1. /\ Empty.rows = <<>> /\ Empty.token = NoToken /\ Empty.all = <<>> /\ Empty.more = FALSE
      /\ Empty.loaded = FALSE
  BY DEF Empty
<1>2. <<>> \in Seq(Events) /\ Len(<<>>) = 0
  BY EmptySeq
<1>3. \A s \in Live : s.token # NoToken
  BY PagesAssumption DEF TimelineInv, IsSnapshot
<1>4. Distinct(<<>>) /\ Begins(<<>>, <<>>)
  BY <1>2 DEF Distinct, Begins
<1>5. Empty.more \in BOOLEAN /\ (Empty.more <=> Len(Empty.rows) < Len(Empty.all))
  <2>1. ~(Len(<<>>) < Len(<<>>))
    BY <1>2
  <2> QED BY <1>1, <2>1, Zenon
<1>6. Empty.all \in Seq(Events) /\ Distinct(Empty.all) /\ Begins(Empty.rows, Empty.all)
  BY <1>1, <1>2, <1>4
<1> QED BY <1>1, <1>3, <1>5, <1>6 DEF Place

LEMMA LoadedTargetOK == PlacesInv => LoadedTarget \in Nat /\ LoadedTarget >= Len(list.rows) /\ PageSize \in Nat
BY ListAssumption, PagesAssumption, LenProperties DEF PlacesInv, Place, Begins, LoadedTarget, Larger

LEMMA ListPlacesStart == ListInit => PlacesInv
<1> SUFFICES ASSUME ListInit
             PROVE  PlacesInv
  OBVIOUS
<1>1. TimelineInv /\ list = Empty /\ \A c \in Slots : calls[c] = Idle
  BY TimelineStarts DEF ListInit
<1>2. Idle.kind \notin CallKinds /\ ~Owns(Idle)
  BY IdleIsNoCall DEF CallKinds, Owns
<1> QED BY <1>1, <1>2, EmptyPlace DEF PlacesInv
-----------------------------------------------------------------------------
(* new is the call row with another answer.                                *)
SameCall(new, row) ==
  /\ new.kind = row.kind /\ new.query = row.query /\ new.target = row.target /\ new.got = row.got
  /\ new.owner = row.owner

LEMMA AnswerFieldOnly ==
  ASSUME NEW row, IsCall(row), NEW answer
  PROVE  SameCall([row EXCEPT !.answer = answer], row) /\ [row EXCEPT !.answer = answer].answer = answer
BY DEF IsCall, CallFields, SameCall

(* An answer that brings no page promises nothing.                         *)
LEMMA FailureKeeps ==
  ASSUME NEW live, NEW page, NEW row, CallOK(live, page, row), NEW new, SameCall(new, row),
         DOMAIN new.answer = AnswerFields,
         row.kind = "ack" \/ new.answer.status \in {"failed", "useless"}
  PROVE  CallOK(live, page, new)
<1>1. FetchOK(live, new)
  BY DEF CallOK, FetchOK, SameCall
<1>2. MoreOK(live, page, new) /\ ReloadOK(page, new)
  BY DEF CallOK, MoreOK, ReloadOK, SameCall
<1> QED BY <1>1, <1>2 DEF CallOK

(* The query asks for what comes behind the rows.                          *)
Follows(query, rows) == query.after = IF rows = <<>> THEN NoEvent ELSE Last(rows)

(* A page of a snapshot is the next one of its list.                       *)
LEMMA PageIsNext ==
  ASSUME NEW live, NEW s, IsSnapshot(s), \A t \in live : t.token = s.token => t.ids = s.ids,
         NEW rows, Begins(rows, s.ids), NEW query, query.limit \in Nat,
         Follows(query, rows)
  PROVE  /\ NextPage(live, rows, Page(query, s)) /\ DOMAIN Page(query, s) = AnswerFields
         /\ Page(query, s).status = "ok" /\ Page(query, s).token = s.token
         /\ query.limit # 0 /\ Page(query, s).more => Page(query, s).ids # <<>>
<1> DEFINE page == Page(query, s)
<1>1. s.token \in Tokens /\ s.ids \in Seq(Events) /\ Distinct(s.ids)
  BY DEF IsSnapshot
<1>2. /\ DOMAIN page = AnswerFields /\ page.status = "ok" /\ page.token = s.token /\ page.all = s.ids
      /\ page.ids \in Seq(Events) /\ Begins(rows \o page.ids, s.ids)
      /\ page.more \in BOOLEAN /\ (page.more <=> Len(rows \o page.ids) < Len(s.ids))
      /\ query.limit # 0 /\ page.more => page.ids # <<>>
  BY <1>1, PageContinues DEF Follows
<1> HIDE DEF page
<1>3. Place(live, rows \o page.ids, page)
  BY <1>1, <1>2 DEF Place
<1> QED BY <1>1, <1>2, <1>3 DEF NextPage, page

(* A page of the right list keeps what is known of the call.               *)
LEMMA PageKeeps ==
  ASSUME NEW live, NEW page, Place(live, page.rows, page), NEW row, CallOK(live, page, row),
         row.kind \in {"refresh", "select", "load", "more"}, row.answer.status = "none",
         NEW s, IsSnapshot(s), \A t \in live : t.token = s.token => t.ids = s.ids,
         row.query.token = NoToken \/ (row.query.token = s.token /\ s \in live),
         NEW new, SameCall(new, row), new.answer = Page(row.query, s)
  PROVE  CallOK(live, page, new)
<1>1. s.token \in Tokens /\ s.ids \in Seq(Events) /\ NoToken \notin Tokens
  BY PagesAssumption DEF IsSnapshot
<1>2. new.kind = row.kind /\ new.query = row.query /\ new.target = row.target /\ new.got = row.got /\ new.owner = row.owner
  BY DEF SameCall
<1>3. CASE row.kind \in {"refresh", "select", "load"}
  <2>1. /\ row.got \in Seq(Events) /\ row.target \in Nat /\ row.query.limit \in Nat \ {0}
        /\ \/ row.query.token = NoToken /\ row.query.after = NoEvent /\ row.got = <<>>
           \/ Asks(live, row.query, row.got)
    BY <1>3 DEF CallOK, FetchOK
  <2>2. /\ Begins(row.got, s.ids)
        /\ \/ row.got = <<>> /\ row.query.after = NoEvent
           \/ row.got # <<>> /\ row.query.after = Last(row.got)
    <3>1. CASE row.query.token = NoToken
      <4>1. row.query.after = NoEvent /\ row.got = <<>>
        BY <1>1, <2>1, <3>1 DEF Asks
      <4>2. Begins(<<>>, s.ids)
        BY <1>1, EmptySeq, LenProperties DEF Begins
      <4> QED BY <4>1, <4>2
    <3>2. CASE row.query.token = s.token /\ s \in live
      BY <1>1, <2>1, <3>2 DEF Asks
    <3> QED BY <3>1, <3>2
  <2>3. /\ NextPage(live, row.got, new.answer) /\ DOMAIN new.answer = AnswerFields
        /\ new.answer.status = "ok" /\ (new.answer.more => new.answer.ids # <<>>)
    <3> DEFINE query == row.query
               rows == row.got
    <3>1. /\ query.limit \in Nat /\ query.limit # 0 /\ Begins(rows, s.ids)
          /\ Follows(query, rows)
      BY <2>1, <2>2 DEF Follows
    <3> HIDE DEF query, rows
    <3>2. /\ NextPage(live, rows, Page(query, s)) /\ DOMAIN Page(query, s) = AnswerFields
          /\ Page(query, s).status = "ok"
          /\ query.limit # 0 /\ Page(query, s).more => Page(query, s).ids # <<>>
      BY <3>1, PageIsNext
    <3>3. Page(query, s).more => Page(query, s).ids # <<>>
      BY <3>1, <3>2, Zenon
    <3> QED BY <3>2, <3>3 DEF query, rows
  <2>4. FetchOK(live, new)
    BY <1>2, <2>1, <2>3 DEF FetchOK
  <2>5. MoreOK(live, page, new) /\ ReloadOK(page, new)
    BY <1>2, <1>3 DEF MoreOK, ReloadOK, CallOK
  <2> QED BY <2>3, <2>4, <2>5 DEF CallOK
<1>4. CASE row.kind = "more" /\ row.owner
  <2>1. /\ row.query.limit \in Nat /\ row.query.token = page.token
        /\ page.token \in Tokens /\ page.rows # <<>> /\ row.query.after = Last(page.rows)
    BY <1>4 DEF CallOK, MoreOK
  <2>2. s.token = page.token /\ s.ids = page.all
    BY <1>1, <2>1 DEF Place
  <2>3. Begins(page.rows, s.ids)
    BY <2>2 DEF Place
  <2>4. /\ NextPage(live, page.rows, new.answer) /\ DOMAIN new.answer = AnswerFields
        /\ new.answer.status = "ok" /\ new.answer.token = page.token
    <3> DEFINE query == row.query
               rows == page.rows
    <3>1. query.limit \in Nat /\ Follows(query, rows) /\ Begins(rows, s.ids)
      BY <2>1, <2>3 DEF Follows
    <3> HIDE DEF query, rows
    <3>2. /\ NextPage(live, rows, Page(query, s)) /\ DOMAIN Page(query, s) = AnswerFields
          /\ Page(query, s).status = "ok" /\ Page(query, s).token = s.token
      BY <3>1, PageIsNext
    <3> QED BY <2>2, <3>2 DEF query, rows
  <2>5. FetchOK(live, new) /\ MoreOK(live, page, new) /\ ReloadOK(page, new)
    BY <1>2, <1>4, <2>1, <2>4 DEF FetchOK, MoreOK, ReloadOK
  <2> QED BY <2>4, <2>5 DEF CallOK
<1>5. CASE row.kind = "more" /\ ~row.owner
  <2>1. DOMAIN new.answer = AnswerFields
    BY DEF Page, AnswerFields
  <2>2. FetchOK(live, new) /\ MoreOK(live, page, new) /\ ReloadOK(page, new)
    BY <1>2, <1>5 DEF FetchOK, MoreOK, ReloadOK
  <2> QED BY <2>1, <2>2 DEF CallOK
<1> QED BY <1>3, <1>4, <1>5
-----------------------------------------------------------------------------
(* The steps.                                                              *)

(* The refresh of the timer, or of a login, asks for the rows it shows.    *)
LEMMA RefreshPlaces ==
  ASSUME ListInv, PlacesInv, NEW c \in Slots, StartRefresh(c) \/ Login(c)
  PROVE  PlacesInv' /\ list' = list
<1> DEFINE target == IF dataFilter = selected THEN LoadedTarget ELSE PageSize
           row == Fetch("refresh", selected, target)
<1>1. PICK inFlight : /\ inFlight = Bumped \/ inFlight = Left
                      /\ calls' = inFlight \/ calls' = [inFlight EXCEPT ![c] = row]
                      /\ list' = list /\ UNCHANGED pageVars
  BY DEF StartRefresh, Login, Refresh
<1>2. target \in Nat /\ (list.loaded /\ list.filter = selected => target >= Len(list.rows))
  BY LoadedTargetOK DEF ListInv, RowsOfChosen
<1> HIDE DEF target
<1>3. CallOK(Live, list, row)
  BY <1>2, FetchBegins
<1>4. Place(Live, list'.rows, list')
  BY <1>1 DEF PlacesInv
<1> HIDE DEF row
<1> QED BY <1>1, <1>3, <1>4, Restart

(* A load of the first page empties the page of another filter; but for a  *)
(* change of filter it asks for the rows the page shows.                   *)
LEMMA LoadFirstPlaces ==
  ASSUME ListInv, PlacesInv, NEW c \in Slots, NEW kind \in {"select", "load"}, NEW f, LoadFirst(c, kind, f),
         UNCHANGED pageVars
  PROVE  PlacesInv' /\ (list' = list \/ ~list'.loaded)
<1> DEFINE target == IF kind = "load" /\ dataFilter = f THEN LoadedTarget ELSE PageSize
           row == Fetch(kind, f, target)
<1>1. calls' = [Bumped EXCEPT ![c] = row]
  BY DEF LoadFirst
<1>2. list' = Empty \/ (list' = list /\ dataFilter = f)
  BY DEF LoadFirst, DropRows
<1>3. target \in Nat
  BY LoadedTargetOK
<1>4. Place(Live, list'.rows, list') /\ (list' = list \/ ~list'.loaded)
  BY <1>2, EmptyPlace DEF PlacesInv
<1>5. kind # "select" /\ list'.loaded /\ list'.filter = f => target >= Len(list'.rows)
  <2> SUFFICES ASSUME kind = "load", list'.loaded
               PROVE  target >= Len(list'.rows)
    OBVIOUS
  <2>1. list' = list /\ dataFilter = f
    BY <1>2, EmptyPlace DEF PlacesInv
  <2> QED BY <2>1, LoadedTargetOK
<1> HIDE DEF target
<1>6. CallOK(Live, list', row)
  BY <1>3, <1>5, FetchBegins
<1> HIDE DEF row
<1> QED BY <1>1, <1>4, <1>6, Restart

LEMMA SelectFilterPlaces ==
  ASSUME ListInv, PlacesInv, NEW c \in Slots, NEW f \in Filters, SelectFilter(c, f)
  PROVE  PlacesInv' /\ (list' = list \/ ~list'.loaded)
BY LoadFirstPlaces DEF SelectFilter

(* "Load more" asks for what comes behind the last row.                    *)
LEMMA LoadMorePlaces ==
  ASSUME ListInv, PlacesInv, NEW c \in Slots, LoadMore(c)
  PROVE  PlacesInv' /\ list' = list
<1> DEFINE query == Request(selected, PageSize, list.token, Last(list.rows))
           row == Call("more", query, 0)
<1>1. /\ calls' = [Bumped EXCEPT ![c] = row] /\ list' = list /\ UNCHANGED pageVars
      /\ list.token # NoToken /\ list.rows # <<>>
  BY DEF LoadMore
<1>2. query.limit = PageSize /\ query.token = list.token /\ query.after = Last(list.rows)
  BY DEF Request
<1> HIDE DEF query
<1>3. /\ row.kind = "more" /\ row.query = query
      /\ DOMAIN row.answer = AnswerFields /\ row.answer.status = "none"
  BY CallIsOne
<1> HIDE DEF row
<1>4. PageSize \in Nat /\ list.token \in Tokens
  BY <1>1, LoadedTargetOK DEF PlacesInv, Place
<1>5. MoreOK(Live, list, row)
  BY <1>1, <1>2, <1>3, <1>4 DEF MoreOK
<1>6. CallOK(Live, list, row)
  BY <1>3, <1>5 DEF CallOK, FetchOK, ReloadOK
<1>7. Place(Live, list'.rows, list') /\ CallOK(Live, list', row)
  BY <1>1, <1>6 DEF PlacesInv
<1> QED BY <1>1, <1>7, Restart

LEMMA AcknowledgeEventPlaces ==
  ASSUME ListInv, PlacesInv, NEW c \in Slots, NEW e \in Events, AcknowledgeEvent(c, e)
  PROVE  PlacesInv' /\ list' = list
<1> DEFINE row == Call("ack", Request(selected, 0, NoToken, e), 0)
<1>1. calls' = [calls EXCEPT ![c] = row] /\ list' = list /\ UNCHANGED pageVars
  BY DEF AcknowledgeEvent
<1>2. row.kind = "ack" /\ DOMAIN row.answer = AnswerFields
  BY CallIsOne
<1> HIDE DEF row
<1>3. CallOK(Live, list, row) /\ ~Owns(row)
  BY <1>2 DEF CallOK, FetchOK, MoreOK, ReloadOK, Owns
<1>4. TimelineInv' /\ Live' = Live
  BY <1>1, HubRests DEF PlacesInv
<1>5. /\ Place(Live', list.rows, list)
      /\ \A d \in Slots \ {c} : calls[d].kind \in CallKinds => CallOK(Live', list, calls[d])
  BY <1>4 DEF PlacesInv
<1> QED BY <1>1, <1>3, <1>4, <1>5, OneGoesOn

LEMMA LoseSessionPlaces ==
  ASSUME ListInv, PlacesInv, LoseSession
  PROVE  PlacesInv' /\ ~list'.loaded
<1>1. calls' = Left /\ list' = Empty /\ UNCHANGED pageVars
  BY DEF LoseSession, ExpireSession
<1>2. Place(Live, list'.rows, list') /\ ~list'.loaded
  BY <1>1, EmptyPlace DEF PlacesInv
<1>3. TimelineInv' /\ Live' = Live
  BY <1>1, HubRests DEF PlacesInv
<1>4. \A d \in Slots : Left[d].kind \in CallKinds => CallOK(Live, list', Left[d]) /\ ~Owns(Left[d])
  BY MarkedKeep, OthersKeep DEF ListInv, PlacesInv
<1>5. \A d \in Slots : Owns(Left[d]) => Left[d].kind \in CallKinds
  BY DEF Owns, CallKinds
<1> QED BY <1>1, <1>2, <1>3, <1>4, <1>5 DEF PlacesInv
-----------------------------------------------------------------------------
(* A slot in use holds a call.                                             *)
LEMMA BusyIsCall ==
  ASSUME ListInv, NEW c \in Busy
  PROVE  c \in Slots /\ IsCall(calls[c]) /\ calls[c].kind \in CallKinds
BY DEF ListInv, CallsInv, Busy, IsCall

(* A call gets its answer, and the Hub moves on by ids nobody knows.       *)
LEMMA AnswerStepPlaces ==
  ASSUME ListInv, PlacesInv, NEW c \in Busy, NEW answer, Answered(c, answer),
         TimelineInv', list' = list,
         \A s \in Live' : s \in Live \/ s.token \notin Known,
         LET new == [calls[c] EXCEPT !.answer = answer] IN CallOK(Live', list, new)
  PROVE  PlacesInv'
<1> DEFINE row == [calls[c] EXCEPT !.answer = answer]
<1>1. calls' = [calls EXCEPT ![c] = row] /\ c \in Slots
  BY BusyIsCall DEF Answered
<1>2. SameCall(row, calls[c])
  BY BusyIsCall, AnswerFieldOnly
<1>3. CallOK(Live', list, row)
  OBVIOUS
<1> HIDE DEF row
<1>4. \A s \in Live' : s \in Live \/ s.token # list.token
  BY DEF Known
<1>5. Place(Live', list.rows, list)
  BY <1>4 DEF PlacesInv, Place
<1>6. ASSUME NEW d \in Slots \ {c}, calls[d].kind \in CallKinds
      PROVE  CallOK(Live', list, calls[d])
  <2>1. d \in Busy
    BY <1>6, IdleIsNoCall DEF Busy, CallKinds
  <2>2. calls[d].query.token \in Known /\ calls[d].answer.token \in Known
    BY <2>1 DEF Known
  <2>3. CallOK(Live, list, calls[d])
    BY <1>6 DEF PlacesInv
  <2>4. \A s \in Live' : s \in Live \/ (s.token # calls[d].query.token /\ s.token # calls[d].answer.token)
    BY <2>2
  <2> QED BY <2>3, <2>4, HubMoves
<1>7. Owns(row) => Owns(calls[c])
  BY <1>2 DEF SameCall, Owns
<1> QED BY <1>1, <1>3, <1>5, <1>6, <1>7, OneGoesOn

(* The Hub's answer: a failure, an acknowledgement, a first or a later page. *)
LEMMA AnswerPlaces ==
  ASSUME ListInv, PlacesInv, NEW c \in Slots, Answer(c)
  PROVE  PlacesInv' /\ list' = list
<1> DEFINE query == calls[c].query
           fresh == CHOOSE token \in Tokens : token \notin Known
<1>1. c \in Busy /\ calls[c].answer.status = "none" /\ list' = list
  BY DEF Answer
<1>2. IsCall(calls[c]) /\ calls[c].kind \in CallKinds /\ CallOK(Live, list, calls[c])
  BY <1>1, BusyIsCall DEF PlacesInv
<1>3. \A answer : LET new == [calls[c] EXCEPT !.answer = answer]
                  IN SameCall(new, calls[c]) /\ new.answer = answer
  BY <1>2, AnswerFieldOnly
<1>4. query.token \in Known /\ calls[c].answer.token \in Known
  BY <1>1 DEF Known
<1>5. ASSUME NEW answer, Answered(c, answer), TimelineInv', Live' = Live, DOMAIN answer = AnswerFields,
             calls[c].kind = "ack" \/ answer.status = "failed"
      PROVE  PlacesInv'
  <2> DEFINE new == [calls[c] EXCEPT !.answer = answer]
  <2>1. SameCall(new, calls[c]) /\ new.answer = answer
    BY <1>3
  <2> HIDE DEF new
  <2>2. CallOK(Live', list, new)
    BY <1>2, <1>5, <2>1, FailureKeeps
  <2>3. \A s \in Live' : s \in Live \/ s.token \notin Known
    BY <1>5
  <2> QED BY <1>1, <1>5, <2>2, <2>3, AnswerStepPlaces DEF new
<1>6. CASE Answered(c, Blank("failed")) /\ UNCHANGED pageVars
  <2>1. TimelineInv' /\ Live' = Live
    BY <1>6, HubRests DEF PlacesInv
  <2> QED BY <1>1, <1>5, <1>6, <2>1, BlankFields
<1>7. CASE /\ calls[c].kind = "ack"
           /\ \E answer \in {Blank("ok"), Blank("failed")} :
                Acknowledge(query.after, answer) /\ Answered(c, answer)
  <2>1. PICK answer \in {Blank("ok"), Blank("failed")} :
          Acknowledge(query.after, answer) /\ Answered(c, answer)
    BY <1>7
  <2>2. TimelineInv' /\ Live' = Live
    BY <2>1, AcknowledgeKeeps DEF PlacesInv
  <2>3. DOMAIN answer = AnswerFields
    BY BlankFields
  <2> QED BY <1>1, <1>5, <1>7, <2>1, <2>2, <2>3
<1>8. CASE /\ calls[c].kind # "ack" /\ Tokens \ Known # {}
           /\ FirstPage(query, fresh) /\ Answered(c, Page(query, Last(snapshots')))
  <2> DEFINE s == Last(snapshots')
             new == [calls[c] EXCEPT !.answer = Page(query, s)]
  <2>1. fresh \in Tokens /\ fresh \notin Known
    BY <1>8
  <2>2. \A t \in Live : t.token # fresh
    BY <2>1 DEF Known, Live
  <2> HIDE DEF fresh
  <2>3. TimelineInv' /\ IsSnapshot(s) /\ s.token = fresh /\ \A t \in Live' : t \in Live \/ t = s
    BY <1>8, <2>1, <2>2, FirstPageKeeps DEF PlacesInv
  <2>4. SameCall(new, calls[c]) /\ new.answer = Page(query, s)
    BY <1>3
  <2>5. query.token = NoToken /\ calls[c].kind \in {"refresh", "select", "load", "more"}
    BY <1>2, <1>8 DEF FirstPage, CallKinds
  <2> HIDE DEF new, s
  <2>6. \A t \in Live' : t.token = s.token => t.ids = s.ids
    BY <2>2, <2>3
  <2>7. CallOK(Live', list, calls[c])
    BY <1>2, <1>4, <2>1, <2>3, HubMoves
  <2>8. Place(Live', list.rows, list)
    BY <2>1, <2>3 DEF PlacesInv, Place, Known
  <2>9. CallOK(Live', list, new)
    BY <1>1, <2>3, <2>4, <2>5, <2>6, <2>7, <2>8, PageKeeps
  <2>10. \A t \in Live' : t \in Live \/ t.token \notin Known
    BY <2>1, <2>3
  <2> QED BY <1>1, <1>8, <2>3, <2>9, <2>10, AnswerStepPlaces DEF new, s
<1>9. CASE /\ calls[c].kind # "ack" /\ query.token # NoToken
           /\ \E answer \in LaterPages(query) : Answered(c, answer)
           /\ UNCHANGED pageVars
  <2>1. TimelineInv' /\ Live' = Live
    BY <1>9, HubRests DEF PlacesInv
  <2>2. PICK answer \in LaterPages(query) : Answered(c, answer)
    BY <1>9
  <2>3. CASE answer = Blank("failed")
    BY <1>1, <1>5, <2>1, <2>2, <2>3, BlankFields
  <2>4. CASE \E s \in Usable(query) : answer = Page(query, s)
    <3>1. PICK s \in Usable(query) : answer = Page(query, s)
      BY <2>4
    <3> DEFINE new == [calls[c] EXCEPT !.answer = answer]
    <3>2. s \in Live /\ s.token = query.token
      BY DEF Usable, Live
    <3>3. IsSnapshot(s) /\ \A t \in Live : t.token = s.token => t.ids = s.ids
      BY <3>2 DEF PlacesInv, TimelineInv
    <3>4. SameCall(new, calls[c]) /\ new.answer = Page(query, s)
      BY <1>3, <3>1
    <3>5. calls[c].kind \in {"refresh", "select", "load", "more"}
      BY <1>2, <1>9 DEF CallKinds
    <3> HIDE DEF new
    <3>6. CallOK(Live', list, new)
      BY <1>1, <1>2, <2>1, <3>2, <3>3, <3>4, <3>5, PageKeeps DEF PlacesInv
    <3>7. \A t \in Live' : t \in Live \/ t.token \notin Known
      BY <2>1
    <3> QED BY <1>1, <2>1, <2>2, <3>6, <3>7, AnswerStepPlaces DEF new
  <2> QED BY <2>3, <2>4 DEF LaterPages
<1> QED BY <1>1, <1>6, <1>7, <1>8, <1>9 DEF Answer

(* The Hub's table and snapshots move on while the browser waits.          *)
LEMMA EventsPlaces ==
  ASSUME PlacesInv, EventsStep, UNCHANGED listVars
  PROVE  PlacesInv'
<1>1. TimelineInv' /\ Live' \subseteq Live
  BY EventTableKeeps, ExpireKeeps DEF EventsStep, PlacesInv
<1>2. list' = list /\ calls' = calls
  BY DEF listVars
<1>3. Place(Live', list.rows, list)
  BY <1>1 DEF PlacesInv, Place
<1>4. \A c \in Slots : calls[c].kind \in CallKinds => CallOK(Live', list, calls[c])
  BY <1>1, HubMoves DEF PlacesInv
<1> QED BY <1>1, <1>2, <1>3, <1>4 DEF PlacesInv
-----------------------------------------------------------------------------
(* A fetch never asks for no row.                                          *)
LEMMA PageAsked ==
  ASSUME NEW target \in Nat, NEW rows, Len(rows) \in Nat
  PROVE  NextLimit(target, rows) \in Nat \ {0}
<1>1. \A n \in Nat : Smaller(MaxPage, Larger(PageSize, target - n)) \in Nat \ {0}
  BY PagesAssumption, ListAssumption DEF Smaller, Larger
<1> QED BY <1>1 DEF NextLimit

(* A page that arrives for a fetch continues what was collected.           *)
LEMMA PageCollected ==
  ASSUME ListInv, PlacesInv, NEW c \in Slots, Arrives(c, {"ok"}) \/ Arrives(c, {"ok", "failed"}),
         calls[c].answer.status = "ok", calls[c].kind \in {"refresh", "select", "load"}
  PROVE  /\ Collected(c) = calls[c].got \o calls[c].answer.ids
         /\ calls[c].got \in Seq(Events) /\ calls[c].answer.ids \in Seq(Events)
         /\ Collected(c) \in Seq(Events) /\ calls[c].target \in Nat
         /\ calls[c].answer.token \in Tokens /\ Place(Live, Collected(c), calls[c].answer)
         /\ calls[c].answer.more => calls[c].answer.ids # <<>>
<1> DEFINE row == calls[c]
<1>1. CallOK(Live, list, row)
  BY DEF PlacesInv, CallKinds
<1>2. /\ row.got \in Seq(Events) /\ row.target \in Nat
      /\ NextPage(Live, row.got, row.answer) /\ (row.answer.more => row.answer.ids # <<>>)
  BY <1>1 DEF CallOK, FetchOK
<1>3. /\ row.answer.token \in Tokens /\ row.answer.ids \in Seq(Events)
      /\ Place(Live, row.got \o row.answer.ids, row.answer)
  BY <1>2 DEF NextPage
<1>4. /\ row.answer.all \in Seq(Events) /\ Distinct(row.answer.all)
      /\ Begins(row.got \o row.answer.ids, row.answer.all)
  BY <1>3 DEF Place
<1>5. New(row.got, row.answer.ids) = row.answer.ids
  BY <1>2, <1>3, <1>4, NothingTwice
<1>6. Collected(c) = row.got \o row.answer.ids
  BY <1>5 DEF Collected
<1>7. Collected(c) \in Seq(Events)
  BY <1>4, <1>6 DEF Begins
<1> QED BY <1>2, <1>3, <1>6, <1>7

(* The fetch goes on behind what it collected.                             *)
LEMMA FetchNextPlaces ==
  ASSUME ListInv, PlacesInv, NEW c \in Slots, FetchNext(c)
  PROVE  PlacesInv' /\ list' = list
<1> DEFINE old == calls[c]
           rows == Collected(c)
           query == Request(old.query.filter, NextLimit(old.target, rows), old.answer.token, Last(old.answer.ids))
           row == [old EXCEPT !.got = rows, !.query = query, !.answer = Blank("none")]
<1>1. /\ c \in Busy /\ old.answer.status = "ok" /\ old.kind \in {"refresh", "select", "load"}
      /\ old.answer.ids # <<>> /\ list' = list /\ UNCHANGED pageVars
  BY DEF FetchNext, Arrives, MorePages
<1>2. IsCall(old)
  BY <1>1, BusyIsCall
<1>3. calls' = [calls EXCEPT ![c] = row]
  BY <1>2 DEF FetchNext, IsCall, CallFields
<1>4. /\ rows = old.got \o old.answer.ids
      /\ old.got \in Seq(Events) /\ old.answer.ids \in Seq(Events) /\ rows \in Seq(Events) /\ old.target \in Nat
      /\ old.answer.token \in Tokens /\ Place(Live, rows, old.answer)
  BY <1>1, PageCollected DEF Arrives
<1>5. Last(rows) = Last(old.answer.ids) /\ rows # <<>> /\ Len(rows) \in Nat
  <2> DEFINE a == old.got
             b == old.answer.ids
  <2>1. a \in Seq(Events) /\ b \in Seq(Events) /\ b # <<>> /\ rows = a \o b
    BY <1>1, <1>4
  <2> HIDE DEF a, b, rows
  <2>2. Len(rows) = Len(a) + Len(b) /\ Len(b) \in Nat \ {0} /\ Len(a) \in Nat
    BY <2>1, ConcatProperties, EmptySeq, LenProperties
  <2>3. rows[Len(rows)] = b[Len(b)]
    BY <2>1, <2>2, ConcatProperties
  <2>4. Last(rows) = Last(b) /\ rows # <<>> /\ Len(rows) \in Nat
    BY <2>2, <2>3, EmptySeq DEF Last
  <2> QED BY <2>4 DEF b
<1>6. /\ query.filter = old.query.filter /\ query.token = old.answer.token
      /\ query.after = Last(rows) /\ query.limit = NextLimit(old.target, rows)
  BY <1>5 DEF Request
<1>7. NextLimit(old.target, rows) \in Nat \ {0}
  BY <1>4, <1>5, PageAsked
<1> HIDE DEF query
<1>8. /\ row.kind = old.kind /\ row.owner = old.owner /\ row.target = old.target
      /\ row.got = rows /\ row.query = query /\ row.answer = Blank("none")
  BY <1>2 DEF IsCall, CallFields
<1> HIDE DEF row, rows
<1>9. DOMAIN row.answer = AnswerFields /\ row.answer.status = "none"
  BY <1>8, BlankFields
<1>10. CallOK(Live, list, old)
  BY <1>1 DEF PlacesInv, CallKinds
<1>11. Asks(Live, row.query, row.got)
  <2>1. \A s \in Live : s.token = old.answer.token => Begins(rows, s.ids)
    BY <1>4 DEF Place
  <2> QED BY <1>4, <1>5, <1>6, <1>8, <2>1 DEF Asks
<1>12. FetchOK(Live, row)
  BY <1>4, <1>6, <1>7, <1>8, <1>9, <1>11 DEF FetchOK
<1>13. MoreOK(Live, list, row)
  BY <1>1, <1>8 DEF MoreOK
<1>14. ReloadOK(list, row)
  BY <1>1, <1>6, <1>8, <1>10 DEF CallOK, ReloadOK
<1>15. CallOK(Live, list, row) /\ (Owns(row) => Owns(old))
  BY <1>8, <1>9, <1>12, <1>13, <1>14 DEF CallOK, Owns
<1>16. TimelineInv' /\ Live' = Live
  BY <1>1, HubRests DEF PlacesInv
<1>17. Place(Live, list.rows, list) /\ \A d \in Slots : calls[d].kind \in CallKinds => CallOK(Live, list, calls[d])
  BY DEF PlacesInv
<1> QED BY <1>1, <1>3, <1>15, <1>16, <1>17, OneGoesOn

(* The fetch has what it asked for, or all there is, or nothing.           *)
LEMMA FetchEndsPlaces ==
  ASSUME ListInv, PlacesInv, NEW c \in Slots, FetchEnds(c)
  PROVE  PlacesInv' /\ list' = list
<1> DEFINE old == calls[c]
           complete == [old EXCEPT !.got = Collected(c), !.answer.status = "complete"]
           useless == [old EXCEPT !.got = <<>>, !.answer = Blank("useless")]
<1>1. /\ c \in Busy /\ Arrives(c, {"ok", "failed"}) /\ old.kind = "refresh" /\ list' = list /\ UNCHANGED pageVars
      /\ \/ /\ old.answer.status = "ok" /\ ~MorePages(c)
            /\ calls' = [calls EXCEPT ![c] = complete]
         \/ calls' = [calls EXCEPT ![c] = useless]
  BY DEF FetchEnds, Arrives
<1>2. IsCall(old) /\ CallOK(Live, list, old)
  BY <1>1, BusyIsCall DEF PlacesInv
<1>3. TimelineInv' /\ Live' = Live
  BY <1>1, HubRests DEF PlacesInv
<1>4. Place(Live, list.rows, list) /\ \A d \in Slots : calls[d].kind \in CallKinds => CallOK(Live, list, calls[d])
  BY DEF PlacesInv
<1>5. /\ old.target \in Nat /\ old.query.limit \in Nat \ {0}
      /\ ReloadOK(list, old) /\ DOMAIN old.answer = AnswerFields
  BY <1>1, <1>2 DEF CallOK, FetchOK
<1>6. CASE old.answer.status = "ok" /\ ~MorePages(c) /\ calls' = [calls EXCEPT ![c] = complete]
  <2> DEFINE rows == Collected(c)
             answer == [old.answer EXCEPT !.status = "complete"]
  <2>1. /\ rows \in Seq(Events) /\ Place(Live, rows, old.answer)
        /\ (old.answer.more => old.answer.ids # <<>>)
    BY <1>1, <1>6, PageCollected
  <2>2. ~old.answer.more \/ ~(Len(rows) < old.target)
    BY <1>6, <2>1 DEF MorePages
  <2>3. Len(rows) >= old.target \/ ~old.answer.more
    BY <1>5, <2>1, <2>2, LenProperties
  <2>4. /\ complete.kind = old.kind /\ complete.owner = old.owner /\ complete.target = old.target
        /\ complete.got = rows /\ complete.query = old.query /\ complete.answer = answer
    BY <1>2 DEF IsCall, CallFields
  <2>5. /\ DOMAIN answer = AnswerFields /\ answer.status = "complete" /\ answer.token = old.answer.token
        /\ answer.all = old.answer.all /\ answer.more = old.answer.more
    BY <1>5 DEF AnswerFields
  <2> HIDE DEF complete, answer, rows
  <2>6. Place(Live, rows, answer)
    BY <2>1, <2>5 DEF Place
  <2>7. FetchOK(Live, complete)
    BY <1>5, <2>1, <2>3, <2>4, <2>5, <2>6 DEF FetchOK
  <2>8. MoreOK(Live, list, complete) /\ ReloadOK(list, complete)
    BY <1>1, <1>5, <2>4 DEF MoreOK, ReloadOK
  <2>9. CallOK(Live, list, complete) /\ (Owns(complete) => Owns(old))
    BY <2>4, <2>5, <2>7, <2>8 DEF CallOK, Owns
  <2> QED BY <1>1, <1>3, <1>4, <1>6, <2>9, OneGoesOn
<1>7. CASE calls' = [calls EXCEPT ![c] = useless]
  <2>1. /\ useless.kind = old.kind /\ useless.owner = old.owner /\ useless.target = old.target
        /\ useless.got = <<>> /\ useless.query = old.query /\ useless.answer = Blank("useless")
    BY <1>2 DEF IsCall, CallFields
  <2> HIDE DEF useless
  <2>2. DOMAIN useless.answer = AnswerFields /\ useless.answer.status = "useless"
    BY <2>1, BlankFields
  <2>3. FetchOK(Live, useless)
    BY <1>5, <2>1, <2>2, EmptySeq DEF FetchOK
  <2>4. MoreOK(Live, list, useless) /\ ReloadOK(list, useless)
    BY <1>1, <1>5, <2>1 DEF MoreOK, ReloadOK
  <2>5. CallOK(Live, list, useless) /\ (Owns(useless) => Owns(old))
    BY <2>1, <2>2, <2>3, <2>4 DEF CallOK, Owns
  <2> QED BY <1>1, <1>3, <1>4, <1>7, <2>5, OneGoesOn
<1> QED BY <1>1, <1>6, <1>7

(* What RowsKept says of one step.                                         *)
KeepsRows ==
  list.loaded /\ list'.loaded /\ list'.filter = list.filter /\ ~FirstPageShown
    => Len(list'.rows) >= Smaller(Len(list.rows), Len(list'.all))

LEMMA RowsFields ==
  ASSUME NEW rows, NEW answer, NEW filter
  PROVE  LET page == Rows(rows, answer, filter)
         IN /\ page.rows = rows /\ page.token = answer.token /\ page.all = answer.all
            /\ page.more = answer.more /\ page.filter = filter
BY DEF Rows

(* What the page shows of a place.                                         *)
LEMMA RowsPlace ==
  ASSUME NEW live, NEW rows, NEW answer, NEW filter, Place(live, rows, answer),
         NEW page, page = Rows(rows, answer, filter)
  PROVE  Place(live, page.rows, page) /\ page.rows = rows /\ page.filter = filter /\ page.all = answer.all
<1>1. /\ page.rows = rows /\ page.token = answer.token /\ page.all = answer.all
      /\ page.more = answer.more /\ page.filter = filter
  BY RowsFields
<1> QED BY <1>1 DEF Place

(* A reload that got as many rows as it asked for, or all there are, keeps *)
(* as many as the page showed.                                             *)
LEMMA ReloadKeeps ==
  ASSUME PlacesInv, NEW row, ReloadOK(list, row), row.kind \in {"refresh", "load"}, row.owner,
         NEW rows, NEW answer, Place(Live, rows, answer), row.target \in Nat,
         Len(rows) >= row.target \/ ~answer.more,
         list' = Rows(rows, answer, row.query.filter)
  PROVE  KeepsRows
<1>1. list'.rows = rows /\ list'.filter = row.query.filter /\ list'.all = answer.all
  BY RowsPlace
<1>2. /\ rows \in Seq(Events) /\ answer.all \in Seq(Events) /\ (answer.more <=> Len(rows) < Len(answer.all))
      /\ list.rows \in Seq(Events)
  BY DEF PlacesInv, Place, Begins
<1>3. Len(rows) \in Nat /\ Len(answer.all) \in Nat /\ Len(list.rows) \in Nat
  BY <1>2, LenProperties
<1>4. Len(rows) >= row.target \/ Len(rows) >= Len(answer.all)
  BY <1>2, <1>3
<1>5. SUFFICES ASSUME list.loaded, list'.filter = list.filter
               PROVE  Len(rows) >= Smaller(Len(list.rows), Len(answer.all))
  BY <1>1 DEF KeepsRows
<1>6. row.target >= Len(list.rows)
  BY <1>1, <1>5 DEF ReloadOK
<1> QED BY <1>3, <1>4, <1>6 DEF Smaller

LEMMA FinishRefreshPlaces ==
  ASSUME ListInv, PlacesInv, NEW c \in Slots, FinishRefresh(c)
  PROVE  PlacesInv' /\ (list' = list \/ KeepsRows)
<1> DEFINE row == calls[c]
<1>1. c \in Busy /\ calls' = Done(c) /\ UNCHANGED pageVars /\ row.answer.status \in {"complete", "useless"}
  BY DEF FinishRefresh, Arrives
<1>2. row.kind = "refresh" /\ CallOK(Live, list, row)
  BY <1>1, BusyIsCall DEF IsCall, PlacesInv
<1>3. \/ list' = list
      \/ /\ Present(c) /\ row.answer.status = "complete"
         /\ list' = Rows(row.got, row.answer, row.query.filter)
  BY DEF FinishRefresh
<1>4. CASE /\ Present(c) /\ row.answer.status = "complete"
           /\ list' = Rows(row.got, row.answer, row.query.filter)
  <2>1. row.owner /\ Owns(row)
    BY <1>2, <1>4 DEF Present, Owns
  <2>2. /\ Place(Live, row.got, row.answer) /\ (Len(row.got) >= row.target \/ ~row.answer.more)
        /\ ReloadOK(list, row) /\ row.target \in Nat
    BY <1>2, <1>4 DEF CallOK, FetchOK
  <2>3. Place(Live, list'.rows, list')
    BY <1>4, <2>2, RowsPlace
  <2>4. KeepsRows
    BY <1>2, <1>4, <2>1, <2>2, ReloadKeeps
  <2> QED BY <1>1, <2>1, <2>3, <2>4, OneEnds
<1> QED BY <1>1, <1>3, <1>4, OneEnds

LEMMA FinishLoadPlaces ==
  ASSUME ListInv, PlacesInv, NEW c \in Slots, FinishLoad(c)
  PROVE  PlacesInv' /\ (list' = list \/ KeepsRows)
<1> DEFINE row == calls[c]
           rows == Collected(c)
<1>1. c \in Busy /\ Arrives(c, {"ok", "failed"}) /\ calls' = Done(c) /\ UNCHANGED pageVars /\ row.kind \in {"select", "load"}
  BY DEF FinishLoad, Arrives
<1>2. CallOK(Live, list, row)
  BY <1>1 DEF PlacesInv, CallKinds
<1>3. \/ list' = list
      \/ /\ Present(c) /\ row.answer.status = "ok" /\ ~MorePages(c)
         /\ list' = Rows(rows, row.answer, row.query.filter)
  BY DEF FinishLoad
<1>4. CASE /\ Present(c) /\ row.answer.status = "ok" /\ ~MorePages(c)
           /\ list' = Rows(rows, row.answer, row.query.filter)
  <2>1. row.owner /\ Owns(row)
    BY <1>1, <1>4 DEF Present, Owns
  <2>2. /\ rows \in Seq(Events) /\ Place(Live, rows, row.answer) /\ row.target \in Nat
        /\ (row.answer.more => row.answer.ids # <<>>)
    BY <1>1, <1>4, PageCollected
  <2>3. ~row.answer.more \/ ~(Len(rows) < row.target)
    BY <1>4, <2>2 DEF MorePages
  <2>4. ReloadOK(list, row)
    BY <1>2 DEF CallOK
  <2> HIDE DEF rows
  <2>5. Len(rows) >= row.target \/ ~row.answer.more
    BY <2>2, <2>3, LenProperties
  <2>6. Place(Live, list'.rows, list')
    BY <1>4, <2>2, RowsPlace
  <2>7. KeepsRows
    <3>1. CASE row.kind = "load"
      BY <1>1, <1>4, <2>1, <2>2, <2>4, <2>5, <3>1, ReloadKeeps
    <3>2. CASE row.kind = "select"
      <4>1. calls'[c] = Idle
        BY <1>1 DEF Done, ListInv, CallsInv
      <4> QED BY <1>1, <3>2, <4>1 DEF KeepsRows, FirstPageShown
    <3> QED BY <1>1, <3>1, <3>2
  <2> QED BY <1>1, <2>1, <2>6, <2>7, OneEnds
<1> QED BY <1>1, <1>3, <1>4, OneEnds

LEMMA FinishMorePlaces ==
  ASSUME ListInv, PlacesInv, NEW c \in Slots, FinishMore(c)
  PROVE  PlacesInv' /\ (list' = list \/ KeepsRows)
<1> DEFINE row == calls[c]
           rows == list.rows \o New(list.rows, row.answer.ids)
<1>1. c \in Busy /\ calls' = Done(c) /\ UNCHANGED pageVars /\ row.kind = "more"
  BY DEF FinishMore, Arrives
<1>2. CallOK(Live, list, row)
  BY <1>1 DEF PlacesInv, CallKinds
<1>3. \/ list' = list
      \/ Present(c) /\ row.answer.status = "ok" /\ list' = Rows(rows, row.answer, selected)
  BY DEF FinishMore, Continues
<1>4. CASE Present(c) /\ row.answer.status = "ok" /\ list' = Rows(rows, row.answer, selected)
  <2>1. row.owner /\ Owns(row)
    BY <1>1, <1>4 DEF Present, Owns
  <2>2. NextPage(Live, list.rows, row.answer)
    BY <1>1, <1>2, <1>4, <2>1 DEF CallOK, MoreOK
  <2>3. /\ list.rows \in Seq(Events) /\ row.answer.ids \in Seq(Events)
        /\ Place(Live, list.rows \o row.answer.ids, row.answer)
    BY <2>2 DEF NextPage, PlacesInv, Place, Begins
  <2>4. New(list.rows, row.answer.ids) = row.answer.ids
    BY <2>3, NothingTwice DEF Place
  <2>5. Place(Live, rows, row.answer) /\ Len(rows) = Len(list.rows) + Len(row.answer.ids)
    BY <2>3, <2>4, ConcatProperties
  <2> HIDE DEF rows
  <2>6. Place(Live, list'.rows, list') /\ list'.rows = rows /\ list'.all = row.answer.all
    BY <1>4, <2>5, RowsPlace
  <2>7. Len(list'.all) \in Nat
    BY <2>5, <2>6, LenProperties DEF Place
  <2>8. KeepsRows
    <3>1. Len(list.rows) \in Nat /\ Len(row.answer.ids) \in Nat
      BY <2>3, LenProperties
    <3>2. Len(list'.rows) >= Len(list.rows) /\ Len(list'.rows) \in Nat
      <4> DEFINE n == Len(rows)
                 m == Len(list.rows)
                 k == Len(row.answer.ids)
      <4>1. m \in Nat /\ k \in Nat /\ n = m + k
        BY <2>5, <3>1
      <4> HIDE DEF n, m, k
      <4>2. n >= m /\ n \in Nat
        BY <4>1
      <4> QED BY <2>6, <4>2 DEF n, m
    <3>3. \A a, b, n \in Nat : n >= a => n >= Smaller(a, b)
      BY DEF Smaller
    <3>4. Len(list'.rows) >= Smaller(Len(list.rows), Len(list'.all))
      BY <2>7, <3>1, <3>2, <3>3
    <3> QED BY <3>4 DEF KeepsRows
  <2> QED BY <1>1, <2>1, <2>6, <2>8, OneEnds
<1> QED BY <1>1, <1>3, <1>4, OneEnds

LEMMA FinishAcknowledgePlaces ==
  ASSUME ListInv, PlacesInv, NEW c \in Slots, FinishAcknowledge(c)
  PROVE  PlacesInv' /\ (list' = list \/ ~list'.loaded)
<1>1. UNCHANGED pageVars
  BY DEF FinishAcknowledge
<1>2. CASE LoadFirst(c, "load", selected)
  BY <1>1, <1>2, LoadFirstPlaces
<1>3. CASE calls' = Done(c) /\ list' = list
  BY <1>1, <1>3, OneEnds
<1> QED BY <1>2, <1>3 DEF FinishAcknowledge
-----------------------------------------------------------------------------
(* A step keeps the places, and the rows that a reload must keep.          *)
LEMMA ListStepPlaces ==
  ASSUME ListInv, PlacesInv, [ListNext]_<<pageVars, listVars>>
  PROVE  PlacesInv' /\ (list' = list \/ KeepsRows)
<1>1. CASE UNCHANGED <<pageVars, listVars>>
  <2>1. TimelineInv' /\ Live' = Live
    BY <1>1, HubRests DEF PlacesInv
  <2>2. list' = list /\ calls' = calls
    BY <1>1 DEF listVars
  <2> QED BY <2>1, <2>2 DEF PlacesInv
<1>2. CASE EventsStep /\ UNCHANGED listVars
  BY <1>2, EventsPlaces DEF listVars
<1>3. CASE \/ LoseSession
           \/ \E c \in Slots : StartRefresh(c) \/ Login(c) \/ LoadMore(c)
           \/ \E c \in Slots, f \in Filters : SelectFilter(c, f)
           \/ \E c \in Slots, e \in Events : AcknowledgeEvent(c, e)
  <2>1. ~list'.loaded => KeepsRows
    BY DEF KeepsRows
  <2> QED BY <1>3, <2>1, LoseSessionPlaces, RefreshPlaces, LoadMorePlaces, SelectFilterPlaces, AcknowledgeEventPlaces
<1>4. CASE \E c \in Slots :
             \/ Answer(c)
             \/ FetchNext(c) \/ FetchEnds(c) \/ FinishRefresh(c) \/ FinishLoad(c) \/ FinishMore(c)
             \/ FinishAcknowledge(c)
  <2>1. ~list'.loaded => KeepsRows
    BY DEF KeepsRows
  <2> QED BY <1>4, <2>1, AnswerPlaces, FetchNextPlaces, FetchEndsPlaces, FinishRefreshPlaces, FinishLoadPlaces,
          FinishMorePlaces, FinishAcknowledgePlaces
<1>5. CASE RedrawPage
  <2>1. list' = list /\ calls' = calls /\ UNCHANGED pageVars
    BY <1>5 DEF RedrawPage
  <2>2. TimelineInv' /\ Live' = Live
    BY <2>1, HubRests DEF PlacesInv
  <2> QED BY <2>1, <2>2 DEF PlacesInv
<1> QED BY <1>1, <1>2, <1>3, <1>4, <1>5 DEF ListNext

(* Whatever overtakes what, the rows on the page and those of every call in *)
(* flight are a beginning of what the Hub froze under their id, and the    *)
(* list belongs to one call: the proof of the two theorems below.          *)
THEOREM PlacesInvariant == ListSpec => [](ListInv /\ PlacesInv)
<1>1. ListInit => PlacesInv
  BY ListPlacesStart
<1>2. ListInv /\ PlacesInv /\ [ListNext]_<<pageVars, listVars>> => PlacesInv'
  BY ListStepPlaces
<1> QED BY <1>1, <1>2, ListInvariant, PTL DEF ListSpec

(* The rows on the page are a beginning of one list the Hub froze for the  *)
(* selected filter, and "load more" is offered while it goes on            *)
(* (ListEventsPage, fetchEventPages, loadEvents): nothing is skipped or    *)
(* shown twice, for any events, page size and number of calls in flight.   *)
THEOREM RowsAreOneList == ListSpec => []ListIsPrefix
<1>1. ASSUME ListInv, PlacesInv
      PROVE  ListIsPrefix
  <2>1. /\ list.rows \in Seq(Events) /\ list.all \in Seq(Events) /\ Len(list.rows) <= Len(list.all)
        /\ \A i \in 1..Len(list.rows) : list.rows[i] = list.all[i]
        /\ list.more \in BOOLEAN /\ (list.more <=> Len(list.rows) < Len(list.all))
    BY <1>1 DEF PlacesInv, Place, Begins
  <2> DEFINE rows == list.rows
             all == list.all
             n == Len(rows)
             front == SubSeq(all, 1, n)
  <2>2. n \in 0..Len(all) /\ \A i \in 1..n : all[i] \in Events
    BY <2>1, LenProperties, ElementOfSeq
  <2>3. front \in Seq(Events) /\ Len(front) = n /\ \A i \in 1..n : front[i] = all[i]
    BY <2>2, SubSeqProperties
  <2>4. rows \in Seq(Events) /\ Len(rows) = n /\ \A i \in 1..n : rows[i] = all[i]
    BY <2>1
  <2> HIDE DEF rows, all, front
  <2>5. rows = front
    BY <2>3, <2>4, SeqEqual
  <2>6. RowsOfChosen
    BY <1>1 DEF ListInv
  <2> QED BY <2>1, <2>5, <2>6 DEF ListIsPrefix, rows, all, front
<1> QED BY <1>1, PlacesInvariant, PTL

(* A reload under the same filter keeps as many rows as were loaded, or    *)
(* all that match (refresh, loadEvents and fetchEventPages in app.ts).     *)
THEOREM ReloadsKeepRows == ListSpec => RowsKept
<1>1. ListInv /\ PlacesInv /\ [ListNext]_<<pageVars, listVars>> =>
        [ list.loaded /\ list'.loaded /\ list'.filter = list.filter /\ ~FirstPageShown
          => Len(list'.rows) >= Smaller(Len(list.rows), Len(list'.all)) ]_list
  BY ListStepPlaces DEF KeepsRows
<1> QED BY <1>1, PlacesInvariant, PTL DEF ListSpec, RowsKept
=============================================================================
