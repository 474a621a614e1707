----------------------------- MODULE EventList ------------------------------
(***************************************************************************)
(* The event list of the console (frontend/src/app.ts) against the Hub's   *)
(* snapshots: the filter the operator selects, the rows on the page, and   *)
(* the calls in flight.  The 15 second refresh, "load more", a change of   *)
(* filter, an acknowledgement, a lost session and a new login overlap, and *)
(* an answer meets a page that moved on.                                   *)
(*                                                                         *)
(* sessionGeneration and eventsRequestSeq are only compared for equality   *)
(* with the value a call captured, so each call carries whether it still   *)
(* is of the present session ("live") and of the present sequence number   *)
(* ("owner") instead.                                                      *)
(***************************************************************************)
EXTENDS EventPages, FiniteSets

CONSTANTS
  Slots,        \* calls that can be in flight at once
  PageSize,     \* eventsPageSize
  DefaultFilter, \* every host, ongoing
  Hosts,        \* the hosts a Hub may have configured
  MaxMoves      \* bound on what the operator and the timer start

(* The two controls are independent, and one can always ask for all hosts. *)
AllHosts(filter) == [filter EXCEPT !.host = ""]

ASSUME ListAssumption ==
  /\ PageSize \in 1..MaxPage /\ DefaultFilter \in Filters /\ MaxMoves \in Nat
  /\ \A f \in Filters : AllHosts(f) \in Filters

VARIABLES
  authed,       \* authed
  selected,     \* the two filter controls
  options,      \* the hosts the control offers, as it was drawn last
  hosts,        \* state.agents
  list,         \* state.events; all and filter are what the Hub froze
  dataFilter,   \* eventsDataFilter
  loadingMore, loadingFirst, refreshing,
  calls,        \* Slots -> a call
  moves

selector == <<selected, options, hosts>>
listVars == <<authed, selector, list, dataFilter, loadingMore, loadingFirst, refreshing, calls, moves>>

Empty == [rows |-> <<>>, token |-> NoToken, all |-> <<>>, more |-> FALSE, loaded |-> FALSE, filter |-> DefaultFilter]
Idle == [kind |-> "idle"]
Larger(a, b) == IF a > b THEN a ELSE b
Smaller(a, b) == IF a > b THEN b ELSE a
Busy == {c \in Slots : calls[c] # Idle}

Request(filter, limit, token, after) ==
  [filter |-> filter, limit |-> limit, token |-> token, after |-> after]

(* got is what fetchEventPages has collected, answer what the Hub said.    *)
Call(kind, query, target) ==
  [kind |-> kind, live |-> TRUE, owner |-> TRUE, query |-> query, target |-> target,
   got |-> <<>>, answer |-> Blank("none")]

ListInit ==
  /\ PagesInit
  /\ authed = FALSE
  /\ selected \in {f \in Filters : f.host = ""} /\ options = {} /\ hosts = {}
  /\ list = Empty /\ dataFilter = DefaultFilter
  /\ loadingMore = FALSE /\ loadingFirst = FALSE /\ refreshing = FALSE
  /\ calls = [c \in Slots |-> Idle]
  /\ moves = 0
-----------------------------------------------------------------------------
(* eventsRequestSeq += 1, and sessionGeneration += 1 with it.              *)
Bumped == [c \in Slots |-> IF c \in Busy THEN [calls[c] EXCEPT !.owner = FALSE] ELSE Idle]
Left == [c \in Slots |-> IF c \in Busy THEN [calls[c] EXCEPT !.owner = FALSE, !.live = FALSE] ELSE Idle]

(* fetchEventPages: whole pages until the target is reached.               *)
NextLimit(target, got) == Smaller(MaxPage, Larger(PageSize, target - Len(got)))
Fetch(kind, filter, target) ==
  Call(kind, Request(filter, NextLimit(target, <<>>), NoToken, NoEvent), target)

(* syncEventAgentSelect, part of every drawing of the page: one option per *)
(* known host, and all hosts if the selected one is not among them.        *)
Draw(filter, known) ==
  /\ selected' = IF filter.host \in known \cup {""} THEN filter ELSE AllHosts(filter)
  /\ options' = known

(* Mutant: a reload asks for one page.                                     *)
OnePageTarget == PageSize

(* The rows a reload asks for: as many as are loaded.                      *)
LoadedTarget == Larger(PageSize, Len(list.rows))

(* Mutant: a refresh leaves the loading flags to the call it overtakes.    *)
RefreshKeepingFlags(c, inFlight) ==
  /\ calls' = [inFlight EXCEPT ![c] = Fetch("refresh", selected,
                                            IF dataFilter = selected THEN LoadedTarget ELSE PageSize)]
  /\ refreshing' = TRUE
  /\ UNCHANGED <<selector, list, dataFilter, loadingMore, loadingFirst>>

(* refresh(): the timer, the button, a tab that becomes visible, a login.  *)
Refresh(c, inFlight) ==
  /\ calls' = [inFlight EXCEPT ![c] = Fetch("refresh", selected,
                                            IF dataFilter = selected THEN LoadedTarget ELSE PageSize)]
  /\ loadingMore' = FALSE /\ loadingFirst' = FALSE /\ refreshing' = TRUE
  /\ UNCHANGED <<selector, list, dataFilter>>

StartRefresh(c) ==
  /\ authed /\ ~refreshing /\ c \notin Busy
  /\ Refresh(c, Bumped)
  /\ UNCHANGED <<authed, pageVars>>

(* login(): the refresh is skipped while one of the old session is out.    *)
Login(c) ==
  /\ ~authed /\ c \notin Busy
  /\ authed' = TRUE
  /\ IF refreshing
     THEN calls' = Left /\ UNCHANGED <<selector, list, dataFilter, loadingMore, loadingFirst, refreshing>>
     ELSE Refresh(c, Left)
  /\ UNCHANGED pageVars

(* Mutant: the rows stay until those of the new filter are there.          *)
KeepRows(f) == UNCHANGED <<list, dataFilter>>

(* The rows of another filter are dropped before the request goes out.     *)
DropRows(f) ==
  IF dataFilter = f THEN UNCHANGED <<list, dataFilter>> ELSE list' = Empty /\ dataFilter' = f

(* loadEvents() for the filter f: after a change of filter ("select") only *)
(* its first page, after an acknowledgement ("load") all that was loaded.  *)
LoadFirst(c, kind, f) ==
  /\ calls' = [Bumped EXCEPT ![c] =
       Fetch(kind, f, IF kind = "load" /\ dataFilter = f THEN LoadedTarget ELSE PageSize)]
  /\ loadingMore' = FALSE /\ loadingFirst' = TRUE
  /\ DropRows(f)
  /\ Draw(f, hosts) /\ UNCHANGED hosts

(* The operator changes one of the two controls.                           *)
SelectFilter(c, f) ==
  /\ authed /\ c \notin Busy
  /\ f # selected /\ f.host \in options \cup {""}
  /\ f.host = selected.host \/ f.state = selected.state
  /\ LoadFirst(c, "select", f)
  /\ UNCHANGED <<authed, refreshing, pageVars>>

(* The "load more" button: renderEvents shows it, loadEvents checks again. *)
LoadMore(c) ==
  /\ authed /\ c \notin Busy
  /\ list.loaded /\ ~loadingFirst /\ ~loadingMore /\ dataFilter = selected
  /\ list.more /\ list.token # NoToken /\ list.rows # <<>>
  /\ calls' = [Bumped EXCEPT ![c] = Call("more", Request(selected, PageSize, list.token, Last(list.rows)), 0)]
  /\ loadingMore' = TRUE
  /\ UNCHANGED <<authed, selector, list, dataFilter, loadingFirst, refreshing, pageVars>>

(* The button of a row, whose state on the page may be an older one.       *)
AcknowledgeEvent(c, e) ==
  /\ authed /\ c \notin Busy /\ e \in ToSet(list.rows)
  /\ calls' = [calls EXCEPT ![c] = Call("ack", Request(selected, 0, NoToken, e), 0)]
  /\ UNCHANGED <<authed, selector, list, dataFilter, loadingMore, loadingFirst, refreshing, pageVars>>

(* expireSession(): any request of the session was answered 401, or the    *)
(* operator logged out.                                                    *)
ExpireSession(inFlight) ==
  /\ authed /\ authed' = FALSE
  /\ calls' = inFlight
  /\ list' = Empty /\ dataFilter' = DefaultFilter
  /\ loadingMore' = FALSE /\ loadingFirst' = FALSE
  /\ hosts' = {} /\ UNCHANGED <<selected, options>>

LoseSession == ExpireSession(Left) /\ UNCHANGED <<refreshing, pageVars>>

(* probeWebLinks() draws the page again when its answer is there.          *)
RedrawPage ==
  /\ authed /\ Draw(selected, hosts)
  /\ UNCHANGED <<authed, hosts, list, dataFilter, loadingMore, loadingFirst, refreshing, calls, pageVars>>
-----------------------------------------------------------------------------
(* The Hub answers a call, or the request fails.  An answer 401 is         *)
(* LoseSession followed by whatever answer.  Snapshot ids are random and   *)
(* are not drawn twice.                                                    *)
Known == {list.token} \cup {s.token : s \in ToSet(snapshots)}
         \cup UNION {{calls[c].query.token, calls[c].answer.token} : c \in Busy}

Answered(c, answer) == calls' = [calls EXCEPT ![c].answer = answer]

Answer(c) ==
  LET query == calls[c].query
  IN /\ c \in Busy /\ calls[c].answer.status = "none"
     /\ \/ Answered(c, Blank("failed")) /\ UNCHANGED pageVars
        \/ /\ calls[c].kind = "ack"
           /\ \E answer \in {Blank("ok"), Blank("failed")} :
                Acknowledge(query.after, answer) /\ Answered(c, answer)
        \/ /\ calls[c].kind # "ack" /\ Tokens \ Known # {}
           /\ LET fresh == CHOOSE token \in Tokens : token \notin Known
              IN FirstPage(query, fresh) /\ Answered(c, Page(query, Last(snapshots')))
        \/ /\ calls[c].kind # "ack" /\ query.token # NoToken
           /\ \E answer \in LaterPages(query) : Answered(c, answer)
           /\ UNCHANGED pageVars
     /\ UNCHANGED <<authed, selector, list, dataFilter, loadingMore, loadingFirst, refreshing>>
-----------------------------------------------------------------------------
(* The browser takes an answer.                                            *)
Done(c) == [calls EXCEPT ![c] = Idle]
New(got, ids) == Kept(ids, Events \ ToSet(got))
Rows(rows, answer, filter) ==
  [rows |-> rows, token |-> answer.token, all |-> answer.all, more |-> answer.more, loaded |-> TRUE, filter |-> filter]

Arrives(c, statuses) == c \in Busy /\ calls[c].answer.status \in statuses
Present(c) == calls[c].live /\ calls[c].owner

(* A page was collected and the target asks for another one.               *)
Collected(c) == calls[c].got \o New(calls[c].got, calls[c].answer.ids)
MorePages(c) ==
  /\ calls[c].answer.more /\ calls[c].answer.ids # <<>>
  /\ Len(Collected(c)) < calls[c].target

FetchNext(c) ==
  /\ Arrives(c, {"ok"}) /\ calls[c].kind \in {"refresh", "select", "load"}
  /\ Present(c) /\ MorePages(c)
  /\ calls' = [calls EXCEPT
       ![c].got = Collected(c),
       ![c].query = Request(@.filter, NextLimit(calls[c].target, Collected(c)), calls[c].answer.token,
                            Last(calls[c].answer.ids)),
       ![c].answer = Blank("none")]
  /\ UNCHANGED <<authed, selector, list, dataFilter, loadingMore, loadingFirst, refreshing, pageVars>>

(* The pages of a refresh are complete, or it lost its place; the other    *)
(* requests of the refresh are still out.                                  *)
FetchEnds(c) ==
  /\ Arrives(c, {"ok", "failed"}) /\ calls[c].kind = "refresh"
  /\ ~(calls[c].answer.status = "ok" /\ Present(c) /\ MorePages(c))
  /\ calls' = [calls EXCEPT ![c] =
       IF calls[c].answer.status = "ok" /\ Present(c)
       THEN [@ EXCEPT !.got = Collected(c), !.answer.status = "complete"]
       ELSE [@ EXCEPT !.got = <<>>, !.answer = Blank("useless")]]
  /\ UNCHANGED <<authed, selector, list, dataFilter, loadingMore, loadingFirst, refreshing, pageVars>>

(* The hosts of a refresh, or those of before if that request failed.      *)
FinishRefresh(c) ==
  /\ Arrives(c, {"complete", "useless"})
  /\ calls' = Done(c) /\ refreshing' = FALSE
  /\ IF Present(c) /\ selected = calls[c].query.filter /\ calls[c].answer.status = "complete"
     THEN /\ list' = Rows(calls[c].got, calls[c].answer, calls[c].query.filter)
          /\ dataFilter' = calls[c].query.filter
          /\ loadingFirst' = FALSE
     ELSE UNCHANGED <<list, dataFilter, loadingFirst>>
  /\ IF calls[c].live
     THEN /\ hosts' \in {hosts} \cup SUBSET Hosts
          /\ Draw(selected, hosts')
     ELSE UNCHANGED selector
  /\ UNCHANGED <<authed, loadingMore, pageVars>>

FinishLoad(c) ==
  /\ Arrives(c, {"ok", "failed"}) /\ calls[c].kind \in {"select", "load"}
  /\ ~(calls[c].answer.status = "ok" /\ Present(c) /\ MorePages(c))
  /\ calls' = Done(c)
  /\ IF calls[c].answer.status = "ok" /\ Present(c) /\ selected = calls[c].query.filter
     THEN /\ list' = Rows(Collected(c), calls[c].answer, selected)
          /\ dataFilter' = selected
     ELSE UNCHANGED <<list, dataFilter>>
  /\ IF Present(c) /\ selected = calls[c].query.filter THEN Draw(selected, hosts)
     ELSE UNCHANGED <<selected, options>>
  /\ loadingFirst' = (loadingFirst /\ ~Present(c))
  /\ UNCHANGED <<authed, hosts, loadingMore, refreshing, pageVars>>

(* The page goes on where the rows end.                                    *)
Continues(c) ==
  /\ calls[c].answer.status = "ok" /\ Present(c)
  /\ selected = calls[c].query.filter /\ dataFilter = selected
  /\ calls[c].answer.token = calls[c].query.token

FinishMore(c) ==
  /\ Arrives(c, {"ok", "failed"}) /\ calls[c].kind = "more"
  /\ calls' = Done(c)
  /\ IF Continues(c)
     THEN list' = Rows(list.rows \o New(list.rows, calls[c].answer.ids), calls[c].answer, selected)
     ELSE UNCHANGED list
  /\ IF Continues(c) \/ (calls[c].answer.status = "failed" /\ Present(c) /\ selected = calls[c].query.filter)
     THEN Draw(selected, hosts)
     ELSE UNCHANGED <<selected, options>>
  /\ loadingMore' = (loadingMore /\ ~Present(c))
  /\ UNCHANGED <<authed, hosts, dataFilter, loadingFirst, refreshing, pageVars>>

FinishAcknowledge(c) ==
  /\ Arrives(c, {"ok", "failed"}) /\ calls[c].kind = "ack"
  /\ IF calls[c].answer.status = "ok" /\ calls[c].live
     THEN LoadFirst(c, "load", selected)
     ELSE calls' = Done(c) /\ UNCHANGED <<selector, list, dataFilter, loadingMore, loadingFirst>>
  /\ UNCHANGED <<authed, refreshing, pageVars>>
-----------------------------------------------------------------------------
Move == moves < MaxMoves /\ moves' = moves + 1

ListNext ==
  \/ EventsStep /\ UNCHANGED listVars
  \/ /\ Move
     /\ \/ LoseSession
        \/ \E c \in Slots : StartRefresh(c) \/ Login(c) \/ LoadMore(c)
        \/ \E c \in Slots, f \in Filters : SelectFilter(c, f)
        \/ \E c \in Slots, e \in Events : AcknowledgeEvent(c, e)
  \/ RedrawPage /\ UNCHANGED moves
  \/ /\ UNCHANGED moves
     /\ \E c \in Slots :
          \/ Answer(c)
          \/ FetchNext(c) \/ FetchEnds(c) \/ FinishRefresh(c) \/ FinishLoad(c) \/ FinishMore(c)
          \/ FinishAcknowledge(c)

ListSpec == ListInit /\ [][ListNext]_<<pageVars, listVars>>
-----------------------------------------------------------------------------
(* The rows on the page are those of the filter that is selected, as       *)
(* docs/web-console.md says of them ("binds the visible rows to the        *)
(* current filter").  It fails: a drawing that does not find the selected  *)
(* host among the known ones selects all hosts and leaves the rows.        *)
RowsOfSelected == list.loaded => dataFilter = selected /\ list.filter = selected

(* They are those of the filter that was asked for, which is the selected  *)
(* one up to its host: no late answer puts the rows of another filter on   *)
(* the page, nor those of another lifecycle state.                         *)
RowsOfChosen ==
  list.loaded => list.filter = dataFilter /\ selected \in {dataFilter, AllHosts(dataFilter)}

(* The rows on the page are a beginning of one list the Hub froze for the  *)
(* filter they were asked for: nothing is skipped or shown twice however   *)
(* the events change between two pages, and "load more" is offered only    *)
(* while the list goes on.                                                 *)
ListIsPrefix ==
  /\ list.rows = SubSeq(list.all, 1, Len(list.rows))
  /\ list.more <=> Len(list.rows) < Len(list.all)
  /\ RowsOfChosen

(* Only a drawing that misses the selected host parts the rows from the    *)
(* filter that is selected: neither a change of filter nor an answer, a    *)
(* failure or an acknowledgement that comes late does.                     *)
RowsLeaveFilter ==
  [][ RowsOfSelected /\ ~RowsOfSelected' => list'.filter.host \notin options' \cup {""}
    ]_<<list, dataFilter, selected>>

(* A flag that hides the buttons of the page belongs to a call that will   *)
(* clear it: no interleaving leaves the list loading for ever.             *)
BusyHasOwner ==
  /\ loadingMore => \E c \in Busy : calls[c].kind = "more" /\ Present(c)
  /\ loadingFirst => \E c \in Busy : calls[c].kind \in {"select", "load"} /\ Present(c)
  /\ refreshing => \E c \in Busy : calls[c].kind = "refresh"

(* The first page after a change of filter, which resets the paging.       *)
FirstPageShown == \E c \in Busy : calls[c].kind = "select" /\ calls'[c] = Idle

(* A refresh, or the reload after an acknowledgement, keeps the records    *)
(* the operator had loaded, as far as that many still match the filter.    *)
RowsKept ==
  [][ list.loaded /\ list'.loaded /\ list'.filter = list.filter /\ ~FirstPageShown
      => Len(list'.rows) >= Smaller(Len(list.rows), Len(list'.all)) ]_list
=============================================================================
