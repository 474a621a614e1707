----------------------------- MODULE LinkProbes -----------------------------
(***************************************************************************)
(* The check of the registered Web links: the links the Hub's view of the  *)
(* services registers, POST /api/link-checks with its lock, its pool of    *)
(* probes and its time budget, and the stored result set that every page   *)
(* reads.  Links, routes and answers are data.                             *)
(***************************************************************************)
EXTENDS Integers, FiniteSets

CONSTANTS
  Services, Urls, NoUrl, \* services with links, and the URLs they can have
  Views,                 \* what the Hub can know of one: its routes, annotation, guess
  MaxTargets,            \* maxWebLinkProbeTargets
  Concurrency,           \* webLinkProbeConcurrency
  Requests,              \* POST requests, each sent once
  MaxViews               \* bound on changes of the services and annotations

Targets == Services \X Urls
States == {"reachable", "degraded", "unreachable"}

ASSUME ProbeAssumption ==
  /\ Views \subseteq [routes : SUBSET Urls, annotation : Urls \cup {NoUrl}, guess : Urls \cup {NoUrl}]
  /\ NoUrl \notin Urls /\ "free" \notin Requests
  /\ MaxTargets \in Nat /\ Concurrency \in Nat \ {0} /\ MaxViews \in Nat

VARIABLES
  views,       \* what the Hub knows of each service: proxy routes, annotation, port
  probeMu,     \* the request that holds the lock, or none
  requests,    \* Requests -> stage, targets, result per target, whether the browser waits
  checks,      \* web_link_checks: [target, state, by]
  changed

probeVars == <<views, probeMu, requests, checks, changed>>

Fresh == [stage |-> "new", targets |-> {}, result |-> [t \in Targets |-> "none"], waiting |-> TRUE, budget |-> TRUE]

ProbeInit ==
  /\ views \in [Services -> Views]
  /\ probeMu = "free"
  /\ requests = [r \in Requests |-> Fresh]
  /\ checks = {} /\ changed = 0
-----------------------------------------------------------------------------
(* JoinServices and currentWebLinkTargets: a service links to its routes   *)
(* and to its annotation; only without both is a URL guessed from a port.  *)
Links(s) ==
  LET v == views[s]
  IN v.routes \cup IF v.annotation # NoUrl THEN {v.annotation}
                   ELSE IF v.routes = {} THEN {v.guess} \ {NoUrl} ELSE {}

CurrentWebLinkTargets == {t \in Targets : t[2] \in Links(t[1])}

(* A scrape or an annotation changes the view.                             *)
ChangeView(s) ==
  /\ changed < MaxViews /\ changed' = changed + 1
  /\ \E v \in Views : views' = [views EXCEPT ![s] = v]
  /\ UNCHANGED <<probeMu, requests, checks>>
-----------------------------------------------------------------------------
(* POST: refused while another one runs, and for too many links.           *)
StartProbe(r) ==
  /\ requests[r].stage = "new"
  /\ IF probeMu # "free" \/ Cardinality(CurrentWebLinkTargets) > MaxTargets
     THEN requests' = [requests EXCEPT ![r].stage = "refused"] /\ UNCHANGED probeMu
     ELSE /\ probeMu' = r
          /\ requests' = [requests EXCEPT ![r] = [@ EXCEPT
               !.stage = "probing", !.targets = CurrentWebLinkTargets,
               !.result = [t \in Targets |-> IF t \in CurrentWebLinkTargets THEN "queued" ELSE "none"]]]
  /\ UNCHANGED <<views, checks, changed>>

Result(r, t, state) == requests' = [requests EXCEPT ![r].result[t] = state]
Probing(r) == {t \in Targets : requests[r].result[t] = "probing"}
Ended(r) == ~requests[r].budget \/ ~requests[r].waiting

(* One goroutine per target: a place in the pool, or the end of the        *)
(* context, whichever the select takes.                                    *)
Acquire(r, t) ==
  /\ requests[r].result[t] = "queued" /\ Cardinality(Probing(r)) < Concurrency
  /\ Result(r, t, "probing")
  /\ UNCHANGED <<views, probeMu, checks, changed>>

GiveUp(r, t) ==
  /\ requests[r].result[t] = "queued" /\ Ended(r)
  /\ Result(r, t, "unreachable")
  /\ UNCHANGED <<views, probeMu, checks, changed>>

(* probeOne: an answer below 500, one above, or no answer.                 *)
ProbeOne(r, t) ==
  /\ requests[r].result[t] = "probing"
  /\ \E state \in States : (Ended(r) => state = "unreachable") /\ Result(r, t, state)
  /\ UNCHANGED <<views, probeMu, checks, changed>>

(* The 15 seconds are over; the browser goes away.                         *)
BudgetEnds(r) ==
  /\ requests[r].stage = "probing" /\ requests[r].budget
  /\ requests' = [requests EXCEPT ![r].budget = FALSE]
  /\ UNCHANGED <<views, probeMu, checks, changed>>

BrowserLeaves(r) ==
  /\ requests[r].stage = "probing" /\ requests[r].waiting
  /\ requests' = [requests EXCEPT ![r].waiting = FALSE]
  /\ UNCHANGED <<views, probeMu, checks, changed>>

(* Mutant: the checks of links that went away stay.                        *)
UpsertWebLinkChecks(r) ==
  /\ requests[r].stage = "probing"
  /\ \A t \in requests[r].targets : requests[r].result[t] \in States
  /\ \/ /\ requests[r].waiting
        /\ checks' = {c \in checks : c.target \notin requests[r].targets} \cup
                     {[target |-> t, state |-> requests[r].result[t], by |-> r] : t \in requests[r].targets}
     \/ UNCHANGED checks
  /\ probeMu' = "free"
  /\ requests' = [requests EXCEPT ![r].stage = "answered", ![r].result = [t \in Targets |-> "none"]]
  /\ UNCHANGED <<views, changed>>

(* wait.Wait() returned; one transaction replaces the whole set, under the *)
(* context of the request, and may fail.                                   *)
ReplaceWebLinkChecks(r) ==
  /\ requests[r].stage = "probing"
  /\ \A t \in requests[r].targets : requests[r].result[t] \in States
  /\ \/ /\ requests[r].waiting
        /\ checks' = {[target |-> t, state |-> requests[r].result[t], by |-> r] : t \in requests[r].targets}
     \/ UNCHANGED checks
  /\ probeMu' = "free"
  /\ requests' = [requests EXCEPT ![r].stage = "answered", ![r].result = [t \in Targets |-> "none"]]
  /\ UNCHANGED <<views, changed>>

ProbeNext ==
  \/ \E s \in Services : ChangeView(s)
  \/ \E r \in Requests :
       \/ StartProbe(r) \/ BudgetEnds(r) \/ BrowserLeaves(r) \/ ReplaceWebLinkChecks(r)
       \/ \E t \in Targets : Acquire(r, t) \/ GiveUp(r, t) \/ ProbeOne(r, t)

ProbeSpec == ProbeInit /\ [][ProbeNext]_probeVars
-----------------------------------------------------------------------------
(* The stored record is one probe's, whole: every link that was registered *)
(* when it began and no other, whatever changed, timed out or was refused  *)
(* meanwhile; and the Hub never has more probes out than the pool allows.  *)
ProbeRecordWhole ==
  /\ \A c, d \in checks : c.by = d.by /\ (c.target = d.target => c = d)
  /\ \A c \in checks : {d.target : d \in checks} = requests[c.by].targets
  /\ Cardinality({p \in Requests \X Targets : p[2] \in Probing(p[1])}) <= Concurrency
=============================================================================
