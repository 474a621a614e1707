----------------------------- MODULE EventRules -----------------------------
(***************************************************************************)
(* Which risks of one host the Hub believes in.  The host really has       *)
(* gauges, workloads and wildcard listeners; the Agent's collectors see    *)
(* them or fail; the scraper turns the answers into an observation, the    *)
(* rules turn the observation and the stored state into signals, and the   *)
(* transaction leaves exactly the signalled events unresolved.             *)
(*                                                                         *)
(* A scrape is one step: what it reads under eventMu is what it replaces,  *)
(* and one host is scraped by one call at a time.  A scrape whose          *)
(* transaction fails changes nothing, which is a stuttering step.          *)
(***************************************************************************)
EXTENDS Integers

CONSTANTS
  Gauges,            \* memory, root disk, load per CPU, SSH failures
  Top, OpenAt, ClearAt, \* readings are 0..Top; an event opens and clears at these
  Workloads,
  Source,            \* the collector that finds each workload
  Listeners,         \* wildcard endpoints
  MaxCrashes         \* bound on crashes of the Hub

Collectors == {"docker", "systemd", "ss"}

ASSUME RulesAssumption ==
  /\ Top \in Nat /\ OpenAt \in 0..Top /\ ClearAt \in 0..Top /\ ClearAt <= OpenAt
  /\ Source \in [Workloads -> {"docker", "systemd"}]
  /\ MaxCrashes \in Nat

VARIABLES
  host,          \* the host as it is
  up,            \* the Hub: down, started (nothing scraped yet), running
  active,        \* keys of the unresolved events
  previous,      \* the latest stored observation
  history,       \* listeners of the latest complete stored observation, if any
  baseline, established, \* the listener baseline and whether it was established
  known,         \* history: listeners of the last complete observation ever stored
  steady,        \* history: those that have been listening ever since
  offlineSince,  \* history: the host was seen offline since then
  crashes

memory == <<known, steady, offlineSince>>
vars == <<host, up, active, previous, history, baseline, established, memory, crashes>>

Offline == <<"host", "offline">>
Gauge(g) == <<"gauge", g>>
Failed(w) == <<"workload", w>>
Added(l) == <<"listener", l>>
GaugeKeys == {Gauge(g) : g \in Gauges}
FailedKeys == {Failed(w) : w \in Workloads}
AddedKeys == {Added(l) : l \in Listeners}
Keys == {Offline} \cup GaugeKeys \cup FailedKeys \cup AddedKeys

(* What can go wrong with a workload: a unit fails, a container's health   *)
(* check fails.                                                            *)
Conditions(w) == IF Source[w] = "systemd" THEN {"ok", "failed"} ELSE {"ok", "unhealthy"}

Hosts == [level: [Gauges -> 0..Top],
          condition: {c \in [Workloads -> {"ok", "failed", "unhealthy"}] :
                        \A w \in Workloads : c[w] \in Conditions(w)},
          wild: SUBSET Listeners]
-----------------------------------------------------------------------------
(* A database of an earlier release may hold a complete observation, or    *)
(* baseline keys without the mark that they are established.               *)
Init ==
  /\ host \in Hosts
  /\ up = "down"
  /\ active = {}
  /\ established = FALSE
  /\ \E past \in SUBSET Listeners :
       \/ history = {} /\ baseline \in {{}, past}
       \/ history = {past} /\ baseline \in {{}, past}
  /\ previous = IF history = {} THEN "none" ELSE "complete"
  /\ known = (UNION history) \cup baseline
  /\ steady = known \cap host.wild
  /\ offlineSince = FALSE
  /\ crashes = 0
-----------------------------------------------------------------------------
(* The scrape.                                                             *)

(* What Discover reports of a workload whose collector answered: the unit  *)
(* state, or the container state without its health.                       *)
ReportsFailed(w) == host.condition[w] = "failed"

(* What the Agent answers: the gauges read, whether /v1/services answered, *)
(* the collectors that failed, the listeners seen.  With the Docker or the *)
(* socket collector down, some are not seen or lose the owner that would   *)
(* carry them.                                                             *)
Answers ==
  {a \in [gauges : SUBSET Gauges, services : BOOLEAN, down : SUBSET Collectors,
          visible : SUBSET host.wild] :
     /\ ~a.services => a.down = {} /\ a.visible = {}
     /\ a.services /\ a.down \cap {"docker", "ss"} = {} => a.visible = host.wild}

(* What scrapeOne puts together.  A gauge that could not be read is not in *)
(* the domain of "readings"; "services" is false when /v1/services failed. *)
Online(a) ==
  [online |-> TRUE,
   readings |-> [g \in a.gauges |-> host.level[g]],
   services |-> a.services,
   down |-> a.down,
   failed |-> IF a.services THEN {w \in Workloads : Source[w] \notin a.down /\ ReportsFailed(w)} ELSE {},
   wild |-> a.visible]

Unreachable == [online |-> FALSE, readings |-> <<>>, services |-> FALSE,
                down |-> {}, failed |-> {}, wild |-> {}]

Observations == {Unreachable} \cup {Online(a) : a \in Answers}

(* Mutant: a failed docker ps does not make the listeners incomplete.      *)
ListenersMissingSocketsOnly(o) == ~o.services \/ "ss" \in o.down
ListenersMissing(o) == ~o.services \/ o.down \cap {"docker", "ss"} # {}

Complete(o) == o.online /\ ~ListenersMissing(o)

(* A missing gauge keeps its event; a reading opens one at OpenAt and      *)
(* keeps it down to ClearAt.                                               *)
GaugeSignals(o) ==
  {Gauge(g) : g \in {h \in Gauges :
     IF h \in DOMAIN o.readings
     THEN o.readings[h] >= OpenAt \/ (Gauge(h) \in active /\ o.readings[h] >= ClearAt)
     ELSE Gauge(h) \in active}}

WorkloadMissing(o, w) == ~o.services \/ Source[w] \in o.down

(* Mutant: a workload event once open is always carried.                   *)
WorkloadSignalsSticky(o) ==
  {Failed(w) : w \in {v \in Workloads : Failed(v) \in active \/ v \in o.failed}}

(* A workload whose collector failed keeps its event.                      *)
WorkloadSignals(o) ==
  {Failed(w) : w \in {v \in Workloads :
     IF WorkloadMissing(o, v) THEN Failed(v) \in active ELSE v \in o.failed}}

WasOnline == previous \in {"partial", "complete"}

(* Mutant: the first complete set after a partial one is taken as known.   *)
EstablishingAfterPartial(o) == Complete(o) /\ (~established \/ previous # "complete")
Establishing(o) == Complete(o) /\ (~established \/ ~WasOnline)

(* A listener event is carried while the set is incomplete; the first set  *)
(* and the first one after an outage only keep events; otherwise a         *)
(* listener that is in no established baseline is new.                     *)
ListenerSignals(o) ==
  {Added(l) : l \in {k \in Listeners :
     \/ ListenersMissing(o) /\ Added(k) \in active
     \/ ListenersMissing(o) /\ established /\ k \in o.wild /\ k \notin baseline
     \/ k \in o.wild /\ ~ListenersMissing(o) /\ Added(k) \in active
     \/ k \in o.wild /\ ~ListenersMissing(o) /\ ~Establishing(o) /\ k \notin baseline}}

(* evaluateEventSignals.                                                   *)
Signals(o) ==
  IF o.online THEN GaugeSignals(o) \cup WorkloadSignals(o) \cup ListenerSignals(o)
  ELSE active \cup {Offline}

(* Mutant: every online observation replaces the baseline.                 *)
ReplacesBaselineOnline(o) == o.online
ReplacesBaseline(o) == Complete(o)

Remember(o) ==
  IF Complete(o) THEN known' = o.wild /\ steady' = o.wild /\ offlineSince' = FALSE
  ELSE offlineSince' = (offlineSince \/ ~o.online) /\ UNCHANGED <<known, steady>>

(* Update: the observation, the events and the baseline in one transaction.*)
Record(o) ==
  /\ up # "down"
  /\ up' = "running"
  /\ active' = Signals(o)
  /\ previous' = CASE ~o.online -> "offline" [] Complete(o) -> "complete" [] OTHER -> "partial"
  /\ history' = IF Complete(o) THEN {o.wild} ELSE history
  /\ baseline' = IF ReplacesBaseline(o) THEN o.wild ELSE baseline
  /\ established' = (established \/ ReplacesBaseline(o))
  /\ Remember(o)
  /\ UNCHANGED <<host, crashes>>

Scrape == \E o \in Observations : Record(o)

CompleteScrape == \E o \in Observations : DOMAIN o.readings = Gauges /\ o.services /\ o.down = {}
                                          /\ Record(o)
-----------------------------------------------------------------------------
(* The host changes one fact at a time, seen or not.                       *)
HostChange ==
  /\ \/ \E g \in Gauges, n \in 0..Top : host' = [host EXCEPT !.level[g] = n]
     \/ \E w \in Workloads : \E c \in Conditions(w) : host' = [host EXCEPT !.condition[w] = c]
     \/ \E l \in Listeners : \/ host' = [host EXCEPT !.wild = @ \cup {l}]
                             \/ host' = [host EXCEPT !.wild = @ \ {l}]
  /\ steady' = steady \cap host'.wild
  /\ UNCHANGED <<up, active, previous, history, baseline, established, known, offlineSince,
                 crashes>>

Backfilled == IF established \/ baseline # {} THEN baseline ELSE UNION history

(* backfillListenerBaselines when the store opens: migrated keys first,    *)
(* then the latest complete observation that is still stored.              *)
Start ==
  /\ up = "down"
  /\ up' = "started"
  /\ established' = (established \/ baseline # {} \/ history # {})
  /\ baseline' = Backfilled
  /\ UNCHANGED <<host, active, previous, history, memory, crashes>>

Crash ==
  /\ up # "down" /\ crashes < MaxCrashes
  /\ up' = "down"
  /\ crashes' = crashes + 1
  /\ UNCHANGED <<host, active, previous, history, baseline, established, memory>>

(* PruneObservations: the latest observation is old enough to go only if   *)
(* nothing was scraped since the Hub started; an older complete one goes   *)
(* after a month of incomplete ones.                                       *)
Prune ==
  /\ history' = {}
  /\ \/ up = "started" /\ previous' = "none"
     \/ up # "down" /\ previous # "complete" /\ UNCHANGED previous
  /\ UNCHANGED <<host, up, active, baseline, established, memory, crashes>>

Next == HostChange \/ Scrape \/ Start \/ Crash \/ Prune

Spec == Init /\ [][Next]_vars

(* The ticker scrapes for ever and systemd restarts the Hub; that an Agent *)
(* whose host stays as it is answers completely now and then is assumed.   *)
FairSpec == Spec /\ WF_vars(Start) /\ WF_vars(CompleteScrape)
-----------------------------------------------------------------------------
(* Stored state has the shape of its tables.                               *)
TypeOK ==
  /\ host \in Hosts
  /\ up \in {"down", "started", "running"}
  /\ active \subseteq Keys
  /\ previous \in {"none", "offline", "partial", "complete"}
  /\ history \subseteq SUBSET Listeners
  /\ baseline \subseteq Listeners /\ established \in BOOLEAN
  /\ known \subseteq Listeners /\ steady \subseteq Listeners
  /\ offlineSince \in BOOLEAN
  /\ crashes \in 0..MaxCrashes

(* The conditions under which the event of a key may not be resolved, and  *)
(* those under which it may be opened.                                     *)
Persists(k) ==
  \/ \E g \in Gauges : k = Gauge(g) /\ host.level[g] >= ClearAt
  \/ \E w \in Workloads : k = Failed(w) /\ host.condition[w] # "ok"
  \/ \E l \in host.wild : k = Added(l)

Arises(k) ==
  \/ \E g \in Gauges : k = Gauge(g) /\ host.level[g] >= OpenAt
  \/ \E w \in Workloads : k = Failed(w) /\ host.condition[w] # "ok"
  \/ \E l \in host.wild : k = Added(l)

(* Missing telemetry is no recovery: whatever the collectors, the network  *)
(* and the Hub itself miss in whatever order, no event is resolved while   *)
(* the host still has its condition.                                       *)
RecoveryIsReal == [][\A k \in active \ active' : k = Offline \/ ~Persists(k)]_vars

(* No event is opened for a condition the host does not have: a reading    *)
(* between the thresholds never opens one.                                 *)
RiskIsReal == [][\A k \in active' \ active : k = Offline \/ Arises(k)]_vars

(* A listener that has been listening since the last complete observation, *)
(* or that was there before any, is never announced as new: not after a    *)
(* partial set, an outage, an upgrade, a restart or a pruned history.      *)
NoFalseNovelty ==
  [][\A l \in Listeners : Added(l) \in active' \ active
       => established /\ l \notin steady]_vars

(* The steps that store a complete observation.                            *)
CompleteRecorded == UNCHANGED host /\ up' = "running" /\ previous' = "complete"

(* A new listener is not absorbed: while the host was never seen offline,  *)
(* the next complete observation has an event for each listener that the   *)
(* last one lacked.                                                        *)
NewListenerReported ==
  [][CompleteRecorded /\ established /\ previous # "none" /\ ~offlineSince
       => \A l \in host.wild \ known : Added(l) \in active']_vars

Units == {w \in Workloads : Source[w] = "systemd"}

(* Once the host keeps still, the events come to match it, whatever was    *)
(* missed before: lasting conditions are open, ended ones are resolved.    *)
EventsSettle ==
  \A k \in GaugeKeys \cup FailedKeys \cup AddedKeys :
    /\ <>[]~Persists(k) => <>[](k \notin active)
    /\ k \in GaugeKeys \cup {Failed(w) : w \in Units} => (<>[]Arises(k) => <>[](k \in active))
=============================================================================
