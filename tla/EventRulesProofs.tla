-------------------------- MODULE EventRulesProofs --------------------------
(***************************************************************************)
(* That the rules neither resolve a risk the host still has nor announce   *)
(* one it has not, and that the listener baseline tells the new listeners  *)
(* from the old ones, for any gauges, thresholds, workloads and listeners. *)
(*                                                                         *)
(* The argument relates what the rules read to what has really happened:   *)
(* an established baseline is what the last complete observation held,     *)
(* and before it is established nothing is known that a start would not    *)
(* take for the baseline.                                                  *)
(***************************************************************************)
EXTENDS EventRules, TLAPS

(* Only a unit is ever reported failed: Discover does not read the health  *)
(* of a container.                                                         *)
UnitsOnly == \A w \in Workloads : Failed(w) \in active => Source[w] = "systemd"

(* The established baseline is what was last completely observed.  Before  *)
(* that, what is known lies in the rows a start backfills from, and a      *)
(* running Hub has none.                                                   *)
BaselineInv ==
  /\ established => known = baseline
  /\ ~established => known = (UNION history) \cup baseline
  /\ ~established /\ baseline # {} => known = baseline
  /\ ~established /\ up # "down" => history = {} /\ baseline = {}

(* What has been listening ever since is known and still listens.          *)
SteadyInv == steady \subseteq known \cap host.wild

(* A stored outage is remembered until the next complete observation.      *)
OutageInv == previous = "offline" => offlineSince

RulesInv == TypeOK /\ UnitsOnly /\ BaselineInv /\ SteadyInv /\ OutageInv
-----------------------------------------------------------------------------
(* Keys of different kinds differ, and a key names what it is about.       *)
LEMMA KeysDiffer ==
  /\ \A g \in Gauges, w \in Workloads : Gauge(g) # Failed(w)
  /\ \A g \in Gauges, l \in Listeners : Gauge(g) # Added(l)
  /\ \A w \in Workloads, l \in Listeners : Failed(w) # Added(l)
  /\ \A g, h \in Gauges : Gauge(g) = Gauge(h) => g = h
  /\ \A v, w \in Workloads : Failed(v) = Failed(w) => v = w
  /\ \A k, l \in Listeners : Added(k) = Added(l) => k = l
  /\ \A g \in Gauges : Gauge(g) # Offline
  /\ \A w \in Workloads : Failed(w) # Offline
  /\ \A l \in Listeners : Added(l) # Offline
BY DEF Gauge, Failed, Added, Offline

(* An observation holds nothing the host has not, misses no failed unit    *)
(* whose collector answered, and a complete one holds all listeners.       *)
IsSound(o) ==
  /\ o.online \in BOOLEAN
  /\ o.online => DOMAIN o.readings \subseteq Gauges
  /\ o.online => \A g \in DOMAIN o.readings : o.readings[g] = host.level[g]
  /\ o.failed \subseteq {w \in Workloads : ReportsFailed(w)}
  /\ \A w \in Workloads : o.online /\ ~WorkloadMissing(o, w) /\ ReportsFailed(w) => w \in o.failed
  /\ o.wild \subseteq host.wild
  /\ Complete(o) => o.wild = host.wild

LEMMA OnlineIsSound ==
  ASSUME NEW a \in Answers
  PROVE  IsSound(Online(a))
<1> DEFINE o == Online(a)
<1>1. /\ o.online = TRUE
      /\ o.readings = [g \in a.gauges |-> host.level[g]]
      /\ o.services = a.services
      /\ o.down = a.down
      /\ o.failed = IF a.services THEN {w \in Workloads : Source[w] \notin a.down /\ ReportsFailed(w)} ELSE {}
      /\ o.wild = a.visible
  BY DEF Online
<1>2. /\ a.gauges \subseteq Gauges /\ a.services \in BOOLEAN /\ a.visible \subseteq host.wild
      /\ ~a.services => a.visible = {}
      /\ a.services /\ a.down \cap {"docker", "ss"} = {} => a.visible = host.wild
  BY DEF Answers
<1> HIDE DEF o
<1>3. IsSound(o)
  BY <1>1, <1>2 DEF IsSound, WorkloadMissing, Complete, ListenersMissing
<1> QED BY <1>3 DEF o

LEMMA ObservationIsSound ==
  ASSUME NEW o, o \in Observations
  PROVE  IsSound(o)
<1>1. CASE o = Unreachable
  BY <1>1 DEF Unreachable, IsSound, Complete, WorkloadMissing
<1>2. CASE \E a \in Answers : o = Online(a)
  BY <1>2, OnlineIsSound
<1> QED BY <1>1, <1>2 DEF Observations
-----------------------------------------------------------------------------
(* A scrape signals only keys there are.                                   *)
LEMMA SignalsAreKeys ==
  ASSUME NEW o, active \subseteq Keys
  PROVE  Signals(o) \subseteq Keys
BY DEF Signals, GaugeSignals, WorkloadSignals, ListenerSignals, Keys, GaugeKeys, FailedKeys, AddedKeys

(* When the signals of each kind hold a key.                               *)
LEMMA SignalOf ==
  ASSUME NEW o, o.online
  PROVE  /\ \A g \in Gauges : Gauge(g) \in Signals(o) <=>
              IF g \in DOMAIN o.readings
              THEN o.readings[g] >= OpenAt \/ (Gauge(g) \in active /\ o.readings[g] >= ClearAt)
              ELSE Gauge(g) \in active
         /\ \A w \in Workloads : Failed(w) \in Signals(o) <=>
              IF WorkloadMissing(o, w) THEN Failed(w) \in active ELSE w \in o.failed
         /\ \A l \in Listeners : Added(l) \in Signals(o) <=>
              \/ ListenersMissing(o) /\ Added(l) \in active
              \/ ListenersMissing(o) /\ established /\ l \in o.wild /\ l \notin baseline
              \/ l \in o.wild /\ ~ListenersMissing(o) /\ Added(l) \in active
              \/ l \in o.wild /\ ~ListenersMissing(o) /\ ~Establishing(o) /\ l \notin baseline
<1>1. Signals(o) = GaugeSignals(o) \cup WorkloadSignals(o) \cup ListenerSignals(o)
  BY DEF Signals
<1>2. ASSUME NEW g \in Gauges
      PROVE  Gauge(g) \in Signals(o) <=> Gauge(g) \in GaugeSignals(o)
  BY <1>1, KeysDiffer DEF WorkloadSignals, ListenerSignals
<1>3. ASSUME NEW g \in Gauges
      PROVE  Gauge(g) \in GaugeSignals(o) <=>
              IF g \in DOMAIN o.readings
              THEN o.readings[g] >= OpenAt \/ (Gauge(g) \in active /\ o.readings[g] >= ClearAt)
              ELSE Gauge(g) \in active
  BY KeysDiffer DEF GaugeSignals
<1>4. ASSUME NEW w \in Workloads
      PROVE  Failed(w) \in Signals(o) <=> Failed(w) \in WorkloadSignals(o)
  BY <1>1, KeysDiffer DEF GaugeSignals, ListenerSignals
<1>5. ASSUME NEW w \in Workloads
      PROVE  Failed(w) \in WorkloadSignals(o) <=>
              IF WorkloadMissing(o, w) THEN Failed(w) \in active ELSE w \in o.failed
  BY KeysDiffer DEF WorkloadSignals
<1>6. ASSUME NEW l \in Listeners
      PROVE  Added(l) \in Signals(o) <=> Added(l) \in ListenerSignals(o)
  BY <1>1, KeysDiffer DEF GaugeSignals, WorkloadSignals
<1>7. ASSUME NEW l \in Listeners
      PROVE  Added(l) \in ListenerSignals(o) <=>
              \/ ListenersMissing(o) /\ Added(l) \in active
              \/ ListenersMissing(o) /\ established /\ l \in o.wild /\ l \notin baseline
              \/ l \in o.wild /\ ~ListenersMissing(o) /\ Added(l) \in active
              \/ l \in o.wild /\ ~ListenersMissing(o) /\ ~Establishing(o) /\ l \notin baseline
  BY KeysDiffer DEF ListenerSignals
<1> QED BY <1>2, <1>3, <1>4, <1>5, <1>6, <1>7
-----------------------------------------------------------------------------
LEMMA RulesInitInv == Init => RulesInv
<1> SUFFICES ASSUME Init PROVE RulesInv
  OBVIOUS
<1>1. PICK past \in SUBSET Listeners : history \in {{}, {past}} /\ baseline \in {{}, past}
  BY DEF Init
<1>2. /\ UNION {} = {} /\ UNION {past} = past
      /\ {} \cup baseline = baseline /\ past \cup past = past
  OBVIOUS
<1>3. known = (UNION history) \cup baseline /\ (baseline # {} => known = baseline)
  <2>1. known = (UNION history) \cup baseline
    BY DEF Init
  <2>2. CASE history = {}
    BY <2>1, <2>2, <1>2
  <2>3. CASE history = {past}
    <3>1. known = past \cup baseline
      BY <2>1, <2>3, <1>2
    <3> QED BY <2>1, <3>1, <1>1, <1>2
  <2> QED BY <2>1, <2>2, <2>3, <1>1
<1>4. UNION history \subseteq Listeners /\ history \subseteq SUBSET Listeners /\ baseline \subseteq Listeners
  BY <1>1
<1>5. known \subseteq Listeners
  BY <1>3, <1>4
<1>6. TypeOK
  <2>1. steady \subseteq known
    BY DEF Init
  <2>2. crashes \in 0..MaxCrashes
    BY RulesAssumption DEF Init
  <2> QED BY <1>4, <1>5, <2>1, <2>2 DEF Init, TypeOK
<1>7. UnitsOnly /\ SteadyInv /\ OutageInv
  BY DEF Init, UnitsOnly, SteadyInv, OutageInv
<1>8. BaselineInv
  BY <1>3 DEF Init, BaselineInv
<1> QED BY <1>6, <1>7, <1>8 DEF RulesInv

(* A scrape keeps the invariant: a complete observation becomes both what  *)
(* is known and the baseline, any other leaves both.                       *)
LEMMA RecordInv ==
  ASSUME RulesInv, NEW o, o \in Observations, Record(o)
  PROVE  RulesInv'
<1> USE DEF RulesInv
<1>1. IsSound(o)
  BY ObservationIsSound
<1>2. CASE Complete(o)
  <2>1. /\ o.online /\ o.wild = host.wild /\ host' = host /\ up' = "running" /\ crashes' = crashes
        /\ previous' = "complete" /\ history' = {host.wild} /\ baseline' = host.wild /\ established' = TRUE
        /\ known' = host.wild /\ steady' = host.wild /\ offlineSince' = FALSE
    BY <1>1, <1>2 DEF Record, Remember, ReplacesBaseline, IsSound, Complete
  <2>2. host.wild \subseteq Listeners
    BY DEF TypeOK, Hosts
  <2>3. active' \subseteq Keys
    BY SignalsAreKeys DEF Record, TypeOK
  <2>4. TypeOK'
    BY <2>1, <2>2, <2>3 DEF TypeOK
  <2>5. BaselineInv' /\ SteadyInv' /\ OutageInv'
    BY <2>1 DEF BaselineInv, SteadyInv, OutageInv
  <2>6. UnitsOnly'
    BY <2>1, <1>1, SignalOf, RulesAssumption DEF UnitsOnly, Record, IsSound, TypeOK, Hosts, Conditions, ReportsFailed
  <2> QED BY <2>4, <2>5, <2>6
<1>3. CASE ~Complete(o)
  <2>1. /\ host' = host /\ up' = "running" /\ crashes' = crashes
        /\ previous' = IF o.online THEN "partial" ELSE "offline"
        /\ history' = history /\ baseline' = baseline /\ established' = established
        /\ known' = known /\ steady' = steady /\ offlineSince' = (offlineSince \/ ~o.online)
    BY <1>1, <1>3 DEF Record, Remember, ReplacesBaseline, IsSound, TypeOK
  <2>2. active' \subseteq Keys
    BY SignalsAreKeys DEF Record, TypeOK
  <2>3. TypeOK'
    BY <2>1, <2>2, <1>1 DEF TypeOK, IsSound
  <2>4. BaselineInv'
    BY <2>1 DEF BaselineInv, Record
  <2>5. SteadyInv' /\ OutageInv'
    BY <2>1, <1>1 DEF SteadyInv, OutageInv, IsSound
  <2>6. UnitsOnly'
    <3>1. CASE o.online
      BY <2>1, <1>1, <3>1, SignalOf, RulesAssumption
      DEF UnitsOnly, Record, IsSound, TypeOK, Hosts, Conditions, ReportsFailed
    <3>2. CASE ~o.online
      <4>1. active' = active \cup {Offline}
        BY <3>2 DEF Record, Signals
      <4> QED BY <4>1, KeysDiffer DEF UnitsOnly
    <3> QED BY <3>1, <3>2
  <2> QED BY <2>3, <2>4, <2>5, <2>6
<1> QED BY <1>2, <1>3

(* What the host does changes nothing the Hub has stored.                  *)
LEMMA HostChangeInv ==
  ASSUME RulesInv, HostChange
  PROVE  RulesInv'
<1> USE DEF RulesInv
<1>1. host' \in Hosts
  <2>1. ASSUME NEW g \in Gauges, NEW n \in 0..Top, host' = [host EXCEPT !.level[g] = n]
        PROVE  host' \in Hosts
    BY <2>1 DEF TypeOK, Hosts
  <2>2. ASSUME NEW w \in Workloads, NEW c \in Conditions(w), host' = [host EXCEPT !.condition[w] = c]
        PROVE  host' \in Hosts
    BY <2>2 DEF TypeOK, Hosts, Conditions
  <2>3. ASSUME NEW l \in Listeners,
               host' = [host EXCEPT !.wild = @ \cup {l}] \/ host' = [host EXCEPT !.wild = @ \ {l}]
        PROVE  host' \in Hosts
    BY <2>3 DEF TypeOK, Hosts
  <2> QED BY <2>1, <2>2, <2>3 DEF HostChange
<1>2. TypeOK'
  BY <1>1 DEF TypeOK, HostChange
<1>3. SteadyInv'
  BY DEF SteadyInv, HostChange
<1>4. UnitsOnly' /\ BaselineInv' /\ OutageInv'
  BY DEF UnitsOnly, BaselineInv, OutageInv, HostChange
<1> QED BY <1>2, <1>3, <1>4

(* A start establishes the baseline when there is anything it can be       *)
(* taken from.                                                             *)
LEMMA StartInv ==
  ASSUME RulesInv, Start
  PROVE  RulesInv'
<1> USE DEF RulesInv
<1>1. TypeOK'
  <2>1. UNION history \subseteq Listeners
    BY DEF TypeOK
  <2>2. Backfilled \subseteq Listeners
    BY <2>1 DEF Backfilled, TypeOK
  <2>3. established' \in BOOLEAN
    BY DEF Start, TypeOK
  <2> QED BY <2>2, <2>3 DEF TypeOK, Start, memory
<1>2. BaselineInv'
  <2>1. CASE established
    BY <2>1 DEF BaselineInv, Start, Backfilled, memory, TypeOK
  <2>2. CASE ~established /\ baseline # {}
    BY <2>2 DEF BaselineInv, Start, Backfilled, memory, TypeOK
  <2>3. CASE ~established /\ baseline = {} /\ history # {}
    BY <2>3 DEF BaselineInv, Start, Backfilled, memory, TypeOK
  <2>4. CASE ~established /\ baseline = {} /\ history = {}
    <3>1. UNION history = {} /\ established' = FALSE /\ baseline' = {} /\ history' = {} /\ known' = known
      BY <2>4 DEF Start, Backfilled, memory
    <3>2. known = {}
      BY <2>4, <3>1 DEF BaselineInv
    <3> QED BY <3>1, <3>2 DEF BaselineInv
  <2> QED BY <2>1, <2>2, <2>3, <2>4
<1>3. UnitsOnly' /\ SteadyInv' /\ OutageInv'
  BY DEF UnitsOnly, SteadyInv, OutageInv, Start, memory
<1> QED BY <1>1, <1>2, <1>3

(* A crash keeps every row; pruning takes history only from a running Hub, *)
(* whose baseline, if it has one, is established.                          *)
LEMMA CrashInv ==
  ASSUME RulesInv, Crash
  PROVE  RulesInv'
BY RulesAssumption
DEF RulesInv, TypeOK, UnitsOnly, BaselineInv, SteadyInv, OutageInv, Crash, memory

LEMMA PruneInv ==
  ASSUME RulesInv, Prune
  PROVE  RulesInv'
<1>1. UNCHANGED <<host, up, active, baseline, established, known, steady, offlineSince, crashes>>
  BY DEF Prune, memory
<1>2. history' = {} /\ up # "down" /\ (previous' = "none" \/ previous' = previous)
  BY DEF Prune
<1> QED BY <1>1, <1>2 DEF RulesInv, TypeOK, UnitsOnly, BaselineInv, SteadyInv, OutageInv

(* Whatever a scrape could not see, what it stored before stays in this    *)
(* relation to what has happened on the host.                              *)
THEOREM RulesInvariant == Spec => []RulesInv
<1>1. ASSUME RulesInv, [Next]_vars
      PROVE  RulesInv'
  <2>1. CASE Next
    BY <1>1, <2>1, RecordInv, HostChangeInv, StartInv, CrashInv, PruneInv DEF Next, Scrape
  <2>2. CASE UNCHANGED vars
    BY <1>1, <2>2
    DEF vars, memory, RulesInv, TypeOK, UnitsOnly, BaselineInv, SteadyInv, OutageInv
  <2> QED BY <1>1, <2>1, <2>2
<1> QED BY <1>1, RulesInitInv, PTL DEF Spec
-----------------------------------------------------------------------------
(* Only a scrape changes which events are open.                            *)
LEMMA OnlyScrapes ==
  ASSUME Next, active' # active
  PROVE  \E o \in Observations : Record(o)
BY DEF Next, HostChange, Scrape, Start, Crash, Prune

(* An event that a scrape resolves: the observation had what it needed to  *)
(* tell that the condition is over, and it told the truth.                 *)
LEMMA ResolvedIsOver ==
  ASSUME RulesInv, NEW o, o \in Observations, Record(o), NEW k \in active \ active'
  PROVE  k = Offline \/ ~Persists(k)
<1>1. IsSound(o) /\ active' = Signals(o) /\ o.online /\ k \in Keys
  BY ObservationIsSound DEF Record, Signals, RulesInv, TypeOK
<1>2. ASSUME NEW g \in Gauges, k = Gauge(g)
      PROVE  ~Persists(k)
  <2>1. o.readings[g] = host.level[g] /\ ~(o.readings[g] >= ClearAt)
    BY <1>1, <1>2, SignalOf DEF IsSound
  <2> QED BY <1>2, <2>1, KeysDiffer DEF Persists, RulesInv, TypeOK, Hosts
<1>3. ASSUME NEW w \in Workloads, k = Failed(w)
      PROVE  ~Persists(k)
  <2>1. ~WorkloadMissing(o, w) /\ w \notin o.failed
    BY <1>1, <1>3, SignalOf
  <2>2. host.condition[w] # "failed" /\ Source[w] = "systemd"
    BY <1>1, <1>3, <2>1 DEF IsSound, ReportsFailed, RulesInv, UnitsOnly
  <2>3. host.condition[w] = "ok"
    BY <2>2 DEF RulesInv, TypeOK, Hosts, Conditions
  <2> QED BY <1>3, <2>3, KeysDiffer DEF Persists, RulesInv, TypeOK, Hosts
<1>4. ASSUME NEW l \in Listeners, k = Added(l)
      PROVE  ~Persists(k)
  <2>1. ~ListenersMissing(o) /\ l \notin o.wild
    BY <1>1, <1>4, SignalOf
  <2>2. l \notin host.wild
    BY <1>1, <2>1 DEF IsSound, Complete
  <2> QED BY <1>4, <2>2, KeysDiffer DEF Persists, RulesInv, TypeOK, Hosts
<1> QED BY <1>1, <1>2, <1>3, <1>4 DEF Keys, GaugeKeys, FailedKeys, AddedKeys

(* An event that a scrape opens: the observation saw the condition.        *)
LEMMA OpenedHasArisen ==
  ASSUME RulesInv, NEW o, o \in Observations, Record(o), NEW k \in active' \ active
  PROVE  k = Offline \/ Arises(k)
<1>1. IsSound(o) /\ active' = Signals(o)
  BY ObservationIsSound DEF Record
<1>2. CASE ~o.online
  BY <1>1, <1>2 DEF Signals
<1>3. CASE o.online
  <2>1. k \in Keys
    BY <1>1, SignalsAreKeys DEF RulesInv, TypeOK
  <2>2. ASSUME NEW g \in Gauges, k = Gauge(g)
        PROVE  Arises(k)
    <3>1. o.readings[g] = host.level[g] /\ o.readings[g] >= OpenAt
      BY <1>1, <1>3, <2>2, SignalOf DEF IsSound
    <3> QED BY <2>2, <3>1 DEF Arises
  <2>3. ASSUME NEW w \in Workloads, k = Failed(w)
        PROVE  Arises(k)
    <3>1. w \in o.failed
      BY <1>1, <1>3, <2>3, SignalOf
    <3> QED BY <1>1, <2>3, <3>1 DEF Arises, IsSound, ReportsFailed
  <2>4. ASSUME NEW l \in Listeners, k = Added(l)
        PROVE  Arises(k)
    <3>1. l \in o.wild
      BY <1>1, <1>3, <2>4, SignalOf
    <3> QED BY <1>1, <2>4, <3>1 DEF Arises, IsSound
  <2> QED BY <2>1, <2>2, <2>3, <2>4 DEF Keys, GaugeKeys, FailedKeys, AddedKeys
<1> QED BY <1>2, <1>3

(* A listener that is announced: the baseline is established and lacks it, *)
(* so it has not been listening since it was last completely observed.     *)
LEMMA AnnouncedIsNovel ==
  ASSUME RulesInv, NEW o, o \in Observations, Record(o),
         NEW l \in Listeners, Added(l) \in active' \ active
  PROVE  established /\ l \notin steady
<1>1. active' = Signals(o)
  BY DEF Record
<1>2. o.online
  BY <1>1, KeysDiffer DEF Signals
<1>3. established /\ l \notin baseline
  BY <1>1, <1>2, SignalOf DEF Establishing, Complete
<1> QED BY <1>3 DEF RulesInv, BaselineInv, SteadyInv

(* A complete observation after another one, or after a partial one with   *)
(* no outage between: all that the baseline lacks is announced.            *)
LEMMA NovelIsAnnounced ==
  ASSUME RulesInv, NEW o, o \in Observations, Record(o), CompleteRecorded,
         established, previous # "none", ~offlineSince, NEW l \in host.wild \ known
  PROVE  Added(l) \in active'
<1>1. IsSound(o) /\ active' = Signals(o)
  BY ObservationIsSound DEF Record
<1>2. o.online /\ Complete(o)
  <2>1. CASE ~o.online
    <3>1. previous' = "offline"
      BY <2>1 DEF Record, Complete
    <3> QED BY <3>1 DEF CompleteRecorded
  <2>2. CASE o.online /\ ~Complete(o)
    <3>1. previous' = "partial"
      BY <2>2 DEF Record
    <3> QED BY <3>1 DEF CompleteRecorded
  <2> QED BY <1>1, <2>1, <2>2 DEF IsSound
<1>3. l \in Listeners /\ l \in o.wild /\ l \notin baseline
  BY <1>1, <1>2 DEF IsSound, RulesInv, BaselineInv, TypeOK, Hosts
<1>4. WasOnline
  BY DEF WasOnline, RulesInv, OutageInv, TypeOK
<1>5. ~ListenersMissing(o) /\ ~Establishing(o)
  BY <1>2, <1>4 DEF Establishing, Complete
<1> QED BY <1>1, <1>2, <1>3, <1>5, SignalOf
-----------------------------------------------------------------------------
(* No event is resolved while the host has its condition, whatever the     *)
(* collectors, the network and the Hub miss, in whatever order.            *)
THEOREM NoFalseRecovery == Spec => RecoveryIsReal
<1>1. ASSUME RulesInv, [Next]_vars
      PROVE  [\A k \in active \ active' : k = Offline \/ ~Persists(k)]_vars
  <2>1. CASE active' # active /\ Next
    BY <1>1, <2>1, OnlyScrapes, ResolvedIsOver
  <2>2. CASE active' = active
    BY <2>2
  <2> QED BY <1>1, <2>1, <2>2 DEF vars
<1> QED BY <1>1, RulesInvariant, PTL DEF Spec, RecoveryIsReal

(* No event is opened for a condition the host does not have.              *)
THEOREM NoFalseRisk == Spec => RiskIsReal
<1>1. ASSUME RulesInv, [Next]_vars
      PROVE  [\A k \in active' \ active : k = Offline \/ Arises(k)]_vars
  <2>1. CASE active' # active /\ Next
    BY <1>1, <2>1, OnlyScrapes, OpenedHasArisen
  <2>2. CASE active' = active
    BY <2>2
  <2> QED BY <1>1, <2>1, <2>2 DEF vars
<1> QED BY <1>1, RulesInvariant, PTL DEF Spec, RiskIsReal

(* A listener that has been there all the while is never announced.        *)
THEOREM OldListenersSilent == Spec => NoFalseNovelty
<1>1. ASSUME RulesInv, [Next]_vars
      PROVE  [\A l \in Listeners : Added(l) \in active' \ active => established /\ l \notin steady]_vars
  <2>1. CASE active' # active /\ Next
    BY <1>1, <2>1, OnlyScrapes, AnnouncedIsNovel
  <2>2. CASE active' = active
    BY <2>2
  <2> QED BY <1>1, <2>1, <2>2 DEF vars
<1> QED BY <1>1, RulesInvariant, PTL DEF Spec, NoFalseNovelty

(* A listener the last complete observation lacked has an event after the  *)
(* next one, unless the host was seen offline between them.                *)
THEOREM NewListenersAnnounced == Spec => NewListenerReported
<1>1. ASSUME RulesInv, [Next]_vars
      PROVE  [CompleteRecorded /\ established /\ previous # "none" /\ ~offlineSince
               => \A l \in host.wild \ known : Added(l) \in active']_vars
  <2>1. CASE HostChange /\ host' = host
    <3>1. steady' = steady
      BY <1>1, <2>1 DEF HostChange, RulesInv, SteadyInv
    <3> QED BY <2>1, <3>1 DEF HostChange, vars, memory
  <2>2. CASE Scrape
    BY <1>1, <2>2, NovelIsAnnounced DEF Scrape
  <2>3. CASE (HostChange /\ host' # host) \/ Start \/ Crash \/ Prune
    BY <2>3 DEF CompleteRecorded, Start, Crash, Prune
  <2> QED BY <1>1, <2>1, <2>2, <2>3 DEF Next
<1> QED BY <1>1, RulesInvariant, PTL DEF Spec, NewListenerReported
=============================================================================
