----------------------------- MODULE MCHubParts -----------------------------
(* Six parts of the Hub and the Agent that share no variable with each     *)
(* other: one run checks them all, and "exercised" says which of them a    *)
(* behaviour moves.                                                        *)
EXTENDS HostRegistry, LinkProbes, ConfigFile, HubUpgrade, FailureLimiters, ActionHelper

CONSTANTS a, b, f, h1, h2, u1, u2, u3, j1, j2, j3

VARIABLE exercised

MCNotes == [x \in Files |-> [c \in Cells |-> IF c[1] = h1 THEN a ELSE b]]

View(r, n, g) == [routes |-> r, annotation |-> n, guess |-> g]
MCViews ==
  {View({}, NoUrl, NoUrl), View({}, NoUrl, u3), View({u1, u2}, NoUrl, u3),
   View({u1}, u2, NoUrl), View({u1, u2}, u3, NoUrl)}

MCWork ==
  [j \in Jobs |-> CASE j = j1 -> [id |-> "a", record |-> "r"]
                    [] j = j2 -> [id |-> "b", record |-> "r"]
                    [] OTHER -> Migrate]

MCPlan ==
  [r \in Releases |-> CASE r = "old" -> <<"m1">>
                        [] r = "new" -> <<"m1", "m2", "m3">>
                        [] OTHER -> <<"m1", "x2">>]
MCPath == [c \in {"p", "q", Bundle, Final} |-> IF c \in {"p", "q"} THEN "shared" ELSE c]

Approve(t, k) == [target |-> t, kind |-> k]
MCApprovals == {Approve("s", "stop"), Approve("s", "restart"), Approve("s", "logs"), Approve("t", "start")}
MCRequest ==
  [h \in Helpers |-> CASE h = "stopper" -> Approve("s", "stop")
                       [] h = "restarter" -> Approve("s", "restart")
                       [] OTHER -> Approve("s", "logs")]

MCInit ==
  /\ RegistryInit /\ ProbeInit /\ ConfigInit /\ UpgradeInit /\ LimiterInit /\ HelperInit
  /\ exercised \in {"registry", "probes", "config", "upgrade", "limiters", "helper"}
  /\ exercised # "registry" => config = {} /\ hostRows = {}
  /\ exercised # "probes" => \A s \in Services : views[s] = View({}, NoUrl, NoUrl)
  /\ exercised # "config" => file.password = "none"
  /\ exercised # "upgrade" => installed = "old"
  /\ exercised # "helper" => policy = {} /\ \A t \in Units : unit[t] = "running"

MCNext ==
  /\ UNCHANGED exercised
  /\ \/ exercised = "registry" /\ RegistryNext
        /\ UNCHANGED <<probeVars, configVars, upgradeVars, limiterVars, helperVars>>
     \/ exercised = "probes" /\ ProbeNext
        /\ UNCHANGED <<registryVars, configVars, upgradeVars, limiterVars, helperVars>>
     \/ exercised = "config" /\ ConfigNext
        /\ UNCHANGED <<registryVars, probeVars, upgradeVars, limiterVars, helperVars>>
     \/ exercised = "upgrade" /\ UpgradeNext
        /\ UNCHANGED <<registryVars, probeVars, configVars, limiterVars, helperVars>>
     \/ exercised = "limiters" /\ LimiterNext
        /\ UNCHANGED <<registryVars, probeVars, configVars, upgradeVars, helperVars>>
     \/ exercised = "helper" /\ HelperNext
        /\ UNCHANGED <<registryVars, probeVars, configVars, upgradeVars, limiterVars>>

MCSpec ==
  MCInit /\ [][MCNext]_<<registryVars, probeVars, configVars, upgradeVars, limiterVars, helperVars, exercised>>
=============================================================================
