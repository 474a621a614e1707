# A TLA+ model of Lodge

Lodge watches a few Linux hosts and lets an operator start a small number of
root-approved operations on them. A **Hub** (one process, one SQLite database)
scrapes an **Agent** on each host, keeps observations, events and an audit of
operations, and delivers Webhook notifications. Each Agent answers read-only
requests and, through a **root helper** started by sudo, executes ordinary
actions and declarative deployments. Everything below is translated from the Go
source; the documents under `docs/` are only quoted where the code and they are
compared.

## 1. Inventory

### Components, their state and their operations

| component | state it keeps | operations |
|---|---|---|
| Hub operation handlers (`hub/operation_handlers.go`, `hub/deployment_handlers.go`) | the fleet-wide `actionMu`; one audit row per request in SQLite | list definitions, confirm, `TryLock`, create row, start row, call the Agent once, finish row |
| Audit rows (`storage/sqlite.go`) | `operations`: requested, running, succeeded / failed / rolled_back | compare-and-set transitions, closing of interrupted rows at startup |
| Agent operation handlers (`agent/server.go`) | one mutex for actions and deployments | list again, lock, run the root helper, answer |
| Root action helper, root deployment executor (`agent/*_linux.go`) | a file lock; the deployment state file (current and previous release of each stack); the container | preflight, pull, discover, candidate override, Compose update, health verification, commit, recovery |
| Event lifecycle (`storage/sqlite.go`, `hub/sqlite_store.go`) | events: active, acknowledged, resolved | reconcile with an observation in one transaction, acknowledge |
| Webhook outbox and worker (`storage/notifications.go`, `hub/webhook.go`) | one row per event and transition: pending, sending, delivered, cancelled, failed; attempts, lease, due time | enqueue, cancel, lease, POST, complete, retry, give up |
| Event rules and listener baseline (`hub/event_rules.go`) | the baseline of wildcard listeners and its mark | turn an observation and the stored state into signals; backfill |
| Scraper and projection (`hub/scraper.go`, `hub/projection.go`) | none that lasts | poll each host, note what is missing |
| Agent collectors, proxy routes, security posture | none | read the host, each part may fail alone |
| Sessions and login limiter, Agent failure limiter | counters in memory | admit, refuse, back off |
| Event paging (`hub/server.go`, `storage/sqlite.go`) | snapshots of event ids in memory, with an age and a limit | first page, later pages, expire, evict |
| Annotations and configured hosts (`hub/sqlite_store.go`, `hub/legacy_state.go`) | rows in SQLite and a copy in memory | edit, replace the host set, import the legacy file once |
| Web link probes (`hub/link_probe.go`, `hub/server.go`) | a probe lock and the last checks | collect targets, probe in a pool, replace the set |
| Migrations and backup (`storage/sqlite.go`) | the schema version and its ledger; backup files | migrate and verify at start, back up |
| Hub installation (`deploy/install-hub.sh`) | binary, unit, database, rollback bundle | stop, bundle, install, watch, restore on exit |
| Configuration commands (`hub/config.go`) | the private config file | read, compare, replace |
| Web console (`frontend/src/app.ts`) | the event list, the operation dialog, calls in flight | refresh, page, acknowledge, confirm, follow |
| History views, retention, processes, remaining scripts | old observations, files | prune, start, stop, install |

`PROJECT.json` lists all of them, with what is and what is not modelled.

### How they interact

- **Browser -> Hub -> Agent -> root helper.** One synchronous chain per
  operation; no layer retries. The Hub lists the definitions live and compares
  the confirmation *before* it tries its lock; it sends only the identifier,
  and the Agent and the helper each derive the definition again from the policy
  and the state file. A row is durable before the Agent is contacted. The
  caller's timeout does not stop the helper, and neither does an Agent restart.
- **Scraper -> rules -> event transaction -> outbox -> worker -> receiver.** An
  observation, its event transitions and their notification rows are one SQLite
  transaction under `eventMu`. The worker leases a row in a second
  transaction, posts it with none open, and completes it in a third.
- **Operator -> events.** An acknowledgement is a transaction of its own which may
  fall between the time a scrape was taken and its application.
- **Browser -> Hub.** The console polls every 15 seconds and starts further calls on
  clicks; an answer is dropped when its session or its sequence number has passed.
  Pages of events come from a snapshot on the Hub that may be gone by then.
- **Operator and scripts -> files.** The config commands, the backup command and
  `install-hub.sh` run beside the Hub as processes of their own and meet it only in
  the config file, the database and the binary.
- **Startup.** Open rows of operations are closed as failed; missing listener
  baselines are filled from history; expired leases are simply claimed again; pending migrations are applied one
  transaction each, and the legacy annotations are imported if their digest is new.

### What is hard about them

Interleavings of two requests between listing, locking and executing; answers
that are late or lost after the work was done; a crash of the Hub, the Agent,
the helper or the host at each step; one failing step of several, whose recovery
may fail as well; a rename without a directory sync; collectors that fail one at a
time, so that "not seen" must mean neither "recovered" nor "new"; crashes between
lease, POST and completion; cooldowns that outlive retries and outages. Browser calls that outlive their page,
their filter or their session; a file compared and replaced in two steps;
an upgrade abandoned after its candidate has already migrated the database. The 40
hazards of `PROJECT.json` name the line of each and the property that would
notice it going wrong.

### What makes the parts correct

- Operations: one execution at most, none without a durable running row, rows
  that report only what happened, no row left open, the lock always returned.
- Deployment: state file and container agree, success and rollback are real
  and durable, other failures left the service alone, the file stays readable,
  recovery does not depend on the candidate's deadline.
- Events and outbox: one unresolved incident per rule, no transition without
  its notification, no recovery announced before
  its open was tried, cooldown, everything settles.
- Rules: recoveries and risks are facts of the host, listeners are announced
  as new exactly when they are, and the events come to match a quiet host.
- Console: the rows on the page are a prefix of one frozen list, loading flags have
  an owner, nothing of an earlier session or dialog shows in a later one.
- Hub's own data: the copy in memory agrees with the rows, no finished edit is lost, a stored probe
  set is one whole check, no binary serves a schema it does not know, a reported
  backup exists and is whole, an abandoned upgrade leaves a Hub that serves.
- Limiters and helper: a lock holds for its time and for everyone it is meant
  for; a reported success of an action is that of its own command.

## 2. Modules

```
ReleaseEffects            what one execution may do to a stack's releases
  |- Operations           Hub handlers, Agent, locks, rows     --refines--> OperationLedger
  |    |- MCOperations, OperationsProofs
  |- StackRelease         the executor's contract, atomic
  |- Deployment           the executor, command by command     --refines--> StackRelease
       |- MCDeployment, DeploymentProofs
EventOutbox               event lifecycle, outbox, worker, receiver
  |- MCEventOutbox, EventOutboxProofs
EventRules                host, scrape, rules, listener baseline
  |- MCEventRules, EventRulesProofs
EventPages                event order and the Hub's page snapshots
  |- EventList            the console's list, over EventPages ----\
ConsoleDialogs            the console's operation dialog ----------+- MCConsole, ConsoleProofs
HostRegistry              hosts, annotations, their copy ---------\                (HubDataProofs)
LinkProbes                the check of the Web links -------------|                (HubDataProofs)
ConfigFile                commands that rewrite the config -------+- MCHubParts    (AccessProofs)
HubUpgrade                starts, migrations, backups, upgrade ---|                (HubDataProofs)
FailureLimiters           the login limiter and the Agent's ------|                (AccessProofs)
ActionHelper              the root helper of ordinary actions ----/                (ActionHelperProofs)
```

**Operations.** `pc[r]` is where the handler of request `r` stands: `HubList`,
`HubTryLock`, `HubCreate`, `HubStart`, `HubSend`, then `HubReceive` or
`HubTimeout`, and `HubFinish`, one action per call that can fail, be interleaved
or be cut off by a restart. `call[r]` is where its Agent call stands:
`AgentList`, `AgentTryLock`, `RootStart`, and `RootFinish`, or `OrphanFinish` for a helper that
outlived its Agent. `def`,
`agentDef` and `rootDef` are the three definitions derived from three readings
of the release state `rel`, which other requests change in between. `HubStop` is a crash or
the end of a graceful stop that ran out of time; `HubStartup` runs
`FailInterruptedOperations`; `AgentRestart` frees the mutex and leaves a running
helper as an orphan that still holds the file lock. A helper's execution is one
step whose effects are those of `ReleaseEffects!StatesAfter`.

**OperationLedger** is the promise to the reader of the audit: rows move
requested, running, terminal; an effect happens once, after the row was
running and perhaps after it already failed; a claim of success needs that effect.

**Deployment.** `pc` names the next command of the helper (`Preflight`,
`PrepareImage`, `DiscoverCurrent`, `ConfirmHealth`, `WriteCandidate`,
`ValidateCandidate`, `ApplyOverride`, `VerifyHealth`, `RenameState`,
`SyncDirectory`); `job.mode` says whether it adopts a release that already runs,
switches, or restores. Each command may fail, and `Expire` lets the deadline of
the phase pass; recovery starts with a deadline of its own. `HelperKilled` and
`PowerLoss` may come at any point, the latter forgetting a rename that was not
synced (`stored` against `durable`). `sick` are the digests that never become
healthy. The file lock makes the executions of a host sequential, which is
`OneHelperPerHost` of `Operations`, so one helper runs at a time here.
`doubt` is a history variable.

**StackRelease** is the atomic contract: an execution changes the release state
as its outcome says or not at all. `Operations` takes the effect of a call from
the same operators, so the two models meet there: what `Operations` assumes of a
helper is what `Deployment` is shown to implement.

**EventOutbox.** `ScrapeStart` and `ScrapeApply` are the two ends of a scrape (the observation's time is taken
first), `Acknowledge` may come between; `Claim`, `Post` and `Settle` are the
worker's three steps. `ScrapeApply` holds the whole transaction: which events
open, continue or recover, which rows are queued or cancelled. Time is relative (ticks
until due), so no clock grows and the model is finite.

**EventRules.** `host` is what is true; `Scrape` picks which endpoints and collectors failed
and what was visible, applies the rules and stores the result in one step;
`Start` backfills, `Prune` is retention, `HostChange` alters one fact. The
variables `known`, `steady` and `offlineSince` are history: they say what was
seen by the last complete observation and what has lasted since.

**EventPages** is `GET /api/events`: `FirstPage` evaluates a filter, freezes the
ids in the order of the timeline and puts the snapshot at the end of the queue, evicting
the oldest beyond the limit; `LaterPages` continues after a row of a live
snapshot or fails; `ExpireSnapshot` is age or a restart. `OpenEvent`, `Observe`, `Acknowledge` and
`Recover` change the table as the transactions of `EventOutbox` do.

**EventList** is the console's side, over `EventPages`. Each slot of `calls` is
one fetch: `StartRefresh` (timer), `Login`, `SelectFilter`, `LoadMore`,
`AcknowledgeEvent` begin one, `Answer` is the Hub's handler, and `FetchNext`, `FinishRefresh`, `FinishLoad`,
`FinishMore` and `FinishAcknowledge` are the code after each `await`. A change of
filter bumps the sequence number (`Bumped`), the end of a session the generation too (`Left`): since
the code only compares them for equality with a captured value, a call carries
whether it is still `owner` and `live`. Drawing the page is part of these actions where the code draws, and of
`RedrawPage`: `Draw` (`syncEventAgentSelect`) offers the hosts of `state.agents` (`hosts`, as `options`) and
resets `selected` to all hosts if its host is not among them. Rows and `dataFilter` stay, so
what the rows are of is stated twice: `RowsOfSelected`, which the code does not keep (divergence 4), and
`RowsOfChosen`, the filter that was asked for.

**ConsoleDialogs** is the operation window: `OpenDialog`, `CloseActionDialog`,
`Escape`, `Submit`, the Hub's answer and the deployment's end, `AnswerArrives`,
`Poll` of an accepted deployment, and sessions ending and beginning. `shown` is what
the result area says and of which submission. Session and opening numbers are history.

**HostRegistry.** `SetAgents` writes the hosts of the config in one transaction and
then builds the memory; `ReloadAnnotations` copies the rows; `ImportLegacyState` runs on a start
whose legacy file is new. An edit is `Annotate`, `UpsertAnnotation`, `SetAnnotation` (the copy, without a common lock);
`Stop` may fall between any two. `saved`, `tried` and `raced` are history:
an edit alone in its cell has to survive, while two edits of one cell at once may
leave row and copy different until the next start, and the properties say so.

**LinkProbes.** `StartProbe` takes the lock or is refused and collects
the targets of the present view; `Acquire`, `ProbeOne` and `GiveUp` are the pool;
`BudgetEnds` and `BrowserLeaves` end the context; `ReplaceWebLinkChecks` stores
the set, unless the browser left.

**ConfigFile.** A command is `Lstat`, `Load`, `Compare`, `Replace`; `inode` stands
for identity, size and time of the file, which `Compare` looks at.
`EditByHand` is the operator's editor. What is promised, and checked, is that the
compared file is the one that was read; between comparison and rename nothing is promised.

**HubUpgrade.** The process applies its plan one `ApplyMigration` at a time and
then `VerifyMigrations`; a backup is `ReadVersion`, `CheckDestination`, `Vacuum`,
`VerifyCopy`; the script is `StopService`, `BundleReady`, `InstallCandidate`,
`RestartService`, `Healthy`, `Complete`, with `Trap` from every step into
`RestoreBinary`, `RestoreDatabase` and `RestoreService`.
`PowerLoss` and kills come at any step; `InstallByHand` is an operator who replaces the binary without the script.
The script's two backups are the same commands as an operator's.

**FailureLimiters.** A login is `Arrive` (both locks and the verification slots
are checked), `VerifyPassword`, then `RecordFailure` or `RecordSuccess`; a call on
the Agent is `CallArrives`, then `Unauthorized` or `Authorized`. `Tick` passes time in
between, `Cleanup` forgets idle clients. Time is in units of the base delay.

**ActionHelper.** The steps of `lodge-agent --execute-action`: `AcquireActionLock`,
`ReadPolicy` (under the lock), `ReadBefore`, `ChangeTarget` (which may end with its
time limit and leave a job with the service manager), `Verify`, or `ReadLogs`.
`JobEnds`, `Drift`, `WritePolicy` and `Kill` are what happens around it; `SuccessIsOwn` orders the commands of
helpers and says nothing of what a leftover job does to the unit later. `Operations`
keeps the outcome of these steps only.

**MCConsole** and **MCHubParts** put models that share no variable into one run:
`exercised` is chosen at the start and says which of them a behaviour moves,
while the others keep one fixed initial state. The state space is the sum of
theirs, not the product, and each property is checked on every behaviour of its module.

Each module also holds operators commented "Mutant:", just before the definition they vary. They have
a plausible defect, are used by no action, and serve to show that each property can
fail (`PROJECT.json`, "mutants").

## 3. Runs

| run | instance | shows |
|---|---|---|
| `operations_safety` | 2 requests, 1 host, 2 releases, 1 Hub and 1 Agent restart, symmetry; about 1.05 million states | five safety properties, the ledger |
| `operations_liveness` | 2 requests, 1 host, 1 release, 1 Hub restart | `LockReleased`, `RowSettles` |
| `operations_stale_confirmation` | 2 requests, 2 releases, no restarts | divergence 1 |
| `deployment_safety` | 2 identities, 3 images with 2 digests, 2 faults per execution, executions without bound, symmetry; about 2 million states | six safety properties, the contract |
| `deployment_adopted_drift` | the same with 1 fault | divergence 2 |
| `outbox_safety` | 2 keys, 2 events, 2 tries, 1 fault, delays 1 and 2, lease 2, call 1, cooldown 2, symmetry | five safety properties |
| `outbox_liveness` | 1 key, 1 event, 2 faults | `RowsSettle` |
| `event_rules` | 1 gauge with 3 readings, 1 unit, 2 listeners, 1 crash; about 73,000 states | three safety properties, `EventsSettle` |
| `console` | list: 3 events on 2 hosts, one of them known at times, 3 filters, page size 1, largest page 2, 2 snapshots, 2 calls, 4 moves, 1 change of an event; dialog: 1 action, 2 deployments on 2 Agents, 3 submissions, 3 openings, 2 sessions; symmetry; about 3.8 million states | six safety properties |
| `console_filter` | the list of `console`, the events at rest | divergence 4 |
| `console_dialog` | the dialog of `console` | divergence 3 |
| `hub_parts` | see below; about 2.4 million states | nine safety properties |

Why these bounds are enough for the questions asked:

- *Two requests* are needed and suffice for every conflict about `actionMu`, the
  Agent's mutex, the file lock and the release state: each of them has one
  holder, and a third request only adds another loser. *Two releases* make a
  rollback's target change under a confirmation. One restart of each process
  allows every single crash point, and an orphan beside a new call.
  The proofs below need none of these bounds.
- *Three images with two digests* are two references of one digest, which
  `SameImage` has to identify, and one that differs. Two faults are the failing
  step and a failing recovery. The number of executions is not bounded.
- *Two events of one key* are a recurrence, *two keys* show that one rule's
  incidents do not touch another's rows. With two tries there is a first, a
  last and (after a fault) an extra one. A lease longer than the call is what
  `webhookLease` and the client's timeout guarantee. Overdue rows are told apart up to one
  tick, which keeps the order in which they are claimed.
- *Readings 0, 1, 2* lie below, between and at the thresholds. Two listeners are one
  old and one new; the rules treat each gauge and unit alone. A container beside the unit would only double the
  states, since nothing ever reports it failed; the proofs have both.
- *Console.* Two calls are one that is overtaken and one that overtakes; four moves
  start a load, a page, a refresh or filter change and an acknowledgement
  beside each other. The three filters differ in one control each from all hosts and ongoing, so one move selects
  the host that comes and goes, or another lifecycle state. The run starts with the events of that host open
  and the ongoing ones of all hosts selected; other starts are moves away. Page size 1 below the largest page of 2
  makes a refresh of a longer list take several pages; two snapshots and
  three events make eviction happen; six ids are more than four moves use, so an answer never waits for one. Three submissions and openings in two
  sessions are an answer that arrives in the next dialog and in the next session.
- *`hub_parts`.* Registry: 2 hosts with 1 service each, 2 editors, 2 edits, 3 starts, 1 legacy file (two
  edits race or follow each other, a host leaves and returns, an import precedes
  or follows an edit). Probes: 2 services, 3 URLs, 2 targets at most, a pool of 1, 2
  requests (the target limit, a full pool and the lock are all reached). Config: 3
  commands, two of them on different Agents and one for the password, and 1 edit by hand.
  Upgrade: 3 releases, the middle migration of one of which differs, two backups to one
  path beside the script's own, 4 starts, stops or upgrades. Limiters: thresholds 1 and 2, delays 1, 2 and
  the cap 3, 5 units of time, 5 attempts of 2 clients. Helper: 3 helpers, two of which command one unit, 1 change
  of the policy, 1 of the unit.
- The cfgs of `Operations`, `EventOutbox`, `MCConsole` and `MCHubParts` switch off the deadlock check:
  requests, events, moves, commands and attempts are finite, so these instances end
  when all are used up. The others check for deadlock.
- Symmetry is used in safety runs only.

### Fairness

- `Operations`: weak fairness of each handler's next step, of each call on the Agent and of
  `HubStartup`. Handlers do local steps and one HTTP call with a deadline; the
  helper's commands have timeouts; systemd restarts the Hub. `HubTimeout` is
  one of the ways a handler proceeds, so nothing assumes that an Agent answers.
  No browser has to send a request.
- `EventOutbox`: the worker polls for ever, time passes, the Hub is restarted;
  neither a successful delivery nor a scrape is assumed.
- `EventRules`: the Hub is restarted, and complete answers come now and then.
  The latter is an assumption about hosts and network, as the property is about
  what the Hub makes of such answers: without any, carried events stay.
- The console and the parts of `hub_parts` have safety properties only and no fairness.

## 4. What is proved

Eight modules hold machine-checked proofs for every value of the constants (numbers of requests, hosts,
releases, images, keys, events, helpers, commands, listeners, editors, links, calls, restarts and faults),
from the named assumptions of the modules only: marker values differ from proper ones, bounds are naturals, the set of events
is finite, and each release has a plan that repeats no migration. Every safety property of a passing run is among the theorems. Of Operations and
Deployment every safety property of the two safety runs is proved,
and with them the type invariants and `RowsFinal` (a terminal row never changes), which the runs need not repeat:

- Operations: `TypeCorrect`, `Audited`, `ExecutedOnce`, `RowsTruthful`, `HelperExclusive`,
  `RowsOwned`, `RowsFinal`, and `RefinesLedger`.
- Deployment: `TypeCorrect`, `FilesReadable`, `FilesTrue`, `SuccessesDurable`,
  `RollbacksReal`, `RecoveriesIndependent`, `FailuresLeaveService`, and `ImplementsContract`.

- Event lifecycle and outbox: `IncidentsUnique`, `NothingUnqueued`, `RecoveriesFollow`, `AcksPrecede`,
  `CooldownWaited`.
- Event rules: `NoFalseRecovery`, `OldListenersSilent`, `NewListenersAnnounced`, and `NoFalseRisk` (a risk is opened
  only when the host has it), which no run checks.
- Annotations and hosts: `CopyIsStored`, `SavedEditsStay`. Link probes: `RecordIsOneProbes`.
- Migrations, backups and the upgrade: `CrashedMigrationContinues`, `ReportedBackupsWhole`, `RolledBackServes`.
- Console: `AnswersStayHome`, `HeldByOneSubmission`, `FlagsAreOwned`, `RowsMatchFilter`, `RowsAreOneList`,
  `ReloadsKeepRows`.
- Root action helper: `SuccessesOwn`. Configuration commands: `ComparisonsRead`.
- Failure limiters: `LocksHold`.

The argument is the same in all. No property is inductive alone, so each module states one
invariant as a conjunction of named parts, one lemma per action shows that the
action keeps it, and a theorem (`Inductive`, or one named for the invariant) puts them together. The
invariants were model-checked before they were proved.

*Operations.* `IInv` is `TypeOK` with: `DefInv` (a handler past listing has a
definition), `LockInv` (`actionMu` is held exactly by the handler in its
section), `RowInv` and `OpenInv` (which row state belongs to which `pc`, no call before the row was running, and who
owns an open row), `CallInv` (nothing is executed or answered before the helper ran, and a running helper holds
its host's file lock, the orphan included), `DerivedInv` (the three definitions agree
on their identifier), `ReplyInv` (an answer in flight is that of the request's own
execution) and `TruthInv` (so is the verdict, and the row). `TruthfulRow` needs
this chain: the row is true because the verdict is, because the reply was
compared with the definition, because the helper's result names what it did.
Refinement: each action of the handlers maps to one ledger step or to a stutter,
and `HubStartup` to `CloseInterrupted`.

*Deployment.* `IInv` is `TypeOK` with: `JobInv` (what a job's mode implies about its target, base and
commit file), `PhaseInv` (which mode may be at which command), `StoredInv` (what state file and
durable file are at each command: the base, or the commit's file), `RunningInv`
(which image runs at each command), `FoundInv` (unless in doubt, the container found is of the release found), `RecoveryInv` (recovery's faults are its own), `ResultInv`
(what a result says of the last execution), and the properties themselves. The
refinement maps the abstract release state to the base while an execution is
in progress and to the state file when it is done, so that commands stutter and
the last one, a killed helper or a power loss is the abstract `Execute`.

*EventOutbox.* `IInv` is the shape of events, rows and worker record with `TriedInv` (a
row that is or was sent shows its attempt), `QueuedInv` and uniqueness. `QueuedInv` is
what makes the properties inductive: the recovery's row exists for every open that
is *or may still be* announced, so also for one whose delivery fails and is tried again; and it exists only once
the event is resolved, so a new event of the same key starts without one.
Outside a scrape, rows only `Follow` (an attempt stays counted, a settled row stays out of the queue), which
`QuietStep` uses for all those actions; the commit of a scrape is treated event
by event (`EventAfterCommit`). Times play no part in `IInv`. `WaitInv`, proved next to it, is the part about them
(`WaitsCover`): an open delivered before an event of its key opened stays delivered, and until the event's own open is first
sent, what is left of that cooldown is no longer than its wait. A tick shortens both by the same amount, as a row that
is not yet due is not at the bound of overdue rows; a new open's wait covers every cooldown of its key because what is left of
several cooldowns has a longest (`LongestCooldown`, `DelayCovers`: a least-number argument from `NatLessThanWellFounded` and
`WFMin`, which holds for any number of events). The lease reads the due time, so at the first lease nothing is left of any.

*EventRules.* The four are action properties, so they follow from what a scrape signals in a state of `RulesInv`.
`IsSound` says what an observation may claim: nothing the host has not, every failed unit whose collector answered,
and, if complete, every listener. `SignalOf` says when the rules hold a key. A recovery or a risk is then a case
distinction on what is missing. For listeners the history must be tied to what is stored: `BaselineInv` (an
established baseline *is* what was last completely observed; before that, it lies in the rows from which a start backfills)
and `OutageInv` (a stored outage is remembered), without which a replaced baseline could absorb a new listener.

*HostRegistry.* An edit that is alone in its cell owns the row from its statement on (`StoredInv`), and one that is not has put
its cell among those left out (`AloneInv`). The copy follows the row except between the two writes of an edit
(`CopyInv`); and no row is older than what was saved last or tried since.

*LinkProbes.* Only the holder of the lock has targets out and results (`LockInv`), so the pool's bound on
one request (`PoolInv`, counted with the theorems on finite sets) bounds all, and what `ReplaceWebLinkChecks` stores is
its own (`RecordInv`); a request that was answered does not change any more.

*HubUpgrade.* `LedgerInv` is the reason for all the rest: in the database and in every copy, `user_version` counts the
ledger, because one transaction writes both. A Hub that migrates has reached what the file says (`HubInv`), so the
ledger it has compared stays a prefix of its plan. `StoppedInv` says what works on a stopped Hub (the bundle's backup and
nothing else), so the bundle's copy equals the database; `RollbackInv` follows the former database from the file into
the bundle and back. That the bundle's path is nobody else's is an assumption (the script makes the directory itself).

*ConsoleDialogs.* A call that is live was made in this session; one that is out is its dialog's owner and holds it
(`HeldInv`), so a submission finds none out, and an answer that still owns the dialog is the one it waits for.
What is shown belongs to a submission that was made, in this session and, the end of a deployment apart, in this dialog (`ShownInv`).
*EventList.* A loading flag has the call that clears it (`FlagsInv`): whoever advances the sequence number sets the flags for
itself, and only somebody signed in has a flag or a live call (`LiveCallsInv`). `RowsOfChosen` is inductive by itself: every
step leaves the selected filter or draws it (`Drawn`), and drawing is idempotent (`AllHostsTwice`, `DrawnChosen`). From the same two
cases, `RowsLeaveFilter` says that nothing but a drawing without the selected host parts rows and selector (`DrawnParts`).
`ListIsPrefix` and `RowsKept` need `PlacesInv` as well, which says where everybody stands in the Hub's lists. The order of the timeline
and every frozen list repeat no event, and one id names one list (`TimelineInv`). The page, and each call that fetches, holds a beginning
of what is frozen under its id, and asks for what comes behind its last row (`FetchOK`), so a page continues it (`PageContinues`)
and its removal of duplicates removes nothing (`NothingTwice`). "Load more" appends to the list *as it was when
the call began*; that this is still the list holds because at most one call owns it, and only the owner writes it (`MoreOK`,
`OthersKeep`). Snapshots that expire or are evicted only take obligations away, and a new one has an id nobody knows (`HubMoves`).
A reload asks for as many rows as are loaded (`ReloadOK`) and ends with that many or at the end of the list. A change of
filter asks for one page only; it is excepted, since it may come back to the filter of the rows that are still there.
What filtering returns is an induction over a sequence, which is done by least counterexample (`GrowthExists`, `KeptIsList`, from
`LeastNumber`); this is why `EventPages` filters with `Kept`, a recursive function, and not with `SelectSeq`, whose
definition the provers do not have.

*ActionHelper.* Whoever is past the lock holds it (`LockInv`); the last command of
a unit is that of the helper that is verifying it (`OwnInv`). *ConfigFile.* The identity
a command kept is no newer than the one it read, and that no newer than
the one in place (`OrderInv`), so equality of the outer two gives the inner.

*FailureLimiters.* A lock that is set is no longer than the delay of the last recorded failure (`IsAttempt` in `LimiterInv`), so a
later failure, recorded with a delay no shorter, does not shorten it, and an entry idle for longer than the cap is not locked
any more, which is why the cleanup may drop it. That delays grow is a fact about a loop: `Doubled` is
shown to be what the loop computes (`TablesExist`, `TablesAgree`, `DoubledRounds`) and each round to give no less, by least
counterexample (`LeastNumber`, again from `WFMin`).

**Only model-checked:**

- the liveness properties (`LockReleased`, `RowSettles`, `RowsSettle`, `EventsSettle`), which need fairness and are
  out of the prover's reach;
- the violation runs, which are counterexamples.

## 5. Where code and documents differ

1. *Stale confirmation* (`operations_stale_confirmation`). The definition is
   listed and confirmed before the lock is tried and sent by identifier. A
   rollback's identifier does not name its release, so a deployment that
   completes in between makes it execute on another one. The row then reads
   failed (`TruthfulRow` still holds), but the stack was changed.
2. *Adopted drift* (`deployment_adopted_drift`). After a helper was killed
   between the Compose update and the commit, deploying the recorded digest
   under another reference reports success although another image runs.
3. *Left with Escape* (`console_dialog`). The console remembers which accepted
   deployment is on the screen so that its end is written into the window
   (`app.ts:2405`); `closeActionDialog` forgets it, but Escape closes the window
   without that function. The end then appears in the window of whatever is confirmed next.
4. *Selector without its host* (`console_filter`). `docs/web-console.md:71` says the console "binds the visible rows to
   the current filter". Each drawing resets the host filter when `state.agents` lacks the selected host
   (`app.ts:1241`): the host left, or `/api/agents` failed in the first refresh of a new session. Rows and counts of the
   host then stand under "all hosts", without "load more", until the next refresh.

Others were met while modelling and have no run of their own:

- `Discover` never fills a container's health (`discover.go:250`), so the rule for unhealthy containers
  (`event_rules.go:350`; ADR 0007:50) never fires: in `ReportsFailed` only a unit is failed.
- A receiver that accepted an open whose answer was lost hears of no recovery: the retry made the
  row pending again, and recovery cancels pending rows (`notifications.go:79`; ADR 0008:36).
- Without a state file, whatever image runs becomes the previous release, even one that just failed its
  health check and could not be replaced (`deployment_executor_linux.go:85`; ADR 0011:64).
- Only an observation directly after an offline one takes the listeners as known; after offline,
  partial, complete, listeners that appeared during the outage raise events (`event_rules.go:196`; ADR 0007:41).
- An edit of the config that falls between a command's comparison and its rename is
  overwritten (`config.go:243`; `docs/hub-authentication.md:57`).
- Two backups to one path: the second one's `VACUUM` fails because the file exists by then, and its cleanup
  removes the file the first one reported (`sqlite.go:1733`). `BackupIsWhole` excepts
  that case: no other command given the same path has failed since.
- A loss of power inside the EXIT trap of `install-hub.sh`, between the former binary and the former
  database, leaves the two apart until someone restores the bundle by hand; `RollbackServes` speaks of the trap that ends.
- The digest of a legacy file is recorded although entries of unknown hosts were skipped, so they
  are not imported when the host is enrolled later (`legacy_state.go:93`).
- After its deadline a Hub handler unlocks while the helper still runs, so "one fleet-wide
  in-flight action" (ADR 0010) holds for the lock and not for the work, which
  `OneHelperPerHost` limits to one per host.
- A crash after the last lease allows one attempt more than "eight" (ADR 0008).

## 6. Abstractions, and what is not modelled

- HTTP parsing, CSRF, sessions, confirmation phrases and identifiers' hashes: a request
  either reaches the definition it names or does nothing.
- In `Operations` an execution of the helper is one outcome; its commands are in `ActionHelper` and `Deployment`.
  Command lines, redaction and the policy's syntax checks are data.
- `EventOutbox` lets any set of rules fire, `EventRules` derives the set; the two are not composed.
  One host and one channel: rows and baselines of others are separate.
- In `EventRules` a scrape is one step. What it reads under `eventMu` is what it
  replaces, and one host is scraped by one call at a time; the host changing while it is scraped shows
  as two observations. Severities, wording and detail are left out.
- Payload, signature and jitter of a Webhook are data; the retry delays are a constant sequence.
- In `EventPages` ids, limits and filters are data, the `offset` parameter is left out. In `HubUpgrade` a
  migration is its checksum, and the rows of the database are left out. In
  `LinkProbes` a link is a URL with an outcome. In `FailureLimiters` passwords and tokens are right or wrong by choice.
- Not modelled: proxy route and posture parsers and the collectors' parsers (pure
  functions of one input); password hashing, cookies and the creation of the session secret;
  the history views; the annotation dialog, the capability caches and the drawing of the console beyond its selector of hosts; the scraper's one
  retry after a 404 and its parallel hosts; the syntax of config and Webhook settings; `install-agent.sh` and
  the type generator. The hazards that lie there are listed in `PROJECT.json` with a note.

## 7. Plan

Done: every module of section 2 is checked, and every safety property of the runs is proved. What is left, the
most important first:

1. An abstract specification of the event lifecycle that `EventOutbox` implements.
2. The scraper's transport with its retry, and several hosts at once.
3. `EventRules` as the source of the rules that fire in `EventOutbox`.
