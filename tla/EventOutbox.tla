----------------------------- MODULE EventOutbox -----------------------------
(***************************************************************************)
(* The event lifecycle of one host and the durable Webhook outbox of the   *)
(* Hub: the scraper's transaction that reconciles firing rules with the    *)
(* unresolved events and enqueues one row per transition, the operator's   *)
(* acknowledgement, the single delivery worker that leases a row before it *)
(* posts it, the receiver, and the crash of the Hub at any step.           *)
(*                                                                         *)
(* Time is relative: a row holds the ticks until it is due (negative once  *)
(* overdue) and until its cooldown ends, so no clock grows.  Which rules   *)
(* fire is any set of keys here; module EventRules derives it.             *)
(***************************************************************************)
EXTENDS Integers, Sequences

CONSTANTS
  Keys,          \* deduplication keys of the host's rules
  Events,        \* identities of events, which bound how many open
  NoKey,         \* the key of an event that does not exist yet
  MaxTries,      \* maximumWebhookTries
  Lease,         \* webhookLease
  CallTime,      \* the HTTP client's timeout
  Cooldown,      \* the channel policy's cooldown
  RetryDelays,   \* the delay after each attempt; the last one is for all later ones
  MaxOverdue,    \* overdue rows keep their order up to this many ticks
  MaxFaults      \* bound on crashes and failed writes of the worker

ASSUME OutboxAssumption ==
  /\ NoKey \notin Keys
  /\ MaxTries \in Nat \ {0}
  /\ CallTime \in Nat /\ Lease \in Nat /\ CallTime < Lease
  /\ Cooldown \in Nat /\ MaxOverdue \in Nat /\ MaxFaults \in Nat
  /\ RetryDelays \in Seq(Nat) /\ RetryDelays # <<>>

VARIABLES
  up,        \* the Hub process runs
  events,    \* the event table: key and state
  outbox,    \* the notification row of each event and transition
  scraping,  \* a scrape has taken its time and is not yet applied
  lateAcks,  \* events acknowledged since the running scrape took its time
  worker,    \* what the delivery worker is doing
  seen,      \* deliveries the receiver has accepted
  prior,     \* history: events of the same key whose open was already
             \* delivered when the event opened
  faults

vars == <<up, events, outbox, scraping, lateAcks, worker, seen, prior, faults>>

Transitions == {"opened", "recovered"}
Notes == Events \X Transitions
Opened(e) == <<e, "opened">>
Recovered(e) == <<e, "recovered">>

NoEvent == [key |-> NoKey, state |-> "none"]
NoRow == [state |-> "none", attempts |-> 0, due |-> 0, cool |-> 0]
Queued(due) == [state |-> "pending", attempts |-> 0, due |-> due, cool |-> 0]
Live == {"pending", "sending"}
Settled == {"delivered", "cancelled", "failed"}

Idle == [phase |-> "idle"]

Unresolved == {e \in Events : events[e].state \in {"active", "acknowledged"}}
Max0(n) == IF n > 0 THEN n ELSE 0
-----------------------------------------------------------------------------
Init ==
  /\ up = TRUE
  /\ events = [e \in Events |-> NoEvent]
  /\ outbox = [n \in Notes |-> NoRow]
  /\ scraping = FALSE
  /\ lateAcks = {}
  /\ worker = Idle
  /\ seen = {}
  /\ prior = [e \in Events |-> {}]
  /\ faults = 0
-----------------------------------------------------------------------------
(* scrapeOne takes the observation's time before it contacts the Agent.    *)
ScrapeStart ==
  /\ up /\ ~scraping
  /\ scraping' = TRUE
  /\ lateAcks' = {}
  /\ UNCHANGED <<prior, up, events, outbox, worker, seen, faults>>

DeliveredOpens(k) ==
  {e \in Events : events[e].key = k /\ outbox[Opened(e)].state = "delivered"}

(* The cooldown that delays a new open of key k: what is left of the one   *)
(* started by the latest delivered open of the same key.                   *)
(* Mutant CooldownIgnored: the delay is not applied.                       *)
CooldownIgnored(k) == 0
CooldownLeft(k) ==
  LET left == {outbox[Opened(e)].cool : e \in DeliveredOpens(k)}
  IN  IF left = {} THEN 0 ELSE CHOOSE c \in left : \A d \in left : d <= c

(* Mutants: an open that is being sent does not count as seen; a pending   *)
(* open is left in the queue.                                              *)
RowAfterRecoveryUnsent(e, n) ==
  LET open == outbox[Opened(e)]
  IN  CASE n = Opened(e) /\ open.state = "pending" -> [open EXCEPT !.state = "cancelled"]
        [] n = Recovered(e) /\ open.state = "delivered" -> Queued(0)
        [] OTHER -> outbox[n]
RowAfterRecoveryUncancelled(e, n) ==
  LET open == outbox[Opened(e)]
  IN  IF n = Recovered(e) /\ open.state \in {"pending", "sending", "delivered"}
      THEN Queued(0) ELSE outbox[n]

(* enqueueEventNotificationsTx for a recovered event: a pending open is    *)
(* cancelled; only an open being sent or delivered is followed by its      *)
(* recovery.                                                               *)
RowAfterRecovery(e, n) ==
  LET open == outbox[Opened(e)]
  IN  CASE n = Opened(e) /\ open.state = "pending" -> [open EXCEPT !.state = "cancelled"]
        [] n = Recovered(e) /\ open.state \in {"sending", "delivered"} -> Queued(0)
        [] OTHER -> outbox[n]

(* The rows after the transitions of one observation.                      *)
Enqueue(opening, recovering) ==
  [n \in Notes |->
     LET e == n[1]
     IN  CASE e \in DOMAIN opening /\ n = Opened(e) -> Queued(CooldownLeft(opening[e]))
           [] e \in recovering -> RowAfterRecovery(e, n)
           [] OTHER -> outbox[n]]

(* Mutant: the late acknowledgement is not validated.                      *)
ReconcileUnvalidated(firing, recovering) == TRUE

(* Event.Validate rejects an acknowledgement later than the recovery, and  *)
(* with it the whole transaction.                                          *)
ReconcileAccepts(firing, recovering) == recovering \cap lateAcks = {}

(* One transaction under eventMu: keys that fire without an unresolved     *)
(* event open one, unresolved events whose key fires no more resolve, and  *)
(* every transition gets its row.  Any failure rolls everything back.      *)
ScrapeApply(firing) ==
  LET current == {events[e].key : e \in Unresolved}
      recovering == {e \in Unresolved : events[e].key \notin firing}
      free == {e \in Events : events[e].state = "none"}
  IN  /\ up /\ scraping
      /\ scraping' = FALSE
      /\ lateAcks' = {}
      /\ \/ /\ ReconcileAccepts(firing, recovering)
            /\ \E new \in SUBSET free : \E opening \in [new -> firing \ current] :
                 /\ \A k \in firing \ current : \E e \in new : opening[e] = k
                 /\ \A e, f \in new : opening[e] = opening[f] => e = f
                 /\ events' = [e \in Events |->
                      CASE e \in new -> [key |-> opening[e], state |-> "active"]
                        [] e \in recovering -> [events[e] EXCEPT !.state = "resolved"]
                        [] OTHER -> events[e]]
                 /\ outbox' = Enqueue(opening, recovering)
                 /\ prior' = [e \in Events |-> IF e \in new THEN DeliveredOpens(opening[e])
                                              ELSE prior[e]]
         \/ UNCHANGED <<events, outbox, prior>>
      /\ UNCHANGED <<up, worker, seen, faults>>

(* Mutant: a resolved event can be acknowledged again.                     *)
AcknowledgeAny(e) ==
  /\ up /\ events[e].state # "none"
  /\ events' = [events EXCEPT ![e].state = "acknowledged"]
  /\ lateAcks' = IF scraping THEN lateAcks \cup {e} ELSE lateAcks
  /\ UNCHANGED <<prior, up, outbox, scraping, worker, seen, faults>>

(* AcknowledgeEvent: only an active event changes.                         *)
Acknowledge(e) ==
  /\ up /\ events[e].state = "active"
  /\ events' = [events EXCEPT ![e].state = "acknowledged"]
  /\ lateAcks' = IF scraping THEN lateAcks \cup {e} ELSE lateAcks
  /\ UNCHANGED <<prior, up, outbox, scraping, worker, seen, faults>>
-----------------------------------------------------------------------------
(* The delivery worker.                                                    *)

(* Mutant: expired leases are not claimed again.                           *)
ClaimablePending == {n \in Notes : outbox[n].state = "pending" /\ outbox[n].due <= 0}

(* Rows that are due: pending ones and leases that expired.                *)
Claimable == {n \in Notes : outbox[n].state \in Live /\ outbox[n].due <= 0}

(* ClaimEventNotification leases the row that is due longest.              *)
Claim(n) ==
  /\ up /\ worker = Idle
  /\ n \in Claimable
  /\ \A m \in Claimable : outbox[n].due <= outbox[m].due
  /\ outbox' = [outbox EXCEPT ![n].state = "sending", ![n].attempts = @ + 1,
                              ![n].due = Lease]
  /\ worker' = [phase |-> "leased", note |-> n, age |-> 0]
  /\ UNCHANGED <<prior, up, events, scraping, lateAcks, seen, faults>>

Answered(answer) ==
  worker' = [phase |-> "answered", note |-> worker.note, age |-> worker.age, answer |-> answer]

(* The POST: an accepted delivery may still look like a timeout or a 5xx   *)
(* to the worker; a refused one is a 4xx or 3xx.                           *)
Post ==
  /\ up /\ worker.phase = "leased"
  /\ \/ /\ seen' = seen \cup {worker.note}
        /\ \E answer \in {"ok", "retry"} : Answered(answer)
     \/ /\ \E answer \in {"retry", "refused"} : Answered(answer)
        /\ UNCHANGED seen
  /\ UNCHANGED <<prior, up, events, outbox, scraping, lateAcks, faults>>

Terminal(answer, attempts) == answer = "refused" \/ attempts >= MaxTries

RetryDelay(attempt) ==
  RetryDelays[IF attempt < Len(RetryDelays) THEN attempt ELSE Len(RetryDelays)]

(* The row after its attempt.  Times count from the claim.                 *)
RowAfterAttempt(n, answer, age) ==
  LET row == outbox[n]
  IN
  CASE answer = "ok" -> [row EXCEPT !.state = "delivered", !.due = 0,
                                    !.cool = IF n[2] = "opened" THEN Max0(Cooldown - age) ELSE 0]
    [] answer # "ok" /\ Terminal(answer, row.attempts) -> [row EXCEPT !.state = "failed", !.due = 0]
    [] OTHER -> [row EXCEPT !.state = "pending", !.due = RetryDelay(row.attempts) - age]

(* MarkEventNotificationDelivered or RetryEventNotification, which only    *)
(* change a row that is still leased.  A failed write leaves the lease.    *)
Settle ==
  /\ up /\ worker.phase = "answered"
  /\ \/ /\ outbox[worker.note].state = "sending"
        /\ outbox' = [outbox EXCEPT ![worker.note] =
                        RowAfterAttempt(worker.note, worker.answer, worker.age)]
        /\ UNCHANGED faults
     \/ /\ faults < MaxFaults
        /\ faults' = faults + 1
        /\ UNCHANGED outbox
  /\ worker' = Idle
  /\ UNCHANGED <<prior, up, events, scraping, lateAcks, seen>>
-----------------------------------------------------------------------------
(* The process ends with its scrape and its delivery; the tables stay.     *)
Crash ==
  /\ up /\ faults < MaxFaults
  /\ faults' = faults + 1
  /\ up' = FALSE
  /\ worker' = Idle
  /\ scraping' = FALSE
  /\ lateAcks' = {}
  /\ UNCHANGED <<prior, events, outbox, seen>>

Restart ==
  /\ ~up
  /\ up' = TRUE
  /\ UNCHANGED <<prior, events, outbox, scraping, lateAcks, worker, seen, faults>>

Aged(row) ==
  [row EXCEPT !.due = IF row.state \in Live /\ @ > -MaxOverdue THEN @ - 1 ELSE @,
              !.cool = Max0(@ - 1)]

(* One tick.  A call in progress ends within the client's timeout.         *)
Tick ==
  /\ worker # Idle => worker.age < CallTime
  /\ \E n \in Notes : Aged(outbox[n]) # outbox[n]
  /\ outbox' = [n \in Notes |-> Aged(outbox[n])]
  /\ worker' = IF worker = Idle THEN Idle ELSE [worker EXCEPT !.age = @ + 1]
  /\ UNCHANGED <<prior, up, events, scraping, lateAcks, seen, faults>>
-----------------------------------------------------------------------------
WorkerStep == (\E n \in Notes : Claim(n)) \/ Post \/ Settle

Next ==
  \/ ScrapeStart
  \/ \E firing \in SUBSET Keys : ScrapeApply(firing)
  \/ \E e \in Events : Acknowledge(e)
  \/ WorkerStep
  \/ Crash \/ Restart \/ Tick

Spec == Init /\ [][Next]_vars

(* The worker polls for ever, time passes, and systemd restarts the Hub.   *)
Fairness == WF_vars(WorkerStep) /\ WF_vars(Tick) /\ WF_vars(Restart)
FairSpec == Spec /\ Fairness
-----------------------------------------------------------------------------
(* Every event, row and worker record has the shape the tables allow.      *)
TypeOK ==
  /\ up \in BOOLEAN /\ scraping \in BOOLEAN
  /\ events \in [Events -> [key: Keys \cup {NoKey},
                            state: {"none", "active", "acknowledged", "resolved"}]]
  /\ outbox \in [Notes -> [state: {"none"} \cup Live \cup Settled, attempts: Nat,
                           due: Int, cool: Nat]]
  /\ lateAcks \subseteq Events
  /\ worker \in {Idle} \cup [phase: {"leased"}, note: Notes, age: 0..CallTime]
                \cup [phase: {"answered"}, note: Notes, age: 0..CallTime,
                      answer: {"ok", "retry", "refused"}]
  /\ seen \subseteq Notes
  /\ prior \in [Events -> SUBSET Events]
  /\ faults \in 0..MaxFaults

(* At most one unresolved event per rule key, through opens, recoveries    *)
(* and acknowledgements in every order (events_active_dedupe_idx).         *)
OneUnresolvedPerKey ==
  \A e, f \in Unresolved : events[e].key = events[f].key => e = f

(* An event never appears as acknowledged after its recovery: a recovery   *)
(* older than the operator's acknowledgement is not recorded.              *)
AckPrecedesRecovery ==
  [][\A e \in Events : events[e].state # "resolved" /\ events'[e].state = "resolved"
                       => e \notin lateAcks]_vars

(* A committed transition cannot disappear: every event keeps the row of   *)
(* its open, and a recovered event whose open was delivered has the row of *)
(* its recovery, also when the open was still being sent at recovery.      *)
TransitionsQueued ==
  \A e \in Events :
    /\ events[e].state # "none" => outbox[Opened(e)].state # "none"
    /\ events[e].state = "resolved" /\ outbox[Opened(e)].state = "delivered"
         => outbox[Recovered(e)].state # "none"

(* No recovery is announced for an open that nobody tried to send, and no  *)
(* open is left to be sent first after its event recovered.                *)
NoUnseenRecovery ==
  \A e \in Events :
    /\ outbox[Recovered(e)].state # "none" => outbox[Opened(e)].attempts > 0
    /\ events[e].state = "resolved" /\ outbox[Opened(e)].state = "pending"
         => outbox[Opened(e)].attempts > 0

(* A recurrence waits out the cooldown: an open is first sent only when    *)
(* that of every earlier delivered open of its key has ended, however long *)
(* the incident, its retries and the outage in between took.               *)
CooldownRespected ==
  [][\A f \in Events :
       outbox[Opened(f)].attempts = 0 /\ outbox'[Opened(f)].attempts = 1
       => \A e \in prior[f] : outbox[Opened(e)].cool = 0]_vars

(* Every queued notification is delivered, cancelled or given up at last,  *)
(* also across crashes between its lease, its POST and its completion.     *)
RowsSettle ==
  \A n \in Notes : outbox[n].state \in Live ~> outbox[n].state \in Settled
=============================================================================
