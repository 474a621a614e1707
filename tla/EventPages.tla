----------------------------- MODULE EventPages -----------------------------
(***************************************************************************)
(* GET /api/events on the Hub: the order of the operator timeline and the  *)
(* in-memory snapshots of event ids that let a browser page through a list *)
(* that keeps changing.  Identifiers, limits and filters are data; row     *)
(* contents are left out.  Snapshots die by age, by eviction and with the  *)
(* process.                                                                *)
(***************************************************************************)
EXTENDS Integers, Sequences, FiniteSets, SequencesExt

CONSTANTS
  Events, HostOf,    \* event ids and the host each belongs to
  Filters,           \* [host, state] queries; host "" is every host
  Tokens,            \* snapshot ids
  NoEvent, NoToken,  \* the empty query parameters
  MaxPage,           \* eventsMaximumLimit
  TokenLimit,        \* eventSnapshotLimit
  MaxChanges         \* bound on changes of the event table

States == {"active", "acknowledged", "resolved"}

ASSUME PagesAssumption ==
  /\ IsFiniteSet(Events)
  /\ NoEvent \notin Events /\ NoToken \notin Tokens
  /\ MaxPage \in Nat \ {0} /\ TokenLimit \in Nat \ {0} /\ MaxChanges \in Nat

VARIABLES
  condition,   \* Events -> "absent" or a lifecycle state
  recency,     \* the stored events, the last observed first
  snapshots,   \* the live snapshots, the oldest first
  changes

pageVars == <<condition, recency, snapshots, changes>>
-----------------------------------------------------------------------------
(* Those of S in the order of s: SelectSeq, as a function that proofs can   *)
(* expand.                                                                 *)
Kept(s, S) ==
  LET kept[i \in 0..Len(s)] ==
        IF i = 0 THEN <<>>
        ELSE IF s[i] \in S THEN Append(kept[i - 1], s[i]) ELSE kept[i - 1]
  IN kept[Len(s)]

PagesInit ==
  /\ condition \in [Events -> {"absent", "active"}]
  /\ recency \in {s \in SeqOf(Events, Cardinality(Events)) :
                   IsInjective(s) /\ ToSet(s) = {e \in Events : condition[e] # "absent"}}
  /\ snapshots = <<>>
  /\ changes = 0
-----------------------------------------------------------------------------
(* An answer: "all" is the whole frozen list, whose length the response    *)
(* gives as matchedCount.                                                  *)
Blank(status) == [status |-> status, token |-> NoToken, ids |-> <<>>, all |-> <<>>, more |-> FALSE]

(* The event table, as EventOutbox's transactions leave it.                *)

Change == changes < MaxChanges /\ changes' = changes + 1 /\ UNCHANGED snapshots

OpenEvent(e) ==
  /\ condition[e] = "absent" /\ Change
  /\ condition' = [condition EXCEPT ![e] = "active"]
  /\ recency' = <<e>> \o recency

Observe(e) ==
  /\ condition[e] \in {"active", "acknowledged"} /\ Change
  /\ recency' = <<e>> \o Kept(recency, Events \ {e})
  /\ UNCHANGED condition

(* POST /api/events/ack: idempotent, and refused for a resolved event.     *)
Acknowledge(e, answer) ==
  /\ answer = Blank(IF condition[e] = "resolved" THEN "failed" ELSE "ok")
  /\ condition' = [condition EXCEPT ![e] = IF @ = "active" THEN "acknowledged" ELSE @]
  /\ UNCHANGED <<recency, snapshots, changes>>

Recover(e) ==
  /\ condition[e] \in {"active", "acknowledged"} /\ Change
  /\ condition' = [condition EXCEPT ![e] = "resolved"]
  /\ UNCHANGED recency
-----------------------------------------------------------------------------
(* The list.                                                               *)

Wanted(state) ==
  CASE state \in {"", "all"} -> States
    [] state = "ongoing" -> {"active", "acknowledged"}
    [] OTHER -> {state}

Matches(e, filter) == filter.host \in {"", HostOf[e]} /\ condition[e] \in Wanted(filter.state)

(* ORDER BY the lifecycle state, then the last observation.                *)
EventIDs(filter) ==
  LET Block(s) == Kept(recency, {e \in Events : condition[e] = s /\ Matches(e, filter)})
  IN Block("active") \o Block("acknowledged") \o Block("resolved")

PutSnapshot(token, filter) ==
  LET new == [token |-> token, filter |-> filter, ids |-> EventIDs(filter)]
      kept == IF Len(snapshots) < TokenLimit THEN snapshots ELSE Tail(snapshots)
  IN Append(kept, new)

(* Mutant: a page is cut from the list as it is now.                       *)
PageOfLiveOrder(query, s) ==
  LET live == EventIDs(query.filter)
      start == IF query.after \in ToSet(live) THEN CHOOSE i \in 1..Len(live) : live[i] = query.after ELSE 0
      end == IF start + query.limit > Len(live) THEN Len(live) ELSE start + query.limit
  IN [status |-> "ok", token |-> s.token, ids |-> SubSeq(live, start + 1, end),
      all |-> s.ids, more |-> end < Len(live)]

(* A query is [filter, limit, token, after]; the ids of a page are the ones *)
(* behind the cursor in the frozen list.                                   *)

Page(query, s) ==
  LET start == IF query.after = NoEvent THEN 0
               ELSE CHOOSE i \in 1..Len(s.ids) : s.ids[i] = query.after
      end == IF start + query.limit > Len(s.ids) THEN Len(s.ids) ELSE start + query.limit
  IN [status |-> "ok", token |-> s.token, ids |-> SubSeq(s.ids, start + 1, end),
      all |-> s.ids, more |-> end < Len(s.ids)]

(* The live snapshot a later page may be cut from: the same token, the     *)
(* same filter, and the cursor in it.                                      *)
Usable(query) ==
  {s \in ToSet(snapshots) : /\ s.token = query.token /\ s.filter = query.filter
                            /\ query.after \in {NoEvent} \cup ToSet(s.ids)}

(* A first page is cut from the snapshot it freezes.                       *)
FirstPage(query, token) ==
  /\ query.token = NoToken
  /\ snapshots' = PutSnapshot(token, query.filter)
  /\ UNCHANGED <<condition, recency, changes>>

LaterPages(query) == IF Usable(query) = {} THEN {Blank("failed")} ELSE {Page(query, s) : s \in Usable(query)}

(* The oldest snapshot passes its hour.                                    *)
ExpireSnapshot ==
  /\ snapshots # <<>>
  /\ snapshots' = Tail(snapshots)
  /\ UNCHANGED <<condition, recency, changes>>

EventsStep ==
  \/ \E e \in Events : OpenEvent(e) \/ Observe(e) \/ Recover(e)
  \/ ExpireSnapshot
=============================================================================
