-------------------------- MODULE EventOutboxProofs --------------------------
(***************************************************************************)
(* The event lifecycle and its outbox, for any number of keys, events,     *)
(* tries and faults: incidents are unique, their notifications are queued  *)
(* with the transition and never announced for an open nobody sent, and    *)
(* for any cooldown and any delays a recurrence waits out the cooldown.    *)
(* Times play no part in IInv; WaitInv, at the end, is about them.         *)
(***************************************************************************)
EXTENDS EventOutbox, WellFoundedInduction, TLAPS

RowStates == {"none"} \cup Live \cup Settled
Sent == {"sending", "delivered", "failed"}
Announced == {"pending", "sending", "delivered"}

EventsOK ==
  events \in [Events -> [key : Keys \cup {NoKey}, state : {"none", "active", "acknowledged", "resolved"}]]

(* Due times and cooldowns are left open: only the fields' names matter.   *)
IsRow(row) == DOMAIN row = DOMAIN NoRow /\ row.state \in RowStates /\ row.attempts \in Nat

RowsOK == DOMAIN outbox = Notes /\ \A n \in Notes : IsRow(outbox[n])

WorkerOK ==
  worker # Idle => {"phase", "note"} \subseteq DOMAIN worker /\ worker.note \in Notes

ShapeOK == EventsOK /\ RowsOK /\ WorkerOK

(* A row that was leased once shows its attempt.                           *)
TriedInv == \A n \in Notes : outbox[n].state \in Sent => outbox[n].attempts > 0

(* Every open is queued; a recovery follows any open that is or may still  *)
(* be announced, and comes only after it, and only once it was tried.      *)
QueuedInv ==
  \A e \in Events :
    /\ events[e].state # "none" => outbox[Opened(e)].state # "none"
    /\ events[e].state = "resolved" /\ outbox[Opened(e)].state \in Announced
         => outbox[Recovered(e)].state # "none"
    /\ outbox[Recovered(e)].state # "none"
         => events[e].state = "resolved" /\ outbox[Opened(e)].attempts > 0
    /\ events[e].state = "resolved" /\ outbox[Opened(e)].state = "pending"
         => outbox[Opened(e)].attempts > 0

IInv == ShapeOK /\ TriedInv /\ QueuedInv /\ OneUnresolvedPerKey
-----------------------------------------------------------------------------
(* The two notes of an event are different notes, and of no other event.   *)
LEMMA NotesOfEvents ==
  /\ \A e \in Events : Opened(e) \in Notes /\ Recovered(e) \in Notes
  /\ \A e, f \in Events : Opened(e) # Recovered(f)
  /\ \A e, f \in Events : Opened(e) = Opened(f) => e = f
  /\ \A e, f \in Events : Recovered(e) = Recovered(f) => e = f
  /\ \A n \in Notes : n[1] \in Events /\ n \in {Opened(n[1]), Recovered(n[1])}
BY DEF Opened, Recovered, Notes, Transitions

(* The tables are empty at first.                                          *)
LEMMA InitInv == Init => IInv
<1> SUFFICES ASSUME Init
             PROVE  IInv
  OBVIOUS
<1>1. \A n \in Notes : outbox[n] = NoRow
  BY DEF Init
<1>2. \A e \in Events : events[e] = NoEvent
  BY DEF Init
<1>3. EventsOK /\ WorkerOK
  BY DEF Init, EventsOK, WorkerOK, NoEvent
<1>4. RowsOK /\ TriedInv
  BY <1>1 DEF Init, RowsOK, IsRow, NoRow, RowStates, TriedInv, Sent
<1>5. QueuedInv
  BY <1>1, <1>2, NotesOfEvents DEF QueuedInv, NoRow, NoEvent
<1>6. OneUnresolvedPerKey
  BY <1>2 DEF OneUnresolvedPerKey, Unresolved, NoEvent
<1> QED BY <1>3, <1>4, <1>5, <1>6 DEF IInv, ShapeOK

(* How a row may change outside a scrape: it does not vanish or appear, an *)
(* attempt stays counted, and a row that is settled stays out of the queue.*)
Follows(old, new) ==
  /\ IsRow(new)
  /\ new.state = "none" <=> old.state = "none"
  /\ old.attempts > 0 => new.attempts > 0
  /\ new.state \in Sent => new.attempts > 0
  /\ new.state = "pending" => old.state = "pending" \/ new.attempts > 0
  /\ new.state \in Announced => old.state \in Announced

(* Steps that neither open nor resolve an event keep the invariant when    *)
(* every row follows.                                                      *)
LEMMA QuietStep ==
  ASSUME IInv, EventsOK', WorkerOK', DOMAIN outbox' = Notes,
         \A n \in Notes : Follows(outbox[n], outbox'[n]),
         \A e \in Events : /\ events'[e].key = events[e].key
                           /\ events'[e].state = "none" <=> events[e].state = "none"
                           /\ events'[e].state = "resolved" <=> events[e].state = "resolved"
  PROVE  IInv'
<1>1. RowsOK' /\ TriedInv'
  BY DEF RowsOK, TriedInv, Follows
<1>2. QueuedInv'
  <2> SUFFICES ASSUME NEW e \in Events
               PROVE  /\ events'[e].state # "none" => outbox'[Opened(e)].state # "none"
                      /\ events'[e].state = "resolved" /\ outbox'[Opened(e)].state \in Announced
                           => outbox'[Recovered(e)].state # "none"
                      /\ outbox'[Recovered(e)].state # "none"
                           => events'[e].state = "resolved" /\ outbox'[Opened(e)].attempts > 0
                      /\ events'[e].state = "resolved" /\ outbox'[Opened(e)].state = "pending"
                           => outbox'[Opened(e)].attempts > 0
    BY DEF QueuedInv
  <2>1. Follows(outbox[Opened(e)], outbox'[Opened(e)]) /\ Follows(outbox[Recovered(e)], outbox'[Recovered(e)])
    BY NotesOfEvents
  <2> QED BY <2>1 DEF IInv, QueuedInv, Follows
<1>3. OneUnresolvedPerKey'
  <2>1. Unresolved' = Unresolved
    BY DEF Unresolved, IInv, ShapeOK, EventsOK
  <2> QED BY <2>1 DEF OneUnresolvedPerKey, IInv, Unresolved
<1> QED BY <1>1, <1>2, <1>3 DEF IInv, ShapeOK

(* A row that does not change follows.                                     *)
LEMMA SameRow == IInv => \A n \in Notes : Follows(outbox[n], outbox[n])
BY DEF IInv, ShapeOK, RowsOK, TriedInv, Follows

(* Steps that leave both tables alone.                                     *)
LEMMA UntouchedTables ==
  ASSUME IInv, UNCHANGED <<events, outbox>>, WorkerOK'
  PROVE  IInv'
BY SameRow, QuietStep DEF IInv, ShapeOK, EventsOK, RowsOK

(* An acknowledgement resolves nothing.                                    *)
LEMMA AcknowledgeInv == ASSUME IInv, NEW e \in Events, Acknowledge(e) PROVE IInv'
<1>1. EventsOK' /\ WorkerOK'
  BY DEF Acknowledge, IInv, ShapeOK, EventsOK, WorkerOK
<1>2. \A f \in Events : /\ events'[f].key = events[f].key
                        /\ events'[f].state = "none" <=> events[f].state = "none"
                        /\ events'[f].state = "resolved" <=> events[f].state = "resolved"
  BY DEF Acknowledge, IInv, ShapeOK, EventsOK
<1>3. outbox' = outbox /\ DOMAIN outbox = Notes
  BY DEF Acknowledge, IInv, ShapeOK, RowsOK
<1> QED BY <1>1, <1>2, <1>3, SameRow, QuietStep

(* A step of the worker that changes the row of one note.                  *)
LEMMA OneRow ==
  ASSUME IInv, NEW n \in Notes, NEW row, outbox' = [outbox EXCEPT ![n] = row], Follows(outbox[n], row),
         UNCHANGED events, WorkerOK'
  PROVE  IInv'
<1>1. DOMAIN outbox' = Notes /\ \A m \in Notes : Follows(outbox[m], outbox'[m])
  BY SameRow DEF IInv, ShapeOK, RowsOK
<1> QED BY <1>1, QuietStep DEF IInv, ShapeOK, EventsOK

(* A lease counts its attempt before anything is sent.                     *)
LEMMA ClaimInv == ASSUME IInv, NEW n \in Notes, Claim(n) PROVE IInv'
<1> DEFINE row == [outbox[n] EXCEPT !.state = "sending", !.attempts = @ + 1, !.due = Lease]
<1>1. IsRow(outbox[n]) /\ outbox[n].state \in Live
  BY DEF IInv, ShapeOK, RowsOK, Claim, Claimable
<1>2. DOMAIN row = DOMAIN NoRow /\ row.state = "sending" /\ row.attempts = outbox[n].attempts + 1
  BY <1>1 DEF IsRow, NoRow
<1>3. outbox' = [outbox EXCEPT ![n] = row] /\ events' = events
  BY DEF Claim
<1>4. WorkerOK'
  BY DEF Claim, WorkerOK
<1> HIDE DEF row
<1>5. Follows(outbox[n], row)
  BY <1>1, <1>2 DEF Follows, IsRow, RowStates, Live, Settled, Sent, Announced
<1> QED BY <1>3, <1>4, <1>5, OneRow

(* What an attempt makes of a leased row.                                  *)
LEMMA AttemptFollows ==
  ASSUME IInv, NEW n \in Notes, NEW answer, NEW age, outbox[n].state = "sending"
  PROVE  Follows(outbox[n], RowAfterAttempt(n, answer, age))
<1> DEFINE row == RowAfterAttempt(n, answer, age)
<1>1. IsRow(outbox[n]) /\ outbox[n].attempts > 0
  BY DEF IInv, ShapeOK, RowsOK, TriedInv, Sent
<1>2. DOMAIN row = DOMAIN NoRow /\ row.attempts = outbox[n].attempts
      /\ row.state \in {"delivered", "failed", "pending"}
  BY <1>1 DEF RowAfterAttempt, IsRow, NoRow
<1>3. Follows(outbox[n], row)
  <2> HIDE DEF row
  <2> QED BY <1>1, <1>2 DEF Follows, IsRow, RowStates, Live, Settled, Sent, Announced
<1> QED BY <1>3

(* The completion changes a row that is still leased, or nothing.          *)
LEMMA SettleInv == ASSUME IInv, Settle PROVE IInv'
<1>1. events' = events /\ worker' = Idle /\ WorkerOK'
  BY DEF Settle, WorkerOK
<1>2. CASE UNCHANGED outbox
  BY <1>1, <1>2, UntouchedTables
<1>3. CASE /\ outbox[worker.note].state = "sending"
           /\ outbox' = [outbox EXCEPT ![worker.note] =
                           RowAfterAttempt(worker.note, worker.answer, worker.age)]
  <2>1. worker.note \in Notes
    BY DEF IInv, ShapeOK, WorkerOK, Settle, Idle
  <2> QED BY <1>1, <1>3, <2>1, AttemptFollows, OneRow
<1> QED BY <1>2, <1>3 DEF Settle

(* Time changes due times and cooldowns only.                              *)
LEMMA TickInv == ASSUME IInv, Tick PROVE IInv'
<1>1. events' = events /\ outbox' = [n \in Notes |-> Aged(outbox[n])]
  BY DEF Tick
<1>2. WorkerOK'
  BY DEF Tick, IInv, ShapeOK, WorkerOK
<1>3. ASSUME NEW n \in Notes
      PROVE  Follows(outbox[n], outbox'[n])
  <2>1. IsRow(outbox[n]) /\ Follows(outbox[n], outbox[n])
    BY SameRow DEF IInv, ShapeOK, RowsOK
  <2>2. DOMAIN Aged(outbox[n]) = DOMAIN NoRow /\ Aged(outbox[n]).state = outbox[n].state
        /\ Aged(outbox[n]).attempts = outbox[n].attempts
    BY <2>1 DEF Aged, IsRow, NoRow
  <2> QED BY <1>1, <2>1, <2>2 DEF Follows, IsRow
<1> QED BY <1>1, <1>2, <1>3, QuietStep DEF IInv, ShapeOK, EventsOK
-----------------------------------------------------------------------------
(* The transaction of a scrape, when it commits: some events open, one for *)
(* each firing key without an unresolved event, and those whose key fires  *)
(* no more resolve.                                                        *)
Commits(firing, new, opening, recovering) ==
  /\ recovering = {e \in Unresolved : events[e].key \notin firing}
  /\ new \subseteq {e \in Events : events[e].state = "none"}
  /\ opening \in [new -> firing \ {events[e].key : e \in Unresolved}]
  /\ \A e, f \in new : opening[e] = opening[f] => e = f
  /\ events' = [e \in Events |->
                  CASE e \in new -> [key |-> opening[e], state |-> "active"]
                    [] e \in recovering -> [events[e] EXCEPT !.state = "resolved"]
                    [] OTHER -> events[e]]
  /\ outbox' = Enqueue(opening, recovering)

(* The events after a commit, one by one.                                  *)
LEMMA EventsAfterCommit ==
  ASSUME IInv, NEW firing \in SUBSET Keys, NEW new, NEW opening, NEW recovering,
         Commits(firing, new, opening, recovering)
  PROVE  /\ EventsOK' /\ new \cap recovering = {} /\ recovering \subseteq Unresolved
         /\ \A e \in new : events'[e].key = opening[e] /\ events'[e].state = "active" /\ events[e].state = "none"
         /\ \A e \in recovering : events'[e].state = "resolved"
         /\ \A e \in Events \ (new \cup recovering) : events'[e] = events[e]
<1> USE DEF Commits, IInv, ShapeOK, EventsOK
<1>1. new \subseteq Events /\ recovering \subseteq Unresolved /\ new \cap recovering = {}
  BY DEF Unresolved
<1>2. \A e \in new : events'[e] = [key |-> opening[e], state |-> "active"] /\ opening[e] \in Keys
  BY <1>1
<1>3. \A e \in recovering : e \in Events /\ events'[e] = [events[e] EXCEPT !.state = "resolved"]
  BY <1>1 DEF Unresolved
<1>4. \A e \in Events \ (new \cup recovering) : events'[e] = events[e]
  OBVIOUS
<1>5. \A e \in Events : events'[e] \in [key : Keys \cup {NoKey},
                                        state : {"none", "active", "acknowledged", "resolved"}]
  BY <1>2, <1>3, <1>4
<1>6. EventsOK'
  BY <1>5
<1>7. \A e \in new : events'[e].key = opening[e] /\ events'[e].state = "active" /\ events[e].state = "none"
  <2> SUFFICES ASSUME NEW e \in new
               PROVE  events'[e].key = opening[e] /\ events'[e].state = "active" /\ events[e].state = "none"
    OBVIOUS
  <2>1. events'[e] = [key |-> opening[e], state |-> "active"]
    BY <1>2
  <2>2. events[e].state = "none"
    OBVIOUS
  <2> QED BY <2>1, <2>2
<1>8. \A e \in recovering : events'[e].state = "resolved"
  <2> SUFFICES ASSUME NEW e \in recovering
               PROVE  events'[e].state = "resolved"
    OBVIOUS
  <2>1. events'[e] = [events[e] EXCEPT !.state = "resolved"] /\ e \in Events
    BY <1>3
  <2>2. events[e] \in [key : Keys \cup {NoKey}, state : {"none", "active", "acknowledged", "resolved"}]
    BY <2>1
  <2> QED BY <2>1, <2>2
<1> QED BY <1>1, <1>4, <1>6, <1>7, <1>8

(* Unresolved events stay unique: what opens had no unresolved event.      *)
LEMMA UniqueAfterCommit ==
  ASSUME IInv, NEW firing \in SUBSET Keys, NEW new, NEW opening, NEW recovering,
         Commits(firing, new, opening, recovering)
  PROVE  OneUnresolvedPerKey'
<1> DEFINE after == {e \in Events : events'[e].state \in {"active", "acknowledged"}}
<1> SUFFICES ASSUME NEW e \in after, NEW f \in after, events'[e].key = events'[f].key
             PROVE  e = f
  BY DEF OneUnresolvedPerKey, Unresolved
<1>0. /\ \A g \in new : events'[g].key = opening[g]
      /\ \A g \in recovering : events'[g].state = "resolved"
      /\ \A g \in Events \ (new \cup recovering) : events'[g] = events[g]
  BY EventsAfterCommit
<1>1. \A g \in after : \/ g \in new
                       \/ g \in Unresolved \ new /\ events'[g] = events[g]
  BY <1>0 DEF Unresolved
<1>2. \A g \in new : events'[g].key = opening[g] /\ opening[g] \notin {events[h].key : h \in Unresolved}
  BY <1>0 DEF Commits
<1>3. CASE e \in new /\ f \in new
  BY <1>2, <1>3 DEF Commits
<1>4. CASE e \notin new /\ f \notin new
  BY <1>1, <1>4 DEF IInv, OneUnresolvedPerKey
<1>5. CASE (e \in new) # (f \in new)
  BY <1>1, <1>2, <1>5
<1> QED BY <1>3, <1>4, <1>5

(* The rows after a commit, one by one.                                    *)
LEMMA RowsAfterCommit ==
  ASSUME IInv, NEW firing \in SUBSET Keys, NEW new, NEW opening, NEW recovering,
         Commits(firing, new, opening, recovering)
  PROVE  /\ DOMAIN outbox' = Notes
         /\ \A e \in new : outbox'[Opened(e)] = Queued(CooldownLeft(opening[e]))
                           /\ outbox'[Recovered(e)] = outbox[Recovered(e)]
         /\ \A e \in recovering : \A n \in {Opened(e), Recovered(e)} : outbox'[n] = RowAfterRecovery(e, n)
         /\ \A e \in Events \ (new \cup recovering) : \A n \in {Opened(e), Recovered(e)} : outbox'[n] = outbox[n]
<1>1. new \cap recovering = {} /\ recovering \subseteq Events /\ new \subseteq Events /\ DOMAIN opening = new
  BY EventsAfterCommit DEF Commits, Unresolved
<1>2. outbox' = [n \in Notes |->
                   CASE n[1] \in new /\ n = Opened(n[1]) -> Queued(CooldownLeft(opening[n[1]]))
                     [] n[1] \in recovering -> RowAfterRecovery(n[1], n)
                     [] OTHER -> outbox[n]]
  BY <1>1 DEF Commits, Enqueue
<1>3. \A e \in Events : Opened(e)[1] = e /\ Recovered(e)[1] = e /\ Opened(e) # Recovered(e)
                        /\ Opened(e) \in Notes /\ Recovered(e) \in Notes
  BY NotesOfEvents DEF Opened, Recovered
<1>4. DOMAIN outbox' = Notes
  BY <1>2
<1>5. ASSUME NEW e \in new
      PROVE  outbox'[Opened(e)] = Queued(CooldownLeft(opening[e])) /\ outbox'[Recovered(e)] = outbox[Recovered(e)]
  BY <1>1, <1>2, <1>3, <1>5
<1>6. ASSUME NEW e \in recovering, NEW n \in {Opened(e), Recovered(e)}
      PROVE  outbox'[n] = RowAfterRecovery(e, n)
  BY <1>1, <1>2, <1>3, <1>6
<1>7. ASSUME NEW e \in Events \ (new \cup recovering), NEW n \in {Opened(e), Recovered(e)}
      PROVE  outbox'[n] = outbox[n]
  BY <1>1, <1>2, <1>3, <1>7
<1> QED BY <1>4, <1>5, <1>6, <1>7

(* What a commit makes of the two rows of one event: it is new, recovers,  *)
(* or is not concerned.                                                    *)
LEMMA EventAfterCommit ==
  ASSUME IInv, NEW firing \in SUBSET Keys, NEW new, NEW opening, NEW recovering,
         Commits(firing, new, opening, recovering), NEW e \in Events
  PROVE  LET open == outbox'[Opened(e)]
             recovered == outbox'[Recovered(e)]
         IN /\ IsRow(open) /\ IsRow(recovered)
            /\ open.state \in Sent => open.attempts > 0
            /\ recovered.state \in Sent => recovered.attempts > 0
            /\ events'[e].state # "none" => open.state # "none"
            /\ events'[e].state = "resolved" /\ open.state \in Announced => recovered.state # "none"
            /\ recovered.state # "none" => events'[e].state = "resolved" /\ open.attempts > 0
            /\ events'[e].state = "resolved" /\ open.state = "pending" => open.attempts > 0
<1> DEFINE open == outbox[Opened(e)]
           recovered == outbox[Recovered(e)]
<1>1. /\ IsRow(open) /\ IsRow(recovered)
      /\ open.state \in Sent => open.attempts > 0
      /\ recovered.state \in Sent => recovered.attempts > 0
      /\ events[e].state # "none" => open.state # "none"
      /\ events[e].state = "resolved" /\ open.state \in Announced => recovered.state # "none"
      /\ recovered.state # "none" => events[e].state = "resolved" /\ open.attempts > 0
      /\ events[e].state = "resolved" /\ open.state = "pending" => open.attempts > 0
  BY NotesOfEvents DEF IInv, ShapeOK, RowsOK, TriedInv, QueuedInv
<1>2. CASE e \in new
  <2>1. outbox'[Recovered(e)] = recovered /\ events[e].state = "none" /\ events'[e].state = "active"
    BY <1>2, EventsAfterCommit, RowsAfterCommit
  <2>2. outbox'[Opened(e)] = Queued(CooldownLeft(opening[e]))
    BY <1>2, RowsAfterCommit
  <2>3. /\ IsRow(Queued(CooldownLeft(opening[e])))
        /\ Queued(CooldownLeft(opening[e])).state = "pending"
    BY DEF IsRow, Queued, NoRow, RowStates, Live
  <2> HIDE DEF open, recovered
  <2> QED BY <1>1, <2>1, <2>2, <2>3 DEF Sent
<1>3. CASE e \in recovering
  <2>1. events'[e].state = "resolved" /\ events[e].state \in {"active", "acknowledged"}
    BY <1>3, EventsAfterCommit DEF Unresolved
  <2>2. /\ outbox'[Opened(e)] = IF open.state = "pending" THEN [open EXCEPT !.state = "cancelled"] ELSE open
        /\ outbox'[Recovered(e)] = IF open.state \in {"sending", "delivered"} THEN Queued(0) ELSE recovered
    BY <1>3, RowsAfterCommit, NotesOfEvents DEF RowAfterRecovery
  <2>3. recovered.state = "none" /\ open.state # "none"
    BY <1>1, <2>1
  <2>4. IsRow(Queued(0)) /\ Queued(0).state = "pending"
    BY DEF IsRow, Queued, NoRow, RowStates, Live
  <2>5. IsRow([open EXCEPT !.state = "cancelled"]) /\ [open EXCEPT !.state = "cancelled"].state = "cancelled"
    BY <1>1 DEF IsRow, NoRow, RowStates, Settled
  <2> HIDE DEF open, recovered
  <2>6. CASE open.state = "pending"
    BY <1>1, <2>1, <2>2, <2>3, <2>5, <2>6 DEF Sent, Announced
  <2>7. CASE open.state \in {"sending", "delivered"}
    BY <1>1, <2>1, <2>2, <2>4, <2>7 DEF Sent
  <2>8. CASE open.state \notin {"pending", "sending", "delivered"}
    BY <1>1, <2>1, <2>2, <2>3, <2>8 DEF Sent, Announced
  <2> QED BY <2>6, <2>7, <2>8
<1>4. CASE e \notin new \cup recovering
  <2>1. events'[e] = events[e] /\ outbox'[Opened(e)] = open /\ outbox'[Recovered(e)] = recovered
    BY <1>4, EventsAfterCommit, RowsAfterCommit
  <2> HIDE DEF open, recovered
  <2> QED BY <1>1, <2>1
<1> QED BY <1>2, <1>3, <1>4

(* The transaction commits, with no event acknowledged since the scrape    *)
(* began among those that recover, or leaves both tables alone.            *)
LEMMA CommitOrNot ==
  ASSUME NEW firing, ScrapeApply(firing)
  PROVE  \/ UNCHANGED <<events, outbox, prior>>
         \/ \E new, opening, recovering :
              /\ Commits(firing, new, opening, recovering) /\ recovering \cap lateAcks = {}
              /\ prior' = [e \in Events |-> IF e \in new THEN DeliveredOpens(opening[e]) ELSE prior[e]]
<1> DEFINE current == {events[e].key : e \in Unresolved}
           recovering == {e \in Unresolved : events[e].key \notin firing}
           free == {e \in Events : events[e].state = "none"}
           Written(new, opening) ==
             /\ \A k \in firing \ current : \E e \in new : opening[e] = k
             /\ \A e, f \in new : opening[e] = opening[f] => e = f
             /\ events' = [e \in Events |->
                  CASE e \in new -> [key |-> opening[e], state |-> "active"]
                    [] e \in recovering -> [events[e] EXCEPT !.state = "resolved"]
                    [] OTHER -> events[e]]
             /\ outbox' = Enqueue(opening, recovering)
             /\ prior' = [e \in Events |-> IF e \in new THEN DeliveredOpens(opening[e]) ELSE prior[e]]
<1>1. \/ UNCHANGED <<events, outbox, prior>>
      \/ /\ ReconcileAccepts(firing, recovering)
         /\ \E new \in SUBSET free : \E opening \in [new -> firing \ current] : Written(new, opening)
  BY Zenon DEF ScrapeApply
<1>2. CASE /\ ReconcileAccepts(firing, recovering)
           /\ \E new \in SUBSET free : \E opening \in [new -> firing \ current] : Written(new, opening)
  <2> HIDE DEF Written
  <2>1. PICK new \in SUBSET free : \E opening \in [new -> firing \ current] : Written(new, opening)
    BY <1>2
  <2>2. PICK opening \in [new -> firing \ current] : Written(new, opening)
    BY <2>1
  <2>3. /\ Commits(firing, new, opening, recovering)
        /\ prior' = [e \in Events |-> IF e \in new THEN DeliveredOpens(opening[e]) ELSE prior[e]]
    BY <2>2 DEF Commits, Written
  <2>4. recovering \cap lateAcks = {}
    BY <1>2 DEF ReconcileAccepts
  <2> HIDE DEF recovering
  <2> QED BY <2>3, <2>4
<1> QED BY <1>1, <1>2

(* A scrape's transaction, committed or rolled back.                       *)
LEMMA ScrapeApplyInv == ASSUME IInv, NEW firing \in SUBSET Keys, ScrapeApply(firing) PROVE IInv'
<1>1. WorkerOK'
  BY DEF ScrapeApply, IInv, ShapeOK, WorkerOK
<1>2. CASE UNCHANGED <<events, outbox>>
  BY <1>1, <1>2, UntouchedTables
<1>3. CASE \E new, opening, recovering : Commits(firing, new, opening, recovering)
  <2>1. PICK new, opening, recovering : Commits(firing, new, opening, recovering)
    BY <1>3
  <2>2. EventsOK' /\ DOMAIN outbox' = Notes
    BY <2>1, EventsAfterCommit, RowsAfterCommit
  <2>3. OneUnresolvedPerKey'
    BY <2>1, UniqueAfterCommit
  <2>4. ASSUME NEW n \in Notes
        PROVE  IsRow(outbox'[n]) /\ (outbox'[n].state \in Sent => outbox'[n].attempts > 0)
    <3>1. n[1] \in Events /\ n \in {Opened(n[1]), Recovered(n[1])}
      BY NotesOfEvents
    <3> QED BY <2>1, <3>1, EventAfterCommit
  <2>5. RowsOK' /\ TriedInv'
    BY <2>2, <2>4 DEF RowsOK, TriedInv
  <2>6. QueuedInv'
    BY <2>1, EventAfterCommit DEF QueuedInv
  <2> QED BY <1>1, <2>2, <2>3, <2>5, <2>6 DEF IInv, ShapeOK
<1> QED BY <1>2, <1>3, CommitOrNot

(* One step, whichever it is.                                              *)
LEMMA NextInv == IInv /\ [Next]_vars => IInv'
<1> SUFFICES ASSUME IInv, [Next]_vars
             PROVE  IInv'
  OBVIOUS
<1>1. CASE ScrapeStart \/ Post \/ Crash \/ Restart \/ UNCHANGED vars
  <2>1. UNCHANGED <<events, outbox>>
    BY <1>1 DEF ScrapeStart, Post, Crash, Restart, vars
  <2>2. WorkerOK'
    BY <1>1 DEF ScrapeStart, Post, Crash, Restart, vars, IInv, ShapeOK, WorkerOK, Answered, Idle
  <2> QED BY <2>1, <2>2, UntouchedTables
<1> QED BY <1>1, ScrapeApplyInv, AcknowledgeInv, ClaimInv, SettleInv, TickInv DEF Next, WorkerStep
-----------------------------------------------------------------------------
(* Shapes, counted attempts and the order of open and recovery hold        *)
(* together, in every reachable state.                                     *)
THEOREM Inductive == Spec => []IInv
BY InitInv, NextInv, PTL DEF Spec

(* No two unresolved events of one rule (Reconcile of storage/sqlite.go).  *)
THEOREM IncidentsUnique == Spec => []OneUnresolvedPerKey
BY Inductive, PTL DEF IInv

(* No committed transition loses its notification row                      *)
(* (enqueueEventNotificationsTx of storage/notifications.go).              *)
THEOREM NothingUnqueued == Spec => []TransitionsQueued
<1>1. IInv => TransitionsQueued
  BY DEF IInv, QueuedInv, TransitionsQueued, Announced
<1> QED BY <1>1, Inductive, PTL

(* No recovery is queued for an open that was never tried, and no untried  *)
(* open stays in the queue when its event has recovered.                   *)
THEOREM RecoveriesFollow == Spec => []NoUnseenRecovery
<1>1. IInv => NoUnseenRecovery
  BY DEF IInv, QueuedInv, NoUnseenRecovery
<1> QED BY <1>1, Inductive, PTL

(* An acknowledgement made while a scrape was under way is never followed  *)
(* by the older recovery of that scrape (Validate of domain/model.go).     *)
THEOREM AcksPrecede == Spec => AckPrecedesRecovery
<1>1. ASSUME IInv, Next, NEW e \in Events, events[e].state # "resolved", events'[e].state = "resolved"
      PROVE  e \notin lateAcks
  <2>1. \A f \in Events : ~Acknowledge(f)
    BY <1>1 DEF Acknowledge, IInv, ShapeOK, EventsOK
  <2>2. events' # events
    BY <1>1
  <2>3. PICK firing \in SUBSET Keys : ScrapeApply(firing)
    BY <1>1, <2>1, <2>2 DEF Next, WorkerStep, ScrapeStart, Claim, Post, Settle, Crash, Restart, Tick
  <2>4. PICK new, opening, recovering : /\ Commits(firing, new, opening, recovering)
                                        /\ recovering \cap lateAcks = {}
    BY <2>2, <2>3, CommitOrNot
  <2>5. e \in recovering
    BY <1>1, <2>4, EventsAfterCommit
  <2> QED BY <2>4, <2>5
<1>2. IInv /\ [Next]_vars =>
        [\A e \in Events : events[e].state # "resolved" /\ events'[e].state = "resolved" => e \notin lateAcks]_vars
  BY <1>1
<1> QED BY <1>2, Inductive, PTL DEF Spec, AckPrecedesRecovery
-----------------------------------------------------------------------------
(* The cooldown.  Due times and what is left of a cooldown are bounded; a  *)
(* call lasts no negative time.                                            *)
TimesInv ==
  /\ \A n \in Notes : outbox[n].due \in Int /\ outbox[n].cool \in 0..Cooldown
  /\ worker # Idle => worker.age \in Nat

(* Only an event has a key.                                                *)
KeyInv == \A e \in Events : events[e].state = "none" => events[e].key = NoKey

Untried(row) == row.state = "pending" /\ row.attempts = 0

(* The opens that were delivered before an event opened stay delivered;    *)
(* until its own is first sent, none of their cooldowns outlasts its wait. *)
PriorInv ==
  /\ DOMAIN prior = Events /\ \A f \in Events : prior[f] \subseteq Events
  /\ \A f \in Events : \A e \in prior[f] :
       /\ events[e].state # "none" /\ outbox[Opened(e)].state = "delivered"
       /\ Untried(outbox[Opened(f)])
            => \/ outbox[Opened(e)].cool = 0
               \/ outbox[Opened(e)].cool <= outbox[Opened(f)].due

WaitInv == TimesInv /\ KeyInv /\ PriorInv

(* What is left of several cooldowns has a longest.                        *)
LEMMA LongestCooldown ==
  ASSUME NEW S, S \subseteq 0..Cooldown, S # {}
  PROVE  \E c \in S : \A d \in S : d <= c
<1> DEFINE R == {ss \in Nat \X Nat : ss[1] < ss[2]}
           T == {Cooldown - c : c \in S}
<1>1. IsWellFoundedOn(R, Nat)
  BY NatLessThanWellFounded DEF OpToRel
<1>2. T \subseteq Nat /\ T # {}
  <2>1. \A c \in S : c \in 0..Cooldown /\ Cooldown - c \in Nat
    BY OutboxAssumption
  <2>2. T \subseteq Nat
    BY <2>1
  <2>3. PICK c \in S : TRUE
    OBVIOUS
  <2>4. Cooldown - c \in T
    OBVIOUS
  <2> QED BY <2>2, <2>4
<1>3. \A a, b \in Nat : a < b => <<a, b>> \in R
  OBVIOUS
<1> HIDE DEF R
<1>4. PICK t \in T : \A u \in T : <<u, t>> \notin R
  <2> HIDE DEF T
  <2> QED BY <1>1, <1>2, WFMin
<1>5. PICK c \in S : t = Cooldown - c
  OBVIOUS
<1>6. \A d \in S : Cooldown - d \in T /\ Cooldown - d \in Nat /\ Cooldown - c \in Nat
  BY OutboxAssumption
<1>7. \A d \in S : ~(Cooldown - d < Cooldown - c)
  BY <1>3, <1>4, <1>5, <1>6
<1> QED BY <1>7, OutboxAssumption

(* The delay of a new open covers every cooldown of its key.               *)
LEMMA DelayCovers ==
  ASSUME TimesInv, NEW k
  PROVE  /\ CooldownLeft(k) \in 0..Cooldown
         /\ \A e \in DeliveredOpens(k) : outbox[Opened(e)].cool <= CooldownLeft(k)
<1> DEFINE left == {outbox[Opened(e)].cool : e \in DeliveredOpens(k)}
<1>1. left \subseteq 0..Cooldown
  BY NotesOfEvents DEF TimesInv, DeliveredOpens
<1>2. CooldownLeft(k) = IF left = {} THEN 0 ELSE CHOOSE c \in left : \A d \in left : d <= c
  BY DEF CooldownLeft
<1>3. \A e \in DeliveredOpens(k) : outbox[Opened(e)].cool \in left
  OBVIOUS
<1> HIDE DEF left
<1>4. CASE left = {}
  BY <1>2, <1>3, <1>4, OutboxAssumption
<1>5. CASE left # {}
  <2>1. \E c \in left : \A d \in left : d <= c
    BY <1>1, <1>5, LongestCooldown
  <2>2. CooldownLeft(k) \in left /\ \A d \in left : d <= CooldownLeft(k)
    BY <1>2, <1>5, <2>1
  <2> QED BY <1>1, <1>3, <2>2
<1> QED BY <1>4, <1>5

(* Before the first event opens, nothing waits.                            *)
LEMMA WaitInit == Init => WaitInv
<1> SUFFICES ASSUME Init
             PROVE  WaitInv
  OBVIOUS
<1>1. \A n \in Notes : outbox[n] = NoRow
  BY DEF Init
<1>2. TimesInv
  BY <1>1, OutboxAssumption DEF Init, TimesInv, NoRow
<1>3. KeyInv
  BY DEF Init, KeyInv, NoEvent
<1>4. PriorInv
  BY DEF Init, PriorInv
<1> QED BY <1>2, <1>3, <1>4 DEF WaitInv

(* A step keeps the waits when delivered rows stay and no untried row is   *)
(* made or moved.                                                          *)
Keeps(old, new) ==
  /\ old.state = "delivered" => new.state = "delivered" /\ new.cool = old.cool
  /\ Untried(new) => Untried(old) /\ new.due = old.due

LEMMA WaitsKept ==
  ASSUME WaitInv, TimesInv', KeyInv', UNCHANGED prior,
         \A n \in Notes : Keeps(outbox[n], outbox'[n]),
         \A e \in Events : events[e].state # "none" => events'[e].state # "none"
  PROVE  WaitInv'
<1> SUFFICES ASSUME NEW f \in Events, NEW e \in prior[f]
             PROVE  /\ events'[e].state # "none" /\ outbox'[Opened(e)].state = "delivered"
                    /\ Untried(outbox'[Opened(f)])
                         => \/ outbox'[Opened(e)].cool = 0
                            \/ outbox'[Opened(e)].cool <= outbox'[Opened(f)].due
  BY DEF WaitInv, PriorInv
<1>1. e \in Events /\ Keeps(outbox[Opened(e)], outbox'[Opened(e)]) /\ Keeps(outbox[Opened(f)], outbox'[Opened(f)])
  BY NotesOfEvents DEF WaitInv, PriorInv
<1> QED BY <1>1 DEF WaitInv, PriorInv, Keeps

(* Steps of the worker and the operator.                                   *)
LEMMA WaitQuiet ==
  ASSUME IInv, WaitInv, ScrapeStart \/ Post \/ Crash \/ Restart \/ UNCHANGED vars \/ \E e \in Events : Acknowledge(e)
  PROVE  WaitInv'
<1>1. outbox' = outbox /\ prior' = prior
  BY DEF ScrapeStart, Post, Crash, Restart, vars, Acknowledge
<1>2. TimesInv'
  BY <1>1 DEF WaitInv, TimesInv, ScrapeStart, Post, Crash, Restart, vars, Acknowledge, Answered, Idle
<1>3. \A e \in Events : /\ events'[e].key = events[e].key
                        /\ events'[e].state = "none" <=> events[e].state = "none"
  BY DEF IInv, ShapeOK, EventsOK, ScrapeStart, Post, Crash, Restart, vars, Acknowledge
<1>4. KeyInv'
  BY <1>3 DEF WaitInv, KeyInv
<1>5. \A n \in Notes : Keeps(outbox[n], outbox'[n])
  BY <1>1 DEF Keeps
<1> QED BY <1>1, <1>2, <1>3, <1>4, <1>5, WaitsKept

(* A change of one row by the worker.                                      *)
LEMMA WaitOneRow ==
  ASSUME IInv, WaitInv, NEW n \in Notes, NEW row, outbox' = [outbox EXCEPT ![n] = row],
         UNCHANGED <<events, prior>>, worker' # Idle => worker'.age \in Nat,
         row.due \in Int, row.cool \in 0..Cooldown, Keeps(outbox[n], row)
  PROVE  WaitInv'
<1>1. \A m \in Notes : outbox'[m] = IF m = n THEN row ELSE outbox[m]
  BY DEF IInv, ShapeOK, RowsOK
<1>2. TimesInv'
  BY <1>1 DEF WaitInv, TimesInv
<1>3. KeyInv'
  BY DEF WaitInv, KeyInv
<1>4. \A m \in Notes : Keeps(outbox[m], outbox'[m])
  BY <1>1 DEF Keeps
<1> QED BY <1>2, <1>3, <1>4, WaitsKept

(* A first lease leaves nothing untried; a later one moves none that is.   *)
LEMMA WaitClaim == ASSUME IInv, WaitInv, NEW n \in Notes, Claim(n) PROVE WaitInv'
<1> DEFINE row == [outbox[n] EXCEPT !.state = "sending", !.attempts = @ + 1, !.due = Lease]
<1>1. IsRow(outbox[n]) /\ outbox[n].state \in Live
  BY DEF IInv, ShapeOK, RowsOK, Claim, Claimable
<1>2. row.state = "sending" /\ row.due = Lease /\ row.cool = outbox[n].cool
  BY <1>1 DEF IsRow, NoRow
<1>3. outbox' = [outbox EXCEPT ![n] = row] /\ UNCHANGED <<events, prior>>
  BY DEF Claim
<1>4. worker' # Idle => worker'.age \in Nat
  BY DEF Claim
<1> HIDE DEF row
<1>5. row.due \in Int /\ row.cool \in 0..Cooldown
  BY <1>2, OutboxAssumption DEF WaitInv, TimesInv
<1>6. Keeps(outbox[n], row)
  BY <1>1, <1>2 DEF Keeps, Untried, Live
<1> QED BY <1>3, <1>4, <1>5, <1>6, WaitOneRow

(* A row given back is no longer untried; a delivered one starts its own   *)
(* cooldown and was in no event's wait before.                             *)
LEMMA WaitSettle == ASSUME IInv, WaitInv, Settle PROVE WaitInv'
<1> DEFINE n == worker.note
           row == RowAfterAttempt(n, worker.answer, worker.age)
<1>1. /\ UNCHANGED <<events, prior>> /\ worker' = Idle
      /\ n \in Notes /\ worker.age \in Nat
  BY DEF Settle, IInv, ShapeOK, WorkerOK, WaitInv, TimesInv, Idle
<1>2. CASE UNCHANGED outbox
  <2>1. TimesInv' /\ KeyInv'
    BY <1>1, <1>2 DEF WaitInv, TimesInv, KeyInv
  <2>2. \A m \in Notes : Keeps(outbox[m], outbox'[m])
    BY <1>2 DEF Keeps
  <2> QED BY <1>1, <2>1, <2>2, WaitsKept
<1>3. CASE outbox[n].state = "sending" /\ outbox' = [outbox EXCEPT ![n] = row]
  <2>1. IsRow(outbox[n]) /\ outbox[n].attempts \in Nat \ {0}
        /\ outbox[n].due \in Int /\ outbox[n].cool \in 0..Cooldown
    BY <1>1, <1>3 DEF IInv, ShapeOK, RowsOK, IsRow, TriedInv, Sent, WaitInv, TimesInv
  <2>2. RetryDelay(outbox[n].attempts) \in Nat
    BY <2>1, OutboxAssumption DEF RetryDelay
  <2>3. CASE worker.answer = "ok"
    <3>1. row = [outbox[n] EXCEPT !.state = "delivered", !.due = 0,
                                  !.cool = IF n[2] = "opened" THEN Max0(Cooldown - worker.age) ELSE 0]
      BY <2>3 DEF RowAfterAttempt
    <3>2. row.state = "delivered" /\ row.due = 0 /\ row.cool \in {Max0(Cooldown - worker.age), 0}
      <4> HIDE DEF n
      <4> QED BY <3>1, <2>1 DEF IsRow, NoRow
    <3>3. Max0(Cooldown - worker.age) \in 0..Cooldown /\ 0 \in 0..Cooldown
      BY <1>1, OutboxAssumption DEF Max0
    <3> HIDE DEF n, row
    <3>4. row.due \in Int /\ row.cool \in 0..Cooldown
      BY <3>2, <3>3
    <3>5. Keeps(outbox[n], row)
      BY <1>3, <3>2 DEF Keeps, Untried
    <3> QED BY <1>1, <1>3, <3>4, <3>5, WaitOneRow
  <2>4. CASE worker.answer # "ok"
    <3>1. \/ row = [outbox[n] EXCEPT !.state = "failed", !.due = 0]
          \/ row = [outbox[n] EXCEPT !.state = "pending", !.due = RetryDelay(outbox[n].attempts) - worker.age]
      BY <2>4 DEF RowAfterAttempt
    <3> HIDE DEF n, row
    <3>2. /\ row.state \in {"failed", "pending"} /\ row.attempts = outbox[n].attempts
          /\ row.due \in {0, RetryDelay(outbox[n].attempts) - worker.age} /\ row.cool = outbox[n].cool
      BY <3>1, <2>1 DEF IsRow, NoRow
    <3>3. row.due \in Int /\ row.cool \in 0..Cooldown
      BY <1>1, <2>1, <2>2, <3>2
    <3>4. Keeps(outbox[n], row)
      BY <1>3, <2>1, <3>2 DEF Keeps, Untried
    <3> QED BY <1>1, <1>3, <3>3, <3>4, WaitOneRow
  <2> QED BY <2>3, <2>4
<1> QED BY <1>2, <1>3 DEF Settle

(* A tick shortens a cooldown and the wait it covers by the same amount.   *)
LEMMA WaitTick == ASSUME IInv, WaitInv, Tick PROVE WaitInv'
<1>1. /\ outbox' = [n \in Notes |-> Aged(outbox[n])] /\ UNCHANGED <<events, prior>>
      /\ worker' = IF worker = Idle THEN Idle ELSE [worker EXCEPT !.age = @ + 1]
  BY DEF Tick
<1>2. ASSUME NEW n \in Notes
      PROVE  /\ outbox'[n].state = outbox[n].state /\ outbox'[n].attempts = outbox[n].attempts
             /\ outbox'[n].cool = Max0(outbox[n].cool - 1)
             /\ outbox'[n].due = IF outbox[n].state \in Live /\ outbox[n].due > -MaxOverdue
                                 THEN outbox[n].due - 1 ELSE outbox[n].due
  BY <1>1 DEF Aged, IInv, ShapeOK, RowsOK, IsRow, NoRow
<1>3. ASSUME NEW n \in Notes
      PROVE  outbox'[n].due \in Int /\ outbox'[n].cool \in 0..Cooldown
  BY <1>2, OutboxAssumption DEF WaitInv, TimesInv, Max0
<1>4. worker' # Idle => worker'.age \in Nat
  <2>1. worker # Idle => worker.age \in Nat
    BY DEF WaitInv, TimesInv
  <2>2. CASE "age" \in DOMAIN worker
    BY <1>1, <2>1, <2>2
  <2>3. CASE "age" \notin DOMAIN worker
    BY <1>1, <2>1, <2>3
  <2> QED BY <2>2, <2>3
<1>5. TimesInv' /\ KeyInv'
  BY <1>1, <1>3, <1>4 DEF WaitInv, TimesInv, KeyInv
<1>6. ASSUME NEW f \in Events, NEW e \in prior[f]
      PROVE  /\ events'[e].state # "none" /\ outbox'[Opened(e)].state = "delivered"
             /\ Untried(outbox'[Opened(f)])
                  => \/ outbox'[Opened(e)].cool = 0
                     \/ outbox'[Opened(e)].cool <= outbox'[Opened(f)].due
  <2> DEFINE o == outbox[Opened(e)]
             w == outbox[Opened(f)]
  <2>1. e \in Events /\ Opened(e) \in Notes /\ Opened(f) \in Notes
    BY NotesOfEvents DEF WaitInv, PriorInv
  <2>2. /\ events[e].state # "none" /\ o.state = "delivered"
        /\ Untried(w) => o.cool = 0 \/ o.cool <= w.due
    BY DEF WaitInv, PriorInv
  <2>3. o.cool \in 0..Cooldown /\ w.due \in Int /\ MaxOverdue \in Nat /\ Cooldown \in Nat
    BY <2>1, OutboxAssumption DEF WaitInv, TimesInv
  <2>4. /\ outbox'[Opened(e)].state = o.state /\ outbox'[Opened(e)].cool = Max0(o.cool - 1)
        /\ outbox'[Opened(f)].state = w.state /\ outbox'[Opened(f)].attempts = w.attempts
        /\ outbox'[Opened(f)].due = IF w.state \in Live /\ w.due > -MaxOverdue THEN w.due - 1 ELSE w.due
    BY <1>2, <2>1
  <2> HIDE DEF o, w
  <2>5. o.cool = 0 => Max0(o.cool - 1) = 0
    BY DEF Max0
  <2>6. o.cool > 0 /\ o.cool <= w.due => w.due > -MaxOverdue /\ Max0(o.cool - 1) <= w.due - 1
    BY <2>3 DEF Max0
  <2>7. Untried(outbox'[Opened(f)]) => Untried(w) /\ w.state \in Live
    BY <2>4 DEF Untried, Live
  <2> QED BY <1>1, <2>2, <2>3, <2>4, <2>5, <2>6, <2>7
<1> QED BY <1>1, <1>5, <1>6 DEF WaitInv, PriorInv

(* A new open waits for every delivered one of its key.                    *)
LEMMA WaitScrape == ASSUME IInv, WaitInv, NEW firing \in SUBSET Keys, ScrapeApply(firing) PROVE WaitInv'
<1>1. worker' = worker
  BY DEF ScrapeApply
<1>2. CASE UNCHANGED <<events, outbox, prior>>
  <2>1. TimesInv' /\ KeyInv'
    BY <1>1, <1>2 DEF WaitInv, TimesInv, KeyInv
  <2>2. \A m \in Notes : Keeps(outbox[m], outbox'[m])
    BY <1>2 DEF Keeps
  <2> QED BY <1>2, <2>1, <2>2, WaitsKept
<1>3. CASE ~UNCHANGED <<events, outbox, prior>>
  <2>1. PICK new, opening, recovering :
          /\ Commits(firing, new, opening, recovering)
          /\ prior' = [e \in Events |-> IF e \in new THEN DeliveredOpens(opening[e]) ELSE prior[e]]
    BY <1>3, CommitOrNot
  <2>2. /\ new \subseteq Events /\ recovering \subseteq Events
        /\ \A e \in new : opening[e] \in Keys /\ events[e].state = "none"
    BY <2>1 DEF Commits, Unresolved
  <2>3. /\ \A e \in new : events'[e].state = "active"
        /\ \A e \in recovering : events'[e].state = "resolved"
        /\ \A e \in Events \ (new \cup recovering) : events'[e] = events[e]
    BY <2>1, EventsAfterCommit
  <2>4. /\ \A e \in new : outbox'[Opened(e)] = Queued(CooldownLeft(opening[e]))
                          /\ outbox'[Recovered(e)] = outbox[Recovered(e)]
        /\ \A e \in recovering : \A n \in {Opened(e), Recovered(e)} : outbox'[n] = RowAfterRecovery(e, n)
        /\ \A e \in Events \ (new \cup recovering) : \A n \in {Opened(e), Recovered(e)} : outbox'[n] = outbox[n]
    BY <2>1, RowsAfterCommit
  <2>5. \A e \in new : /\ outbox'[Opened(e)].state = "pending" /\ outbox'[Opened(e)].cool = 0
                       /\ outbox'[Opened(e)].due = CooldownLeft(opening[e])
    <3> SUFFICES ASSUME NEW e \in new
                 PROVE  /\ outbox'[Opened(e)].state = "pending" /\ outbox'[Opened(e)].cool = 0
                        /\ outbox'[Opened(e)].due = CooldownLeft(opening[e])
      OBVIOUS
    <3>1. outbox'[Opened(e)] = Queued(CooldownLeft(opening[e]))
      BY <2>4
    <3> QED BY <3>1 DEF Queued
  <2>6. \A e \in Events \ new :
          \/ outbox'[Opened(e)] = outbox[Opened(e)]
          \/ /\ outbox[Opened(e)].state = "pending"
             /\ outbox'[Opened(e)] = [outbox[Opened(e)] EXCEPT !.state = "cancelled"]
    BY <2>4, NotesOfEvents DEF RowAfterRecovery
  <2>7. \A e \in Events \ new :
          /\ outbox'[Opened(e)].due = outbox[Opened(e)].due /\ outbox'[Opened(e)].cool = outbox[Opened(e)].cool
          /\ Keeps(outbox[Opened(e)], outbox'[Opened(e)])
    <3> SUFFICES ASSUME NEW e \in Events \ new
                 PROVE  /\ outbox'[Opened(e)].due = outbox[Opened(e)].due
                        /\ outbox'[Opened(e)].cool = outbox[Opened(e)].cool
                        /\ Keeps(outbox[Opened(e)], outbox'[Opened(e)])
      OBVIOUS
    <3>1. CASE outbox'[Opened(e)] = outbox[Opened(e)]
      BY <3>1 DEF Keeps
    <3>2. CASE /\ outbox[Opened(e)].state = "pending"
               /\ outbox'[Opened(e)] = [outbox[Opened(e)] EXCEPT !.state = "cancelled"]
      <4>1. DOMAIN outbox[Opened(e)] = DOMAIN NoRow
        BY NotesOfEvents DEF IInv, ShapeOK, RowsOK, IsRow
      <4>2. /\ outbox'[Opened(e)].due = outbox[Opened(e)].due /\ outbox'[Opened(e)].cool = outbox[Opened(e)].cool
            /\ outbox'[Opened(e)].state = "cancelled"
        BY <3>2, <4>1 DEF NoRow
      <4> QED BY <3>2, <4>2 DEF Keeps, Untried
    <3> QED BY <2>6, <3>1, <3>2
  <2>8. \A e \in Events : \/ outbox'[Recovered(e)] = outbox[Recovered(e)]
                          \/ outbox'[Recovered(e)] = Queued(0)
    BY <2>4, NotesOfEvents DEF RowAfterRecovery
  <2>9. TimesInv'
    <3>1. ASSUME NEW n \in Notes
          PROVE  outbox'[n].due \in Int /\ outbox'[n].cool \in 0..Cooldown
      <4>1. outbox[n].due \in Int /\ outbox[n].cool \in 0..Cooldown /\ 0 \in 0..Cooldown
        BY OutboxAssumption DEF WaitInv, TimesInv
      <4>2. PICK e \in Events : n \in {Opened(e), Recovered(e)}
        BY NotesOfEvents
      <4>3. CASE n = Recovered(e)
        BY <2>8, <4>1, <4>2, <4>3 DEF Queued
      <4>4. CASE n = Opened(e) /\ e \in new
        <5>1. CooldownLeft(opening[e]) \in 0..Cooldown
          BY DelayCovers DEF WaitInv
        <5> QED BY <2>5, <4>1, <4>4, <5>1
      <4>5. CASE n = Opened(e) /\ e \notin new
        BY <2>7, <4>1, <4>5
      <4> QED BY <4>2, <4>3, <4>4, <4>5
    <3> QED BY <1>1, <3>1 DEF WaitInv, TimesInv
  <2>10. KeyInv'
    BY <2>3 DEF WaitInv, KeyInv
  <2>11. ASSUME NEW e \in Events, events[e].state # "none"
         PROVE  events'[e].state # "none"
    BY <2>2, <2>3, <2>11
  <2>12. ASSUME NEW f \in Events, NEW e \in prior'[f]
         PROVE  /\ e \in Events /\ events'[e].state # "none" /\ outbox'[Opened(e)].state = "delivered"
                /\ Untried(outbox'[Opened(f)])
                     => \/ outbox'[Opened(e)].cool = 0
                        \/ outbox'[Opened(e)].cool <= outbox'[Opened(f)].due
    <3>1. CASE f \in new
      <4>1. e \in DeliveredOpens(opening[f])
        BY <2>1, <3>1
      <4>2. e \in Events /\ events[e].key = opening[f] /\ outbox[Opened(e)].state = "delivered"
        BY <4>1 DEF DeliveredOpens
      <4>3. events[e].state # "none"
        BY <2>2, <3>1, <4>2, OutboxAssumption DEF WaitInv, KeyInv
      <4>4. e \notin new
        BY <2>2, <4>3
      <4>5. outbox'[Opened(e)].state = "delivered" /\ outbox'[Opened(e)].cool = outbox[Opened(e)].cool
        BY <2>7, <4>2, <4>4 DEF Keeps
      <4>6. outbox[Opened(e)].cool <= CooldownLeft(opening[f])
        BY <4>1, DelayCovers DEF WaitInv
      <4> QED BY <2>5, <2>11, <3>1, <4>2, <4>3, <4>5, <4>6
    <3>2. CASE f \notin new
      <4>1. e \in prior[f]
        BY <2>1, <3>2
      <4>2. /\ e \in Events /\ events[e].state # "none" /\ outbox[Opened(e)].state = "delivered"
            /\ Untried(outbox[Opened(f)])
                 => \/ outbox[Opened(e)].cool = 0
                    \/ outbox[Opened(e)].cool <= outbox[Opened(f)].due
        BY <4>1 DEF WaitInv, PriorInv
      <4>3. e \notin new
        BY <2>2, <4>2
      <4>4. Keeps(outbox[Opened(e)], outbox'[Opened(e)]) /\ Keeps(outbox[Opened(f)], outbox'[Opened(f)])
        BY <2>7, <3>2, <4>2, <4>3
      <4> QED BY <2>11, <4>2, <4>4 DEF Keeps
    <3> QED BY <3>1, <3>2
  <2>13. DOMAIN prior' = Events
    BY <2>1
  <2> QED BY <2>9, <2>10, <2>12, <2>13 DEF WaitInv, PriorInv
<1> QED BY <1>2, <1>3

(* One step, whichever it is.                                              *)
LEMMA WaitNext == IInv /\ WaitInv /\ [Next]_vars => WaitInv'
BY WaitQuiet, WaitScrape, WaitClaim, WaitSettle, WaitTick DEF Next, WorkerStep

(* The waits hold in every reachable state.                                *)
THEOREM WaitsCover == Spec => []WaitInv
BY WaitInit, WaitNext, Inductive, PTL DEF Spec

(* A recurrence waits out every cooldown of its rule that ran when it      *)
(* opened (cooldownDelayTx and ClaimEventNotification of                   *)
(* storage/notifications.go).                                              *)
THEOREM CooldownWaited == Spec => CooldownRespected
<1>1. ASSUME IInv, WaitInv, Next, NEW f \in Events,
             outbox[Opened(f)].attempts = 0, outbox'[Opened(f)].attempts = 1, NEW e \in prior[f]
      PROVE  outbox[Opened(e)].cool = 0
  <2>0. /\ \A g \in Events : Opened(g) \in Notes
        /\ \A n \in Notes : IsRow(outbox[n])
        /\ e \in Events
    BY <1>1, NotesOfEvents DEF IInv, ShapeOK, RowsOK, WaitInv, PriorInv
  <2>1. PICK n \in Notes : Claim(n)
    <3>1. ~UNCHANGED outbox
      BY <1>1
    <3>2. ~Settle
      <4> SUFFICES ASSUME Settle
                   PROVE  FALSE
        OBVIOUS
      <4>1. /\ worker.note \in Notes /\ outbox[worker.note].state = "sending"
            /\ outbox' = [outbox EXCEPT ![worker.note] =
                            RowAfterAttempt(worker.note, worker.answer, worker.age)]
        BY <1>1, <3>1 DEF Settle, IInv, ShapeOK, WorkerOK, Idle
      <4>2. worker.note = Opened(f)
        BY <1>1, <2>0, <4>1 DEF IInv, ShapeOK, RowsOK
      <4> QED BY <1>1, <4>1, <4>2 DEF IInv, TriedInv, Sent
    <3>3. ~Tick
      <4> SUFFICES ASSUME Tick
                   PROVE  FALSE
        OBVIOUS
      <4>1. outbox'[Opened(f)] = Aged(outbox[Opened(f)])
        BY <2>0 DEF Tick
      <4>2. Aged(outbox[Opened(f)]).attempts = outbox[Opened(f)].attempts
        BY <2>0 DEF Aged, IsRow, NoRow
      <4> QED BY <1>1, <4>1, <4>2
    <3>4. ASSUME NEW firing \in SUBSET Keys, ScrapeApply(firing)
          PROVE  FALSE
      <4>1. PICK new, opening, recovering : Commits(firing, new, opening, recovering)
        BY <3>1, <3>4, CommitOrNot
      <4>2. /\ f \in new => outbox'[Opened(f)] = Queued(CooldownLeft(opening[f]))
            /\ f \in recovering => outbox'[Opened(f)] = RowAfterRecovery(f, Opened(f))
            /\ f \notin new \cup recovering => outbox'[Opened(f)] = outbox[Opened(f)]
        BY <1>1, <4>1, RowsAfterCommit
      <4>3. CASE f \in new
        BY <1>1, <4>2, <4>3 DEF Queued
      <4>4. CASE f \in recovering
        <5>1. outbox'[Opened(f)] \in {outbox[Opened(f)], [outbox[Opened(f)] EXCEPT !.state = "cancelled"]}
          BY <4>2, <4>4, NotesOfEvents DEF RowAfterRecovery
        <5> QED BY <1>1, <2>0, <5>1 DEF IsRow, NoRow
      <4> QED BY <1>1, <4>2, <4>3, <4>4
    <3> QED BY <1>1, <3>1, <3>2, <3>3, <3>4 DEF Next, WorkerStep, ScrapeStart, Acknowledge, Post, Crash, Restart
  <2>2. n = Opened(f)
    BY <1>1, <2>0, <2>1 DEF Claim, IInv, ShapeOK, RowsOK
  <2>3. outbox[Opened(f)].state = "pending" /\ outbox[Opened(f)].due <= 0
    BY <1>1, <2>1, <2>2 DEF Claim, Claimable, Live, IInv, TriedInv, Sent
  <2>4. \/ outbox[Opened(e)].cool = 0
        \/ outbox[Opened(e)].cool <= outbox[Opened(f)].due
    BY <1>1, <2>3 DEF WaitInv, PriorInv, Untried
  <2>5. outbox[Opened(e)].cool \in 0..Cooldown /\ outbox[Opened(f)].due \in Int
    BY <1>1, <2>0 DEF WaitInv, TimesInv
  <2> QED BY <2>3, <2>4, <2>5, OutboxAssumption
<1>2. IInv /\ WaitInv /\ [Next]_vars =>
        [\A f \in Events : outbox[Opened(f)].attempts = 0 /\ outbox'[Opened(f)].attempts = 1
                           => \A e \in prior[f] : outbox[Opened(e)].cool = 0]_vars
  BY <1>1
<1> QED BY <1>2, Inductive, WaitsCover, PTL DEF Spec, CooldownRespected
=============================================================================
