------------------------- MODULE ActionHelperProofs -------------------------
(***************************************************************************)
(* That a reported success of an action is the helper's own doing, for any *)
(* number of helpers and approvals: the file lock keeps every other helper *)
(* from commanding a unit between a helper's command and its verification. *)
(***************************************************************************)
EXTENDS ActionHelper, TLAPS

Section == {"locked", "approved", "read", "changed"}

Stages == {"new", "locked", "approved", "read", "changed", "refused", "ok", "failed", "killed"}
Readable == {"none", "running", "stopped"}
Errors == {"none", "log_read_failed", "state_read_failed", "command_failed", "health_verification_failed"}
HelperRows == [stage : Stages, before : Readable, after : Readable, error : Errors]

HelperTypeOK ==
  /\ flock \in Helpers \cup {"free"}
  /\ commanded \in [Units -> Helpers \cup {"none"}]
  /\ helpers \in [Helpers -> HelperRows]
  /\ unit \in [Units -> {"running", "stopped", "activating"}]

(* Whoever is past the lock holds it, so there is one such helper.         *)
LockInv == \A h \in Helpers : helpers[h].stage \in Section => flock = h

(* Until it ends, a helper that gave its command gave the last one.        *)
OwnInv == \A h \in Helpers : On(h, "changed") => commanded[UnitOf(h)] = h

HelperInv == HelperTypeOK /\ LockInv /\ OwnInv
-----------------------------------------------------------------------------
(* Each helper's request names a unit that some approval covers.           *)
LEMMA UnitsOfRequests == \A h \in Helpers : UnitOf(h) \in Units
BY HelperAssumption DEF UnitOf, Units

(* The start: no helper runs and no command was given.                     *)
LEMMA HelperInitInv == HelperInit => HelperInv
BY DEF HelperInit, HelperInv, HelperTypeOK, HelperRows, Stages, Readable, Errors, LockInv, OwnInv, On, Unstarted, Section

(* A helper moves on: it keeps the lock it has, frees it, or takes it when *)
(* it is free; and only a helper in its section gives a command.           *)
LEMMA OneHelper ==
  ASSUME HelperInv, NEW h \in Helpers, NEW row \in HelperRows,
         helpers' = [helpers EXCEPT ![h] = row],
         \/ flock' = flock /\ (row.stage \in Section => helpers[h].stage \in Section)
         \/ flock' = "free" /\ row.stage \notin Section /\ helpers[h].stage \in Section
         \/ flock = "free" /\ flock' = h,
         \/ commanded' = commanded /\ (row.stage = "changed" => helpers[h].stage = "changed")
         \/ commanded' = [commanded EXCEPT ![UnitOf(h)] = h] /\ helpers[h].stage \in Section,
         unit' \in [Units -> {"running", "stopped", "activating"}]
  PROVE  HelperInv'
<1> USE DEF HelperInv, HelperTypeOK
<1>1. helpers' \in [Helpers -> HelperRows] /\ helpers'[h] = row
  OBVIOUS
<1>2. \A k \in Helpers \ {h} : helpers'[k] = helpers[k]
  OBVIOUS
<1>3. flock' \in Helpers \cup {"free"} /\ commanded' \in [Units -> Helpers \cup {"none"}]
  BY UnitsOfRequests
<1>4. ASSUME NEW k \in Helpers, helpers'[k].stage \in Section
      PROVE  flock' = k
  <2>1. CASE k = h
    BY <1>1, <1>4, <2>1 DEF LockInv
  <2>2. CASE k # h
    <3>1. flock = k /\ helpers[h].stage \notin Section /\ flock # "free"
      BY <1>2, <1>4, <2>2, HelperAssumption DEF LockInv
    <3> QED BY <1>1, <3>1
  <2> QED BY <2>1, <2>2
<1>5. ASSUME NEW k \in Helpers, helpers'[k].stage = "changed"
      PROVE  commanded'[UnitOf(k)] = k
  <2>1. CASE k = h
    BY <1>1, <1>5, <2>1, UnitsOfRequests DEF OwnInv, On
  <2>2. CASE k # h
    <3>1. helpers[k].stage = "changed" /\ commanded[UnitOf(k)] = k
      BY <1>2, <1>5, <2>2 DEF OwnInv, On
    <3>2. helpers[h].stage \notin Section
      BY <2>2, <3>1 DEF LockInv, Section
    <3> QED BY <3>1, <3>2
  <2> QED BY <2>1, <2>2
<1> QED BY <1>1, <1>3, <1>4, <1>5 DEF LockInv, OwnInv, On

(* Taking the lock.                                                        *)
LEMMA AcquireInv ==
  ASSUME HelperInv, NEW h \in Helpers, AcquireActionLock(h)
  PROVE  HelperInv'
<1> DEFINE row == [helpers[h] EXCEPT !.stage = IF flock = "free" THEN "locked" ELSE "refused"]
<1>1. row \in HelperRows /\ row.stage = IF flock = "free" THEN "locked" ELSE "refused"
  BY DEF HelperInv, HelperTypeOK, HelperRows, Stages
<1>2. /\ helpers' = [helpers EXCEPT ![h] = row] /\ commanded' = commanded /\ unit' = unit
      /\ \/ flock = "free" /\ flock' = h
         \/ flock # "free" /\ flock' = flock
  BY DEF AcquireActionLock, Moves
<1> HIDE DEF row
<1> QED BY <1>1, <1>2, OneHelper DEF HelperInv, HelperTypeOK, Section

(* Reading the policy: the lock is kept, or given up with a refusal.       *)
LEMMA ReadPolicyInv ==
  ASSUME HelperInv, NEW h \in Helpers, ReadPolicy(h)
  PROVE  HelperInv'
<1> DEFINE row == [helpers[h] EXCEPT !.stage = IF RequestOf[h] \in policy THEN "approved" ELSE "refused"]
<1>1. row \in HelperRows /\ row.stage = IF RequestOf[h] \in policy THEN "approved" ELSE "refused"
  BY DEF HelperInv, HelperTypeOK, HelperRows, Stages
<1>2. /\ helpers[h].stage = "locked"
      /\ helpers' = [helpers EXCEPT ![h] = row] /\ commanded' = commanded /\ unit' = unit
      /\ \/ RequestOf[h] \in policy /\ flock' = flock
         \/ RequestOf[h] \notin policy /\ flock' = "free"
  BY DEF ReadPolicy, Moves, Ends, On
<1> HIDE DEF row
<1> QED BY <1>1, <1>2, OneHelper DEF HelperInv, HelperTypeOK, Section

(* A success or a failure of a helper in its section frees the lock.       *)
LEMMA EndInv ==
  ASSUME HelperInv, NEW h \in Helpers, NEW row \in HelperRows, Ends(h, row),
         row.stage \notin Section, helpers[h].stage \in Section,
         commanded' \in {commanded, [commanded EXCEPT ![UnitOf(h)] = h]},
         unit' \in [Units -> {"running", "stopped", "activating"}]
  PROVE  HelperInv'
<1>1. row.stage # "changed"
  BY DEF Section
<1> QED BY <1>1, OneHelper DEF Ends

(* The logs.                                                               *)
LEMMA ReadLogsInv ==
  ASSUME HelperInv, NEW h \in Helpers, ReadLogs(h)
  PROVE  HelperInv'
<1> DEFINE good == [helpers[h] EXCEPT !.stage = "ok", !.after = "none"]
           bad == [helpers[h] EXCEPT !.stage = "failed", !.error = "log_read_failed"]
<1>1. good \in HelperRows /\ bad \in HelperRows /\ good.stage = "ok" /\ bad.stage = "failed"
  BY DEF HelperInv, HelperTypeOK, HelperRows, Stages, Readable, Errors
<1>2. /\ helpers[h].stage \in Section /\ commanded' = commanded /\ unit' = unit
      /\ Ends(h, good) \/ Ends(h, bad)
  BY DEF ReadLogs, Succeeds, FailsWith, On, Section
<1>3. good.stage \notin Section /\ bad.stage \notin Section
  BY <1>1 DEF Section
<1> HIDE DEF good, bad
<1> QED BY <1>1, <1>2, <1>3, EndInv DEF HelperInv, HelperTypeOK

(* The first reading.                                                      *)
LEMMA ReadBeforeInv ==
  ASSUME HelperInv, NEW h \in Helpers, ReadBefore(h)
  PROVE  HelperInv'
<1>1. PICK state \in Readings(UnitOf(h)) :
        IF state = "error" THEN FailsWith(h, "state_read_failed")
        ELSE helpers' = [helpers EXCEPT ![h].stage = "read", ![h].before = state] /\ UNCHANGED flock
  BY DEF ReadBefore
<1>2. helpers[h].stage = "approved" /\ commanded' = commanded /\ unit' = unit
  BY DEF ReadBefore, On
<1>3. state \in {"running", "stopped", "error"}
  BY <1>1, UnitsOfRequests DEF Readings, HelperInv, HelperTypeOK
<1>4. CASE state = "error"
  <2> DEFINE bad == [helpers[h] EXCEPT !.stage = "failed", !.error = "state_read_failed"]
  <2>1. bad \in HelperRows /\ bad.stage = "failed"
    BY DEF HelperInv, HelperTypeOK, HelperRows, Stages, Errors
  <2>2. Ends(h, bad)
    BY <1>1, <1>4 DEF FailsWith
  <2> HIDE DEF bad
  <2> QED BY <1>2, <2>1, <2>2, EndInv DEF HelperInv, HelperTypeOK, Section
<1>5. CASE state # "error"
  <2> DEFINE row == [helpers[h] EXCEPT !.stage = "read", !.before = state]
  <2>1. row \in HelperRows /\ row.stage = "read"
    BY <1>3, <1>5 DEF HelperInv, HelperTypeOK, HelperRows, Stages, Readable
  <2>2. helpers' = [helpers EXCEPT ![h] = row] /\ flock' = flock
    BY <1>1, <1>5
  <2> HIDE DEF row
  <2> QED BY <1>2, <2>1, <2>2, OneHelper DEF HelperInv, HelperTypeOK, Section
<1> QED BY <1>4, <1>5

(* A command is given under the lock: no other helper is in its section.   *)
LEMMA ChangeTargetInv ==
  ASSUME HelperInv, NEW h \in Helpers, ChangeTarget(h)
  PROVE  HelperInv'
<1> DEFINE good == [helpers[h] EXCEPT !.stage = "changed"]
           bad == [helpers[h] EXCEPT !.stage = "failed", !.error = "command_failed"]
<1>1. good \in HelperRows /\ bad \in HelperRows /\ good.stage = "changed" /\ bad.stage = "failed"
  BY DEF HelperInv, HelperTypeOK, HelperRows, Stages, Errors
<1>2. /\ helpers[h].stage = "read" /\ commanded' = [commanded EXCEPT ![UnitOf(h)] = h]
      /\ \/ helpers' = [helpers EXCEPT ![h] = good] /\ flock' = flock
         \/ Ends(h, bad)
  BY DEF ChangeTarget, Moves, FailsWith, On
<1>3. unit' \in [Units -> {"running", "stopped", "activating"}]
  BY UnitsOfRequests DEF ChangeTarget, Effects, HelperInv, HelperTypeOK
<1> HIDE DEF good, bad
<1>4. CASE Ends(h, bad)
  BY <1>1, <1>2, <1>3, <1>4, EndInv DEF Section
<1>5. CASE helpers' = [helpers EXCEPT ![h] = good] /\ flock' = flock
  BY <1>1, <1>2, <1>3, <1>5, OneHelper DEF Section
<1> QED BY <1>2, <1>4, <1>5

(* A verification round gives no command and keeps the lock or ends.       *)
LEMMA VerifyInv ==
  ASSUME HelperInv, NEW h \in Helpers, Verify(h)
  PROVE  HelperInv'
<1>1. PICK state \in Readings(UnitOf(h)) :
        IF state = Expected(h) THEN Succeeds(h, state)
        ELSE LET seen == [helpers[h] EXCEPT !.after = IF state = "error" THEN @ ELSE state]
             IN \/ helpers' = [helpers EXCEPT ![h] = seen] /\ UNCHANGED flock
                \/ Ends(h, [seen EXCEPT !.stage = "failed", !.error = "health_verification_failed"])
  BY DEF Verify
<1>2. state \in {"running", "stopped", "error"}
  BY <1>1, UnitsOfRequests DEF Readings, HelperInv, HelperTypeOK
<1>3. helpers[h].stage = "changed" /\ commanded' = commanded /\ unit' = unit
  BY DEF Verify, On
<1>4. CASE state = Expected(h)
  <2> DEFINE good == [helpers[h] EXCEPT !.stage = "ok", !.after = state]
  <2>1. good \in HelperRows /\ good.stage = "ok"
    BY <1>2, <1>4 DEF HelperInv, HelperTypeOK, HelperRows, Stages, Readable, Expected
  <2>2. Ends(h, good)
    BY <1>1, <1>4 DEF Succeeds
  <2> HIDE DEF good
  <2> QED BY <1>3, <2>1, <2>2, EndInv DEF HelperInv, HelperTypeOK, Section
<1>5. CASE state # Expected(h)
  <2> DEFINE seen == [helpers[h] EXCEPT !.after = IF state = "error" THEN @ ELSE state]
             bad == [seen EXCEPT !.stage = "failed", !.error = "health_verification_failed"]
  <2>1. seen \in HelperRows /\ seen.stage = "changed"
    BY <1>2, <1>3 DEF HelperInv, HelperTypeOK, HelperRows, Readable
  <2>2. bad \in HelperRows /\ bad.stage = "failed"
    <3> HIDE DEF seen
    <3> QED BY <2>1 DEF HelperRows, Stages, Errors
  <2>3. \/ helpers' = [helpers EXCEPT ![h] = seen] /\ flock' = flock
        \/ Ends(h, bad)
    BY <1>1, <1>5
  <2> HIDE DEF seen, bad
  <2>4. CASE Ends(h, bad)
    BY <1>3, <2>2, <2>4, EndInv DEF HelperInv, HelperTypeOK, Section
  <2>5. CASE helpers' = [helpers EXCEPT ![h] = seen] /\ flock' = flock
    BY <1>3, <2>1, <2>5, OneHelper DEF HelperInv, HelperTypeOK, Section
  <2> QED BY <2>3, <2>4, <2>5
<1> QED BY <1>4, <1>5

(* A kill frees the lock of a helper in its section; the command it may    *)
(* have given can concern no other.                                        *)
LEMMA KillInv ==
  ASSUME HelperInv, NEW h \in Helpers, Kill(h)
  PROVE  HelperInv'
<1> DEFINE row == [helpers[h] EXCEPT !.stage = "killed"]
<1>1. row \in HelperRows /\ row.stage = "killed"
  BY DEF HelperInv, HelperTypeOK, HelperRows, Stages
<1>2. /\ helpers[h].stage \in Section /\ Ends(h, row)
      /\ unit' = unit /\ commanded' \in {commanded, [commanded EXCEPT ![UnitOf(h)] = h]}
  BY DEF Kill, Section
<1> HIDE DEF row
<1> QED BY <1>1, <1>2, EndInv DEF HelperInv, HelperTypeOK, Section

(* What happens around the helpers touches neither them nor the lock.      *)
LEMMA SurroundingsInv ==
  ASSUME HelperInv, (\E h \in Helpers : JobEnds(h)) \/ (\E t \in Units : Drift(t)) \/ WritePolicy
                    \/ UNCHANGED helperVars
  PROVE  HelperInv'
<1>1. UNCHANGED <<flock, helpers, commanded>>
  BY DEF JobEnds, Drift, WritePolicy, helperVars
<1>2. unit' \in [Units -> {"running", "stopped", "activating"}]
  BY UnitsOfRequests DEF HelperInv, HelperTypeOK, HelperRows, JobEnds, Drift, WritePolicy, helperVars, Expected
<1> QED BY <1>1, <1>2 DEF HelperInv, HelperTypeOK, HelperRows, LockInv, OwnInv, On

(* One step, whichever it is.                                              *)
LEMMA HelperNextInv == HelperInv /\ [HelperNext]_helperVars => HelperInv'
BY AcquireInv, ReadPolicyInv, ReadLogsInv, ReadBeforeInv, ChangeTargetInv, VerifyInv, KillInv, SurroundingsInv DEF HelperNext

(* One step that turns a helper's stage to "ok" is its ReadLogs or its     *)
(* Verify, and the latter finds its own command and the expected state.    *)
LEMMA SuccessStep ==
  ASSUME HelperInv, HelperNext, NEW h \in Helpers,
         ~On(h, "ok"), helpers'[h].stage = "ok", Kind(h) # "logs"
  PROVE  commanded[UnitOf(h)] = h /\ unit[UnitOf(h)] = Expected(h)
<1>1. Verify(h)
  <2> USE DEF HelperInv, HelperTypeOK, HelperRows, On
  <2>1. \A k \in Helpers : ~AcquireActionLock(k) /\ ~ReadPolicy(k)
    BY DEF AcquireActionLock, ReadPolicy, Moves, Ends
  <2>6. ASSUME NEW k \in Helpers, Kill(k)
        PROVE  FALSE
    BY <2>6 DEF Kill, Ends
  <2>7. ASSUME NEW k \in Helpers, ChangeTarget(k)
        PROVE  FALSE
    BY <2>7 DEF ChangeTarget, Moves, Ends, FailsWith
  <2>2. \A k \in Helpers : ~JobEnds(k) /\ ~ReadLogs(k) /\ ~ReadBefore(k)
    BY DEF JobEnds, ReadLogs, ReadBefore, Succeeds, Ends, FailsWith
  <2>3. ~WritePolicy /\ \A t \in Units : ~Drift(t)
    BY DEF WritePolicy, Drift
  <2>4. PICK k \in Helpers : Verify(k)
    BY <2>1, <2>2, <2>3, <2>6, <2>7 DEF HelperNext
  <2>5. k = h
    BY <2>4 DEF Verify, Succeeds, Ends
  <2> QED BY <2>4, <2>5
<1>2. commanded[UnitOf(h)] = h
  BY <1>1 DEF Verify, HelperInv, OwnInv
<1>3. PICK state \in Readings(UnitOf(h)) :
        IF state = Expected(h) THEN Succeeds(h, state)
        ELSE LET seen == [helpers[h] EXCEPT !.after = IF state = "error" THEN @ ELSE state]
             IN \/ helpers' = [helpers EXCEPT ![h] = seen] /\ UNCHANGED flock
                \/ Ends(h, [seen EXCEPT !.stage = "failed", !.error = "health_verification_failed"])
  BY <1>1 DEF Verify
<1>4. Expected(h) \in {"running", "stopped"}
  BY DEF Expected
<1>5. ASSUME state # Expected(h)
      PROVE  FALSE
  <2> DEFINE seen == [helpers[h] EXCEPT !.after = IF state = "error" THEN @ ELSE state]
             bad == [seen EXCEPT !.stage = "failed", !.error = "health_verification_failed"]
  <2>1. helpers[h] \in HelperRows /\ helpers[h].stage # "ok"
    BY DEF HelperInv, HelperTypeOK, On
  <2>2. seen.stage = helpers[h].stage /\ bad.stage = "failed"
    BY <2>1 DEF HelperRows
  <2>3. helpers' \in {[helpers EXCEPT ![h] = seen], [helpers EXCEPT ![h] = bad]}
    BY <1>3, <1>5 DEF Ends
  <2> HIDE DEF seen, bad
  <2> QED BY <2>1, <2>2, <2>3 DEF HelperInv, HelperTypeOK
<1>6. unit[UnitOf(h)] = Expected(h)
  BY <1>3, <1>4, <1>5 DEF Readings
<1> QED BY <1>2, <1>6
-----------------------------------------------------------------------------
(* The lock is held by whoever is between it and the end, and the last     *)
(* command given to a unit is that of the helper that verifies it.         *)
THEOREM HelperInvariant == HelperSpec => []HelperInv
BY HelperInitInv, HelperNextInv, PTL DEF HelperSpec

(* A helper that reports success was the last to command its unit and      *)
(* found it in the state it had asked for (action_policy_linux.go).        *)
THEOREM SuccessesOwn == HelperSpec => SuccessIsOwn
<1>1. HelperInv /\ [HelperNext]_helperVars =>
        [ \A h \in Helpers :
            ~On(h, "ok") /\ helpers'[h].stage = "ok" /\ Kind(h) # "logs"
            => commanded[UnitOf(h)] = h /\ unit[UnitOf(h)] = Expected(h) ]_helperVars
  BY SuccessStep
<1> QED BY <1>1, HelperInvariant, PTL DEF HelperSpec, SuccessIsOwn
=============================================================================
