---------------------------- MODULE AccessProofs ----------------------------
(***************************************************************************)
(* Proofs about what guards the access to the Hub and the Agents, for any  *)
(* number of commands, clients, requests and bounds: a command that        *)
(* passes its comparison read the config file that is there, because the   *)
(* identity it kept is older than what it read and identities only grow    *)
(* (ConfigFile); and a lock after failed authentication is not shortened,  *)
(* because it is the delay of the last failure and delays grow             *)
(* (FailureLimiters).                                                      *)
(***************************************************************************)
EXTENDS ConfigFile, FailureLimiters, WellFoundedInduction, TLAPS

JobStages == {"new", "statted", "loaded", "compared", "renamed", "unchanged", "refused", "failed"}

(* The content a command will write takes no part in the argument.         *)
IsJob(row) == row.stage \in JobStages /\ row.original \in Nat /\ row.read \in Nat

JobTypeOK ==
  /\ inode \in Nat
  /\ DOMAIN jobs = Jobs /\ \A j \in Jobs : IsJob(jobs[j]) /\ DOMAIN jobs[j] = DOMAIN NoJob

(* What a command kept, what it read, and what is there, in this order.    *)
OrderInv ==
  \A j \in Jobs :
    /\ At(j, "statted") => jobs[j].original <= inode
    /\ At(j, "loaded") => jobs[j].original <= jobs[j].read /\ jobs[j].read <= inode

ConfigInv == JobTypeOK /\ OrderInv
-----------------------------------------------------------------------------
(* The file is created with the first identity; no command has begun.      *)
LEMMA ConfigInitInv == ConfigInit => ConfigInv
BY DEF ConfigInit, ConfigInv, JobTypeOK, IsJob, OrderInv, NoJob, At, JobStages

(* A step of one command: its new entry keeps the order, the others are    *)
(* untouched and the file's identity only grows.                           *)
LEMMA JobStep ==
  ASSUME ConfigInv, NEW j \in Jobs, NEW row, IsJob(row), DOMAIN row = DOMAIN NoJob,
         jobs' = [jobs EXCEPT ![j] = row],
         inode' \in {inode, inode + 1},
         row.stage = "statted" => row.original <= inode,
         row.stage = "loaded" => row.original <= row.read /\ row.read <= inode
  PROVE  ConfigInv'
<1> USE DEF ConfigInv, JobTypeOK
<1>1. inode' \in Nat /\ inode <= inode'
  OBVIOUS
<1>2. DOMAIN jobs' = Jobs /\ jobs'[j] = row
  OBVIOUS
<1>3. \A k \in Jobs \ {j} : jobs'[k] = jobs[k]
  OBVIOUS
<1>4. JobTypeOK'
  BY <1>1, <1>2, <1>3
<1>5. OrderInv'
  <2> SUFFICES ASSUME NEW k \in Jobs
               PROVE  /\ At(k, "statted")' => jobs'[k].original <= inode'
                      /\ At(k, "loaded")' => jobs'[k].original <= jobs'[k].read /\ jobs'[k].read <= inode'
    BY DEF OrderInv
  <2>1. CASE k = j
    BY <1>1, <1>2, <2>1 DEF At, IsJob
  <2>2. CASE k # j
    <3>1. jobs'[k] = jobs[k] /\ IsJob(jobs[k])
      BY <1>3, <2>2
    <3> QED BY <1>1, <3>1 DEF At, OrderInv, IsJob
  <2> QED BY <2>1, <2>2
<1> QED BY <1>4, <1>5

(* A step that changes the stage of a command only, to one without order.  *)
LEMMA StageStep ==
  ASSUME ConfigInv, NEW j \in Jobs, NEW s \in JobStages \ {"statted", "loaded"}, To(j, s),
         inode' \in {inode, inode + 1}
  PROVE  ConfigInv'
<1> DEFINE row == [jobs[j] EXCEPT !.stage = s]
<1>1. IsJob(row) /\ DOMAIN row = DOMAIN NoJob /\ row.stage = s
  BY DEF ConfigInv, JobTypeOK, IsJob, NoJob
<1>2. jobs' = [jobs EXCEPT ![j] = row]
  BY DEF To
<1> HIDE DEF row
<1> QED BY <1>1, <1>2, JobStep

(* The Lstat is kept before the file is read.                              *)
LEMMA LstatInv ==
  ASSUME ConfigInv, NEW j \in Jobs, Lstat(j)
  PROVE  ConfigInv'
<1> DEFINE row == [jobs[j] EXCEPT !.stage = "statted", !.original = inode]
<1>1. /\ IsJob(row) /\ DOMAIN row = DOMAIN NoJob
      /\ row.stage = "statted" /\ row.original = inode /\ row.original <= inode
  BY DEF ConfigInv, JobTypeOK, IsJob, NoJob, JobStages
<1>2. jobs' = [jobs EXCEPT ![j] = row] /\ inode' \in {inode, inode + 1}
  BY DEF Lstat
<1>3. row.stage # "loaded"
  BY <1>1
<1> HIDE DEF row
<1> QED BY <1>1, <1>2, <1>3, JobStep

(* What is read now was there, or came, after the Lstat.                   *)
LEMMA LoadInv ==
  ASSUME ConfigInv, NEW j \in Jobs, Load(j)
  PROVE  ConfigInv'
<1>1. inode' = inode /\ inode \in Nat
  BY DEF Load, ConfigInv, JobTypeOK
<1>2. CASE NoOp(WorkOf[j], file)
  BY <1>1, <1>2, StageStep DEF Load, JobStages
<1>3. CASE ~NoOp(WorkOf[j], file)
  <2> DEFINE row == [jobs[j] EXCEPT !.stage = "loaded", !.read = inode, !.config = Applied(WorkOf[j], file)]
  <2>1. /\ IsJob(row) /\ DOMAIN row = DOMAIN NoJob
        /\ row.stage = "loaded" /\ row.read = inode /\ row.original = jobs[j].original
    BY DEF ConfigInv, JobTypeOK, IsJob, NoJob, JobStages
  <2>2. jobs' = [jobs EXCEPT ![j] = row] /\ jobs[j].original <= inode
    BY <1>3 DEF Load, ConfigInv, OrderInv
  <2>3. row.stage # "statted" /\ row.original <= row.read /\ row.read <= inode /\ inode' \in {inode, inode + 1}
    BY <1>1, <2>1, <2>2
  <2> HIDE DEF row
  <2> QED BY <2>1, <2>2, <2>3, JobStep
<1> QED BY <1>2, <1>3

(* An editor's save gives the file a new identity.                         *)
LEMMA EditInv == ConfigInv /\ (EditByHand \/ UNCHANGED configVars) => ConfigInv'
<1> SUFFICES ASSUME ConfigInv, EditByHand \/ UNCHANGED configVars
             PROVE  ConfigInv'
  OBVIOUS
<1>1. jobs' = jobs /\ inode \in Nat /\ inode' \in Nat /\ inode <= inode'
  BY DEF ConfigInv, JobTypeOK, EditByHand, configVars
<1>2. JobTypeOK'
  BY <1>1 DEF ConfigInv, JobTypeOK
<1>3. OrderInv'
  <2> SUFFICES ASSUME NEW j \in Jobs
               PROVE  /\ At(j, "statted") => jobs[j].original <= inode'
                      /\ At(j, "loaded") => jobs[j].original <= jobs[j].read /\ jobs[j].read <= inode'
    BY <1>1 DEF OrderInv, At
  <2>1. jobs[j].original \in Nat /\ jobs[j].read \in Nat
    BY DEF ConfigInv, JobTypeOK, IsJob
  <2> QED BY <1>1, <2>1 DEF ConfigInv, OrderInv
<1> QED BY <1>2, <1>3 DEF ConfigInv

(* One step, whichever it is.                                              *)
LEMMA ConfigNextInv == ConfigInv /\ [ConfigNext]_configVars => ConfigInv'
<1> SUFFICES ASSUME ConfigInv, [ConfigNext]_configVars
             PROVE  ConfigInv'
  OBVIOUS
<1>1. ASSUME NEW j \in Jobs, Compare(j)
      PROVE  ConfigInv'
  <2>1. inode' = inode /\ \E s \in {"compared", "refused"} : To(j, s)
    BY <1>1 DEF Compare
  <2> QED BY <2>1, StageStep DEF JobStages
<1>2. ASSUME NEW j \in Jobs, Replace(j) \/ Fail(j)
      PROVE  ConfigInv'
  <2>1. inode' \in {inode, inode + 1} /\ \E s \in {"renamed", "failed"} : To(j, s)
    BY <1>2 DEF Replace, Fail
  <2> QED BY <2>1, StageStep DEF JobStages
<1> QED BY <1>1, <1>2, LstatInv, LoadInv, EditInv DEF ConfigNext
-----------------------------------------------------------------------------
(* The identity a command kept is never newer than the one it read, and    *)
(* that never newer than the one in place.                                 *)
THEOREM ConfigInvariant == ConfigSpec => []ConfigInv
BY ConfigInitInv, ConfigNextInv, PTL DEF ConfigSpec

(* A command passes its comparison only with the file it read in place, so *)
(* no earlier edit is overwritten (writeConfigAtomically of config.go).    *)
THEOREM ComparisonsRead == ConfigSpec => ComparedIsRead
<1>1. ASSUME ConfigInv, ConfigNext, NEW j \in Jobs, ~At(j, "compared"), jobs'[j].stage = "compared"
      PROVE  jobs[j].read = inode
  <2> USE DEF ConfigInv, JobTypeOK, At
  <2>1. ~EditByHand
    BY <1>1 DEF EditByHand
  <2>2. PICK k \in Jobs : Lstat(k) \/ Load(k) \/ Compare(k) \/ Replace(k) \/ Fail(k)
    BY <1>1, <2>1 DEF ConfigNext
  <2>3. k = j
    BY <1>1, <2>2 DEF Lstat, Load, Compare, Replace, Fail, To
  <2>4. ~Lstat(j) /\ ~Load(j)
    BY <1>1 DEF Lstat, Load, To, NoJob
  <2>5. ~Replace(j) /\ ~Fail(j)
    BY <1>1 DEF Replace, Fail, To, NoJob
  <2>6. jobs[j].stage = "loaded" /\ inode = jobs[j].original
    BY <1>1, <2>2, <2>3, <2>4, <2>5 DEF Compare, To, NoJob
  <2> QED BY <1>1, <2>6 DEF OrderInv, IsJob
<1>2. ConfigInv /\ [ConfigNext]_configVars =>
        [\A j \in Jobs : ~At(j, "compared") /\ jobs'[j].stage = "compared" => jobs[j].read = inode]_configVars
  BY <1>1
<1> QED BY <1>2, ConfigInvariant, PTL DEF ConfigSpec, ComparedIsRead
-----------------------------------------------------------------------------
(* Among some numbers one is the least.                                    *)
LEMMA LeastNumber ==
  ASSUME NEW T, T \subseteq Nat, T # {}
  PROVE  \E t \in T : \A u \in T : t <= u
<1> DEFINE R == {ss \in Nat \X Nat : ss[1] < ss[2]}
<1>1. IsWellFoundedOn(R, Nat)
  BY NatLessThanWellFounded DEF OpToRel
<1>2. \A a, b \in Nat : a < b => <<a, b>> \in R
  OBVIOUS
<1> HIDE DEF R
<1>3. PICK t \in T : \A u \in T : <<u, t>> \notin R
  BY <1>1, WFMin
<1>4. \A u \in T : u \in Nat /\ t \in Nat /\ ~(u < t)
  BY <1>2, <1>3
<1> QED BY <1>4

(* One round of the loop, and the delays of its first n rounds.            *)
Round(delay) == IF delay < MaxDelay THEN 2 * delay ELSE delay
IsTable(g, n) ==
  g \in [0..n -> Nat] /\ g[0] = BaseDelay /\ \A i \in 1..n : g[i] = Round(g[i - 1])

(* The loop can be run for any number of rounds, in one way.               *)
LEMMA TablesExist == \A n \in Nat : \E g : IsTable(g, n)
<1> DEFINE T == {n \in Nat : ~ \E g : IsTable(g, n)}
<1> SUFFICES ASSUME T # {}
             PROVE  FALSE
  OBVIOUS
<1>1. PICK t \in T : \A u \in T : t <= u
  BY LeastNumber
<1>2. t # 0
  <2>1. IsTable([i \in 0..0 |-> BaseDelay], 0)
    BY DEF IsTable, BaseDelay
  <2> QED BY <2>1
<1>3. t - 1 \in Nat /\ t - 1 \notin T
  BY <1>1, <1>2
<1>4. PICK g : IsTable(g, t - 1)
  BY <1>3
<1> DEFINE h == [i \in 0..t |-> IF i = t THEN Round(g[t - 1]) ELSE g[i]]
<1>5. \A i \in 0..(t - 1) : g[i] \in Nat /\ i \in 0..t /\ h[i] = g[i]
  BY <1>3, <1>4 DEF IsTable
<1>6. t \in Nat
  OBVIOUS
<1> HIDE DEF T
<1>7. t - 1 \in 0..(t - 1) /\ t \in 0..t
  BY <1>3, <1>6
<1>8. Round(g[t - 1]) \in Nat
  <2>1. g[t - 1] \in Nat
    BY <1>5, <1>7
  <2>2. \A delay \in Nat : Round(delay) \in Nat
    BY DEF Round
  <2> HIDE DEF h
  <2> QED BY <2>1, <2>2
<1>9. t \in Nat /\ t - 1 \in 0..(t - 1) /\ h[t] = Round(g[t - 1]) /\ Round(g[t - 1]) \in Nat
  BY <1>6, <1>7, <1>8
<1>10. h \in [0..t -> Nat]
  <2>1. \A i \in 0..t : i # t => i \in 0..(t - 1)
    BY <1>6
  <2>2. \A i \in 0..t : (IF i = t THEN Round(g[t - 1]) ELSE g[i]) \in Nat
    BY <1>5, <1>9, <2>1
  <2> QED BY <2>2
<1>11. h[0] = BaseDelay
  BY <1>3, <1>4, <1>5 DEF IsTable
<1>12. ASSUME NEW i \in 1..t
      PROVE  h[i] = Round(h[i - 1])
  <2>1. i - 1 \in 0..(t - 1) /\ h[i - 1] = g[i - 1]
    BY <1>5, <1>9
  <2>2. CASE i = t
    BY <1>9, <2>1, <2>2
  <2>3. CASE i # t
    <3>1. i \in 0..(t - 1) /\ i \in 1..(t - 1)
      BY <1>9, <2>3
    <3> QED BY <1>4, <1>5, <2>1, <3>1 DEF IsTable
  <2> QED BY <2>2, <2>3
<1>13. IsTable(h, t)
  <2> HIDE DEF h
  <2> QED BY <1>10, <1>11, <1>12 DEF IsTable
<1> QED BY <1>1, <1>13 DEF T

(* Longer runs continue shorter ones.                                     *)
LEMMA TablesAgree ==
  ASSUME NEW n \in Nat, NEW m \in Nat, NEW g, NEW h, IsTable(g, n), IsTable(h, m), n <= m
  PROVE  \A i \in 0..n : g[i] = h[i]
<1> DEFINE T == {i \in 0..n : g[i] # h[i]}
<1> SUFFICES ASSUME T # {}
             PROVE  FALSE
  OBVIOUS
<1>0. T \subseteq Nat
  OBVIOUS
<1>1. PICK t \in T : \A u \in T : t <= u
  <2> HIDE DEF T
  <2> QED BY <1>0, LeastNumber
<1>2. t \in 0..n /\ g[t] # h[t] /\ t # 0
  BY DEF IsTable
<1>3. t - 1 \in 0..n /\ t - 1 \notin T /\ t \in 1..n /\ t \in 1..m
  BY <1>1, <1>2
<1>4. g[t - 1] = h[t - 1]
  BY <1>3
<1> QED BY <1>2, <1>3, <1>4 DEF IsTable

(* Doubled is what the loop computes.                                      *)
LEMMA DoubledRounds ==
  /\ Doubled[0] = BaseDelay
  /\ \A n \in Nat : Doubled[n + 1] = Round(Doubled[n])
<1> DEFINE Table(n) == CHOOSE g : IsTable(g, n)
           f == [n \in Nat |-> Table(n)[n]]
           Body(e) == [n \in Nat |-> IF n = 0 THEN BaseDelay
                                     ELSE LET delay == e[n - 1] IN IF delay < MaxDelay THEN 2 * delay ELSE delay]
<1>1. \A n \in Nat : IsTable(Table(n), n)
  BY TablesExist
<1>2. f[0] = BaseDelay
  BY <1>1 DEF IsTable
<1>3. ASSUME NEW n \in Nat, n # 0
      PROVE  f[n] = Round(f[n - 1])
  <2>1. n - 1 \in Nat /\ n \in 1..n /\ n - 1 \in 0..(n - 1)
    BY <1>3
  <2>2. IsTable(Table(n), n) /\ IsTable(Table(n - 1), n - 1)
    BY <1>1, <2>1
  <2> HIDE DEF Table
  <2>3. Table(n - 1)[n - 1] = Table(n)[n - 1]
    BY <2>1, <2>2, TablesAgree
  <2>4. Table(n)[n] = Round(Table(n)[n - 1])
    BY <2>1, <2>2 DEF IsTable
  <2> QED BY <2>1, <2>3, <2>4
<1> HIDE DEF Table
<1>4. f = Body(f)
  <2>1. \A n \in Nat : f[n] = Body(f)[n]
    BY <1>2, <1>3 DEF Round
  <2> HIDE DEF f
  <2>2. DOMAIN Body(f) = Nat /\ Body(f) = [n \in DOMAIN Body(f) |-> Body(f)[n]]
    OBVIOUS
  <2>3. f = [n \in Nat |-> f[n]]
    BY DEF f
  <2> HIDE DEF Body
  <2>4. Body(f) = [n \in Nat |-> Body(f)[n]]
    BY <2>2
  <2> QED BY <2>1, <2>3, <2>4
<1>5. Doubled = CHOOSE e : e = Body(e)
  BY DEF Doubled
<1>6. Doubled = Body(Doubled)
  <2> HIDE DEF Body, f
  <2> QED BY <1>4, <1>5
<1>7. ASSUME NEW n \in Nat
      PROVE  Doubled[n] = IF n = 0 THEN BaseDelay ELSE Round(Doubled[n - 1])
  <2>1. Body(Doubled)[n] = IF n = 0 THEN BaseDelay ELSE Round(Doubled[n - 1])
    BY DEF Round
  <2> HIDE DEF Body
  <2> QED BY <1>6, <2>1
<1>8. ASSUME NEW n \in Nat
      PROVE  Doubled[n + 1] = Round(Doubled[n])
  <2>1. n + 1 \in Nat /\ n + 1 # 0 /\ (n + 1) - 1 = n
    OBVIOUS
  <2> QED BY <1>7, <2>1
<1> QED BY <1>7, <1>8

(* A delay is a number up to the cap, and no failure makes it shorter.     *)
LEMMA DelaysGrow ==
  ASSUME NEW n \in Nat, n > Threshold
  PROVE  Delay(n) \in 0..MaxDelay /\ Delay(n + 1) \in 0..MaxDelay /\ Delay(n) <= Delay(n + 1)
<1> DEFINE T == {i \in Nat : Doubled[i] \notin Nat}
<1>1. \A i \in Nat : Doubled[i] \in Nat
  <2> SUFFICES ASSUME T # {}
               PROVE  FALSE
    OBVIOUS
  <2>1. PICK t \in T : \A u \in T : t <= u
    BY LeastNumber
  <2>2. t # 0
    BY DoubledRounds DEF BaseDelay
  <2>3. t - 1 \in Nat /\ t - 1 \notin T /\ (t - 1) + 1 = t
    BY <2>1, <2>2
  <2>4. Doubled[t - 1] \in Nat
    BY <2>3
  <2>5. Doubled[t] = Round(Doubled[t - 1])
    BY <2>3, DoubledRounds
  <2>6. Round(Doubled[t - 1]) \in Nat
    BY <2>4 DEF Round
  <2> QED BY <2>5, <2>6
<1> DEFINE i == n - Threshold - 1
<1>2. i \in Nat /\ (n + 1) - Threshold - 1 = i + 1
  BY LimiterAssumption
<1>3. Doubled[i] \in Nat /\ Doubled[i + 1] \in Nat /\ Doubled[i + 1] = Round(Doubled[i])
  BY <1>1, <1>2, DoubledRounds
<1>4. /\ Delay(n) = IF Doubled[i] > MaxDelay THEN MaxDelay ELSE Doubled[i]
      /\ Delay(n + 1) = IF Doubled[i + 1] > MaxDelay THEN MaxDelay ELSE Doubled[i + 1]
  BY <1>2 DEF Delay
<1> HIDE DEF i
<1>5. Doubled[i] <= Doubled[i + 1]
  BY <1>3 DEF Round
<1> QED BY <1>3, <1>4, <1>5, LimiterAssumption
-----------------------------------------------------------------------------
(* The lock of a bucket is the delay of its last failure; the Agent's lock *)
(* lasts no longer than its span from now.                                 *)
IsAttempt(a) ==
  /\ a.failures \in Nat /\ a.last \in 0..now /\ a.lockedUntil \in Nat
  /\ a.lockedUntil > 0 => a.failures > Threshold /\ a.lockedUntil <= a.last + Delay(a.failures)

LimiterInv ==
  /\ now \in Nat
  /\ DOMAIN attempts = Buckets /\ \A k \in Buckets : IsAttempt(attempts[k])
  /\ DOMAIN logins = Logins
  /\ limiter.fails \in Nat /\ limiter.windowStart \in Nat
  /\ limiter.lockedUntil \in 0..(now + Lockout)

(* Nobody is locked at first.                                              *)
LEMMA LimiterInitInv == LimiterInit => LimiterInv
<1> SUFFICES ASSUME LimiterInit
             PROVE  LimiterInv
  OBVIOUS
<1>1. now = 0 /\ \A k \in Buckets : attempts[k] = NoAttempt
  BY DEF LimiterInit
<1>2. IsAttempt(NoAttempt)
  BY <1>1 DEF IsAttempt, NoAttempt
<1> QED BY <1>1, <1>2, LimiterAssumption DEF LimiterInit, LimiterInv

(* The Hub's locks after one step: kept, extended, or cleared when they    *)
(* had ended or a right password was given.                                *)
LEMMA BucketStep ==
  ASSUME LimiterInv, [LimiterNext]_limiterVars, NEW k \in Buckets
  PROVE  /\ IsAttempt(attempts[k])'
         /\ Locked(k) /\ ~(\E r \in Logins : logins[r].stage = "right" /\ logins'[r] = Waiting)
              => attempts'[k].lockedUntil >= attempts[k].lockedUntil
<1> DEFINE a == attempts[k]
<1>1. /\ now \in Nat /\ a.failures \in Nat /\ a.last \in 0..now /\ a.lockedUntil \in Nat
      /\ a.lockedUntil > 0 => a.failures > Threshold /\ a.lockedUntil <= a.last + Delay(a.failures)
  BY DEF LimiterInv, IsAttempt
<1>2. now' \in Nat /\ now <= now'
  BY <1>1 DEF LimiterNext, limiterVars, Tick, Cleanup, Arrive, TurnedAway, VerifyPassword, Verified,
              RecordFailure, RecordSuccess, CallArrives, Unauthorized, Authorized
<1>3. \/ attempts'[k] = a
      \/ attempts'[k] = Failed(a) /\ now' = now
      \/ /\ attempts'[k] = NoAttempt
         /\ \/ now - a.last > IdleTTL
            \/ \E r \in Logins : logins[r].stage = "right" /\ logins'[r] = Waiting
  BY DEF LimiterInv, LimiterNext, limiterVars, Tick, Cleanup, Arrive, TurnedAway, VerifyPassword, Verified,
         RecordFailure, RecordSuccess, CallArrives, Unauthorized, Authorized, Answered
<1> HIDE DEF a
<1>4. CASE attempts'[k] = a
  BY <1>1, <1>2, <1>4 DEF IsAttempt, a
<1>5. CASE attempts'[k] = Failed(a) /\ now' = now
  <2>1. /\ attempts'[k].failures = a.failures + 1 /\ attempts'[k].last = now
        /\ attempts'[k].lockedUntil = IF a.failures + 1 > Threshold THEN now + Delay(a.failures + 1)
                                      ELSE a.lockedUntil
    BY <1>5 DEF Failed
  <2>2. CASE a.failures > Threshold
    <3>1. Delay(a.failures) \in Nat /\ Delay(a.failures + 1) \in Nat /\ Delay(a.failures) <= Delay(a.failures + 1)
      BY <1>1, <2>2, DelaysGrow, LimiterAssumption
    <3> QED BY <1>1, <1>5, <2>1, <2>2, <3>1, LimiterAssumption DEF IsAttempt, a
  <2>3. CASE ~(a.failures > Threshold)
    <3>1. a.lockedUntil = 0
      BY <1>1, <2>3
    <3>2. CASE a.failures + 1 > Threshold
      <4>1. Delay(a.failures + 1) \in Nat
        BY <1>1, <3>2, DelaysGrow, LimiterAssumption
      <4> QED BY <1>1, <1>5, <2>1, <3>1, <3>2, <4>1 DEF IsAttempt, a
    <3>3. CASE ~(a.failures + 1 > Threshold)
      BY <1>1, <1>5, <2>1, <3>1, <3>3 DEF IsAttempt, a
    <3> QED BY <3>2, <3>3
  <2> QED BY <2>2, <2>3
<1>6. CASE /\ attempts'[k] = NoAttempt
           /\ \/ now - a.last > IdleTTL
              \/ \E r \in Logins : logins[r].stage = "right" /\ logins'[r] = Waiting
  <2>1. IsAttempt(attempts[k])'
    BY <1>2, <1>6 DEF IsAttempt, NoAttempt
  <2>2. now - a.last > IdleTTL => ~(now < a.lockedUntil)
    <3> SUFFICES ASSUME now - a.last > IdleTTL, now < a.lockedUntil
                 PROVE  FALSE
      OBVIOUS
    <3>1. Delay(a.failures) \in 0..MaxDelay
      BY <1>1, DelaysGrow
    <3> QED BY <1>1, <3>1, LimiterAssumption
  <2> QED BY <1>6, <2>1, <2>2 DEF Locked, a
<1> QED BY <1>3, <1>4, <1>5, <1>6

(* The Agent's lock after one step.                                        *)
LEMMA AgentStep ==
  ASSUME LimiterInv, [LimiterNext]_limiterVars
  PROVE  /\ now' \in Nat
         /\ limiter'.fails \in Nat /\ limiter'.windowStart \in Nat
         /\ limiter'.lockedUntil \in 0..(now' + Lockout)
         /\ now < limiter.lockedUntil => limiter'.lockedUntil >= limiter.lockedUntil
<1>1. /\ now \in Nat /\ Lockout \in Nat
      /\ limiter.fails \in Nat /\ limiter.windowStart \in Nat /\ limiter.lockedUntil \in 0..(now + Lockout)
  BY LimiterAssumption DEF LimiterInv
<1>2. \/ limiter' = limiter /\ now' \in {now, now + 1}
      \/ \E r \in Calls : Unauthorized(r) \/ Authorized(r)
  BY DEF LimiterNext, limiterVars, Tick, Cleanup, Arrive, TurnedAway, VerifyPassword, Verified,
         RecordFailure, RecordSuccess, CallArrives
<1>3. CASE limiter' = limiter /\ now' \in {now, now + 1}
  BY <1>1, <1>3
<1>4. ASSUME NEW r \in Calls, Unauthorized(r)
      PROVE  /\ now' = now /\ limiter'.fails \in Nat /\ limiter'.windowStart \in Nat
             /\ limiter'.lockedUntil \in {now + Lockout, limiter.lockedUntil}
  BY <1>1, <1>4 DEF Unauthorized
<1>5. ASSUME NEW r \in Calls, Authorized(r)
      PROVE  /\ now' = now /\ limiter'.fails \in Nat /\ limiter'.windowStart \in Nat
             /\ limiter'.lockedUntil = limiter.lockedUntil
  BY <1>1, <1>5 DEF Authorized
<1> QED BY <1>1, <1>2, <1>3, <1>4, <1>5

(* One step, whichever it is.                                              *)
LEMMA LimiterNextInv == LimiterInv /\ [LimiterNext]_limiterVars => LimiterInv'
<1> SUFFICES ASSUME LimiterInv, [LimiterNext]_limiterVars
             PROVE  LimiterInv'
  OBVIOUS
<1>1. DOMAIN attempts' = Buckets /\ DOMAIN logins' = Logins
  BY DEF LimiterInv, LimiterNext, limiterVars, Tick, Cleanup, Arrive, TurnedAway, VerifyPassword, Verified,
         RecordFailure, RecordSuccess, CallArrives, Unauthorized, Authorized, Answered, Progress
<1>2. \A k \in Buckets : IsAttempt(attempts[k])'
  BY BucketStep
<1>3. /\ now' \in Nat /\ limiter'.fails \in Nat /\ limiter'.windowStart \in Nat
      /\ limiter'.lockedUntil \in 0..(now' + Lockout)
  BY AgentStep
<1> QED BY <1>1, <1>2, <1>3 DEF LimiterInv, IsAttempt

(* Every lock is the delay of a failure that was recorded, and ends within *)
(* that delay of it.                                                       *)
THEOREM LimiterInvariant == LimiterSpec => []LimiterInv
BY LimiterInitInv, LimiterNextInv, PTL DEF LimiterSpec

(* A lock that is in force is lifted or shortened by nothing but a right   *)
(* password, the Agent's by nothing at all (recordFailureLocked and        *)
(* cleanup of ratelimit.go, failureLimiter of agent/server.go).            *)
THEOREM LocksHold == LimiterSpec => LockHolds
<1>1. LimiterInv /\ [LimiterNext]_limiterVars =>
        [ /\ \A k \in Buckets :
               Locked(k) /\ ~(\E r \in Logins : logins[r].stage = "right" /\ logins'[r] = Waiting)
               => attempts'[k].lockedUntil >= attempts[k].lockedUntil
          /\ now < limiter.lockedUntil => limiter'.lockedUntil >= limiter.lockedUntil ]_limiterVars
  BY BucketStep, AgentStep
<1> QED BY <1>1, LimiterInvariant, PTL DEF LimiterSpec, LockHolds
=============================================================================
