--------------------------- MODULE FailureLimiters ---------------------------
(***************************************************************************)
(* The two counters of failed authentication: the Hub's login limiter,     *)
(* per client and global, with a lock that doubles, and the Agent's, one   *)
(* window and one lock.  A request is checked against the lock when it     *)
(* arrives and recorded when its password or token has been verified;      *)
(* time passes and other requests come between.  Time is in units of the   *)
(* Hub's base delay; passwords and cookies are left out.                   *)
(***************************************************************************)
EXTENDS Integers, FiniteSets

CONSTANTS
  Clients,             \* what clientIP returns
  Logins, Calls,       \* requests of the Hub and of the Agent in flight at once
  Threshold, MaxDelay, IdleTTL, \* rateLimitThreshold, rateLimitMaxDelay, rateLimitIdleTTL
  VerifySlots,         \* maxConcurrentPasswordChecks
  FailThreshold, Window, Lockout, \* newFailureLimiter
  MaxTime, MaxAttempts \* bounds

BaseDelay == 1
Global == "global"
Buckets == Clients \cup {Global}

ASSUME LimiterAssumption ==
  /\ Global \notin Clients
  /\ Threshold \in Nat /\ MaxDelay \in Nat \ {0} /\ VerifySlots \in Nat \ {0}
  /\ IdleTTL \in Nat /\ IdleTTL >= MaxDelay
  /\ FailThreshold \in Nat \ {0} /\ Window \in Nat \ {0} /\ Lockout \in Nat \ {0}
  /\ MaxTime \in Nat /\ MaxAttempts \in Nat

VARIABLES
  now,
  attempts,    \* Buckets -> loginAttempt
  logins,      \* Logins -> a request in handleLogin
  limiter,     \* the Agent's failureLimiter
  calls,       \* Calls -> a request in Server.handle
  attempted

limiterVars == <<now, attempts, logins, limiter, calls, attempted>>

NoAttempt == [failures |-> 0, lockedUntil |-> 0, last |-> 0]
Waiting == [stage |-> "idle", client |-> Global]

LimiterInit ==
  /\ now = 0
  /\ attempts = [k \in Buckets |-> NoAttempt]
  /\ logins = [r \in Logins |-> Waiting]
  /\ limiter = [fails |-> 0, windowStart |-> 0, lockedUntil |-> 0]
  /\ calls = [r \in Calls |-> "idle"]
  /\ attempted = 0
-----------------------------------------------------------------------------
Tick ==
  /\ now < MaxTime /\ now' = now + 1
  /\ UNCHANGED <<attempts, logins, limiter, calls, attempted>>

Attempt == attempted < MaxAttempts /\ attempted' = attempted + 1

(* The Hub.                                                                *)
Locked(k) == now < attempts[k].lockedUntil
Progress(r, stage) == logins' = [logins EXCEPT ![r].stage = stage]
Answered(r) == logins' = [logins EXCEPT ![r] = Waiting]
Verifying == {r \in Logins : logins[r].stage = "verifying"}

(* The limiter is asked before the body is read.                           *)
Arrive(r, client) ==
  /\ logins[r] = Waiting /\ ~Locked(Global) /\ ~Locked(client) /\ Attempt
  /\ logins' = [logins EXCEPT ![r] = [stage |-> "admitted", client |-> client]]
  /\ UNCHANGED <<now, attempts, limiter, calls>>

(* A bad body, no free slot, or a right password for which no cookie could *)
(* be drawn: answered without being recorded.                              *)
TurnedAway(r) ==
  /\ logins[r].stage \in {"admitted", "right"}
  /\ Answered(r)
  /\ UNCHANGED <<now, attempts, limiter, calls, attempted>>

VerifyPassword(r) ==
  /\ logins[r].stage = "admitted" /\ Cardinality(Verifying) < VerifySlots
  /\ Progress(r, "verifying")
  /\ UNCHANGED <<now, attempts, limiter, calls, attempted>>

(* The slot is free before the outcome is recorded.                        *)
Verified(r) ==
  /\ logins[r].stage = "verifying"
  /\ \E outcome \in {"wrong", "right"} : Progress(r, outcome)
  /\ UNCHANGED <<now, attempts, limiter, calls, attempted>>

(* The delay after so many rounds of the loop, which ends at the cap.      *)
Doubled[rounds \in Nat] ==
  IF rounds = 0 THEN BaseDelay
  ELSE LET delay == Doubled[rounds - 1] IN IF delay < MaxDelay THEN 2 * delay ELSE delay

Delay(failures) ==
  LET delay == Doubled[failures - Threshold - 1]
  IN IF delay > MaxDelay THEN MaxDelay ELSE delay

Failed(a) ==
  [failures |-> a.failures + 1, last |-> now,
   lockedUntil |-> IF a.failures + 1 > Threshold THEN now + Delay(a.failures + 1) ELSE a.lockedUntil]

RecordFailure(r) ==
  /\ logins[r].stage = "wrong"
  /\ attempts' = [k \in Buckets |-> IF k \in {logins[r].client, Global} THEN Failed(attempts[k]) ELSE attempts[k]]
  /\ Answered(r)
  /\ UNCHANGED <<now, limiter, calls, attempted>>

RecordSuccess(r) ==
  /\ logins[r].stage = "right"
  /\ attempts' = [k \in Buckets |-> IF k \in {logins[r].client, Global} THEN NoAttempt ELSE attempts[k]]
  /\ Answered(r)
  /\ UNCHANGED <<now, limiter, calls, attempted>>

(* Mutant: an entry is dropped after the base delay.                       *)
CleanupEarly ==
  /\ attempts' = [k \in Buckets |-> IF now - attempts[k].last >= BaseDelay THEN NoAttempt ELSE attempts[k]]
  /\ UNCHANGED <<now, logins, limiter, calls, attempted>>

Cleanup ==
  /\ attempts' = [k \in Buckets |-> IF now - attempts[k].last > IdleTTL THEN NoAttempt ELSE attempts[k]]
  /\ UNCHANGED <<now, logins, limiter, calls, attempted>>
-----------------------------------------------------------------------------
(* The Agent.                                                              *)
CallArrives(r) ==
  /\ calls[r] = "idle" /\ ~(now < limiter.lockedUntil) /\ Attempt
  /\ calls' = [calls EXCEPT ![r] = "checked"]
  /\ UNCHANGED <<now, attempts, logins, limiter>>

Unauthorized(r) ==
  /\ calls[r] = "checked"
  /\ LET restart == now - limiter.windowStart > Window
         fails == IF restart THEN 1 ELSE limiter.fails + 1
     IN limiter' = [fails |-> fails, windowStart |-> IF restart THEN now ELSE limiter.windowStart,
                    lockedUntil |-> IF fails >= FailThreshold THEN now + Lockout ELSE limiter.lockedUntil]
  /\ calls' = [calls EXCEPT ![r] = "idle"]
  /\ UNCHANGED <<now, attempts, logins, attempted>>

Authorized(r) ==
  /\ calls[r] = "checked"
  /\ limiter' = [limiter EXCEPT !.fails = 0]
  /\ calls' = [calls EXCEPT ![r] = "idle"]
  /\ UNCHANGED <<now, attempts, logins, attempted>>

LimiterNext ==
  \/ Tick \/ Cleanup
  \/ \E r \in Logins :
       \/ \E client \in Clients : Arrive(r, client)
       \/ TurnedAway(r) \/ VerifyPassword(r) \/ Verified(r) \/ RecordFailure(r) \/ RecordSuccess(r)
  \/ \E r \in Calls : CallArrives(r) \/ Unauthorized(r) \/ Authorized(r)

LimiterSpec == LimiterInit /\ [][LimiterNext]_limiterVars
-----------------------------------------------------------------------------
(* A lock that is in force is only ever lifted by a right password: a      *)
(* failure recorded late, from a request admitted before the lock, and the *)
(* hourly cleanup never shorten it, and each failure under a lock leaves   *)
(* at least as long a wait as the one before.  The Agent's lock is not     *)
(* shortened by anything, a right token included.                          *)
LockHolds ==
  [][ /\ \A k \in Buckets :
           Locked(k) /\ ~(\E r \in Logins : logins[r].stage = "right" /\ logins'[r] = Waiting)
           => attempts'[k].lockedUntil >= attempts[k].lockedUntil
      /\ now < limiter.lockedUntil => limiter'.lockedUntil >= limiter.lockedUntil ]_limiterVars
=============================================================================
