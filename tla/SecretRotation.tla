--------------------------- MODULE SecretRotation ---------------------------
(***************************************************************************)
(* The internal secret with which dashboard and engine authenticate each   *)
(* other (SecretRotationService, lib/redis.ts): seeded at start, rotated   *)
(* every midnight by each replica under a redlock, revoked by hand, and    *)
(* checked against the current and the previous value in Redis.            *)
(*                                                                         *)
(* A task is one run of onModuleInit, of the cron or of revokeSecret, with *)
(* one action for each Redis command.  A secret is a number, 0 the one of  *)
(* the environment.  The lock outlives its holder by ten seconds only.     *)
(***************************************************************************)
EXTENDS Integers, FiniteSets

CONSTANTS Tasks,        \* runs of the handlers
          KindOf,       \* the handler of each task
          MaxSecret,    \* bound: secrets generated
          MaxDays,      \* bound: midnights
          RevokedDays,  \* midnights a revocation is kept (7 days in the code)
          MaxCrashes,   \* bound: tasks whose process dies
          Nothing       \* no value, nobody

ASSUME RotationAssumption ==
  /\ KindOf \in [Tasks -> {"boot", "cron", "revoke"}]
  /\ MaxSecret \in Nat /\ MaxDays \in Nat /\ MaxCrashes \in Nat
  /\ RevokedDays \in Nat \ {0}
  /\ Nothing \notin Tasks \cup {"dead"} \cup Nat /\ "dead" \notin Tasks

\* Every replica has the cron, and fewer runs die than a revocation is kept nights:
\* else it could lapse before the revoked secret has left both keys.
ASSUME RevocationLasts == MaxCrashes < RevokedDays /\ \E t \in Tasks : KindOf[t] = "cron"

VARIABLES
  current, previous,      \* Redis: the two keys
  revoked,                \* Redis: the set of revoked secrets
  bootLock, rotationLock, \* Redis: redlocks (a task, "dead" or Nothing)
  pc, saw, sawPrevious,   \* per task: its step, what it read of the two keys
  target,                 \* per task: the secret being revoked
  due,                    \* cron tasks whose midnight has come
  day, graceAge, revokedAge,  \* midnights so far, since previous was set, since the last revocation
  issued, crashes,        \* last secret generated, tasks that died
  check,                  \* a validation in progress
  replaced, condemned     \* history: what current replaced, secrets ever revoked

secretVars == <<current, previous, revoked, bootLock, rotationLock, pc, saw, sawPrevious, target, due,
                day, graceAge, revokedAge, issued, crashes, check, replaced, condemned>>
redisKeys == <<current, previous, revoked, graceAge, revokedAge, replaced, condemned>>
clock == <<due, day>>

Secrets == 0..MaxSecret
TaskSteps == {"idle", "bootLock", "bootRead", "bootSeed", "bootRelease", "lock", "read", "keep", "set",
              "release", "compare", "readPrevious", "forget", "done"}
NoCheck == [at |-> "idle", secret |-> Nothing, blind |-> FALSE, current |-> Nothing,
            known |-> FALSE, late |-> FALSE, held |-> FALSE]

SecretInit ==
  /\ current = Nothing /\ previous = Nothing /\ revoked = {}
  /\ bootLock = Nothing /\ rotationLock = Nothing
  /\ pc = [t \in Tasks |-> "idle"]
  /\ saw = [t \in Tasks |-> Nothing] /\ sawPrevious = [t \in Tasks |-> Nothing]
  /\ target = [t \in Tasks |-> Nothing] /\ due = {}
  /\ day = 0 /\ graceAge = 0 /\ revokedAge = 0 /\ issued = 0 /\ crashes = 0
  /\ check = NoCheck
  /\ replaced = Nothing /\ condemned = {}

Step(t, from, to) == pc[t] = from /\ pc' = [pc EXCEPT ![t] = to]
\* Where a rotation returns to: the handler that called rotateSecret.
Caller(t) == CASE KindOf[t] = "cron" -> "idle"
               [] KindOf[t] = "boot" -> "bootRelease"
               [] KindOf[t] = "revoke" -> "forget"
\* The local variables of a run that ended.
Forget(t) ==
  /\ saw' = [saw EXCEPT ![t] = Nothing] /\ sawPrevious' = [sawPrevious EXCEPT ![t] = Nothing]
  /\ target' = [target EXCEPT ![t] = Nothing]
Freed(lock, t) == IF lock = t THEN Nothing ELSE lock
-----------------------------------------------------------------------------
(* onModuleInit: the first replica seeds the current key *)

Boot(t) ==
  /\ KindOf[t] = "boot" /\ Step(t, "idle", "bootLock")
  /\ UNCHANGED <<redisKeys, bootLock, rotationLock, saw, sawPrevious, target, clock, issued, crashes, check>>

\* redlock waits for a few seconds, then the handler returns.
BootLock(t) ==
  /\ \/ bootLock = Nothing /\ bootLock' = t /\ Step(t, "bootLock", "bootRead")
     \/ bootLock # Nothing /\ UNCHANGED bootLock /\ Step(t, "bootLock", "done")
  /\ UNCHANGED <<redisKeys, rotationLock, saw, sawPrevious, target, clock, issued, crashes, check>>

\* Without a secret in the environment it rotates instead of seeding.
BootRead(t) ==
  /\ \/ current # Nothing /\ Step(t, "bootRead", "bootRelease")
     \/ current = Nothing /\ \E to \in {"bootSeed", "lock"} : Step(t, "bootRead", to)
  /\ UNCHANGED <<redisKeys, bootLock, rotationLock, saw, sawPrevious, target, clock, issued, crashes, check>>

BootSeed(t) ==
  /\ Step(t, "bootSeed", "bootRelease")
  /\ current' = 0 /\ replaced' = current
  /\ UNCHANGED <<previous, revoked, graceAge, revokedAge, condemned, bootLock, rotationLock, saw, sawPrevious,
                 target, clock, issued, crashes, check>>

BootRelease(t) ==
  /\ Step(t, "bootRelease", "done")
  /\ bootLock' = Freed(bootLock, t)
  /\ UNCHANGED <<redisKeys, rotationLock, saw, sawPrevious, target, clock, issued, crashes, check>>
-----------------------------------------------------------------------------
(* rotateSecret *)

\* Midnight comes for every replica; runs and locks of yesterday are gone,
\* and no replica starts at midnight.
Midnight ==
  /\ day < MaxDays /\ current # Nothing
  /\ due = {} /\ \A t \in Tasks : pc[t] \in IF KindOf[t] = "boot" THEN {"done"} ELSE {"idle", "done"}
  /\ bootLock = Nothing /\ rotationLock = Nothing
  /\ due' = {t \in Tasks : KindOf[t] = "cron"}
  /\ day' = day + 1
  /\ graceAge' = 1
  /\ revokedAge' = IF revoked = {} THEN 0 ELSE revokedAge + 1
  /\ UNCHANGED <<current, previous, revoked, replaced, condemned, bootLock, rotationLock, pc, saw, sawPrevious,
                 target, issued, crashes, check>>

CronFires(t) ==
  /\ t \in due /\ due' = due \ {t}
  /\ Step(t, "idle", "lock")
  /\ UNCHANGED <<redisKeys, bootLock, rotationLock, saw, sawPrevious, target, day, issued, crashes, check>>

\* redlock waits for about three seconds; if the lock is held that long the
\* caller is told nothing.
RotateLock(t) ==
  /\ \/ rotationLock = Nothing /\ rotationLock' = t /\ Step(t, "lock", "read")
     \/ rotationLock = "dead" /\ UNCHANGED rotationLock /\ Step(t, "lock", Caller(t))
  /\ UNCHANGED <<redisKeys, bootLock, saw, sawPrevious, target, clock, issued, crashes, check>>

RotateRead(t) ==
  /\ Step(t, "read", IF current = Nothing THEN "set" ELSE "keep")
  /\ saw' = [saw EXCEPT ![t] = current]
  /\ UNCHANGED <<redisKeys, bootLock, rotationLock, sawPrevious, target, clock, issued, crashes, check>>

\* (A rotation that overwrites the secret without keeping it.)
RotateKeepsNothing(t) ==
  /\ Step(t, "keep", "set")
  /\ replaced' = current
  /\ UNCHANGED <<current, previous, revoked, graceAge, revokedAge, condemned, bootLock, rotationLock, saw,
                 sawPrevious, target, clock, issued, crashes, check>>

RotateKeep(t) ==
  /\ Step(t, "keep", "set")
  /\ previous' = saw[t] /\ graceAge' = 0
  /\ replaced' = current
  /\ UNCHANGED <<current, revoked, revokedAge, condemned, bootLock, rotationLock, saw, sawPrevious,
                 target, clock, issued, crashes, check>>

RotateSet(t) ==
  /\ issued < MaxSecret
  /\ Step(t, "set", "release")
  /\ issued' = issued + 1
  /\ current' = issued + 1 /\ replaced' = current
  /\ saw' = [saw EXCEPT ![t] = Nothing]
  /\ UNCHANGED <<previous, revoked, graceAge, revokedAge, condemned, bootLock, rotationLock, sawPrevious,
                 target, clock, crashes, check>>

RotateRelease(t) ==
  /\ Step(t, "release", Caller(t))
  /\ rotationLock' = Freed(rotationLock, t)
  /\ UNCHANGED <<redisKeys, bootLock, saw, sawPrevious, target, clock, issued, crashes, check>>
-----------------------------------------------------------------------------
(* revokeSecret *)

\* SADD and EXPIRE.  No code of the repository calls it but a test: an
\* operator does, once the system has a secret.
Revoke(t, secret) ==
  /\ KindOf[t] = "revoke" /\ Step(t, "idle", "compare")
  /\ current # Nothing
  /\ target' = [target EXCEPT ![t] = secret]
  /\ revoked' = revoked \cup {secret} /\ revokedAge' = 0
  /\ condemned' = condemned \cup {secret}
  /\ UNCHANGED <<current, previous, graceAge, replaced, bootLock, rotationLock, saw, sawPrevious, clock,
                 issued, crashes, check>>

RevokeReadCurrent(t) ==
  /\ Step(t, "compare", "readPrevious")
  /\ saw' = [saw EXCEPT ![t] = current]
  /\ UNCHANGED <<redisKeys, bootLock, rotationLock, sawPrevious, target, clock, issued, crashes, check>>

\* (A revocation that looks at the previous secret only.)
RevokeReadPreviousOnly(t) ==
  /\ Step(t, "readPrevious", "forget")
  /\ sawPrevious' = [sawPrevious EXCEPT ![t] = previous]
  /\ UNCHANGED <<redisKeys, bootLock, rotationLock, saw, target, clock, issued, crashes, check>>

RevokeReadPrevious(t) ==
  /\ Step(t, "readPrevious", IF saw[t] = target[t] THEN "lock" ELSE "forget")
  /\ sawPrevious' = [sawPrevious EXCEPT ![t] = previous]
  /\ UNCHANGED <<redisKeys, bootLock, rotationLock, saw, target, clock, issued, crashes, check>>

\* DEL of the previous key, if it was the revoked secret when it was read.
RevokeForget(t) ==
  /\ Step(t, "forget", "done")
  /\ previous' = IF sawPrevious[t] = target[t] THEN Nothing ELSE previous
  /\ Forget(t)
  /\ UNCHANGED <<current, revoked, graceAge, revokedAge, replaced, condemned, bootLock, rotationLock,
                 clock, issued, crashes, check>>
-----------------------------------------------------------------------------
(* validateSecret, and validateInternalSecret of the dashboard *)

\* What the system should accept: the current key and the value it replaced
\* (until the next rotation begins to write), or the environment's secret
\* before there is any, unless revoked.
Promised(secret) ==
  /\ secret \notin condemned
  /\ \/ current # Nothing /\ secret \in {current, replaced}
     \/ current = Nothing /\ previous = Nothing /\ secret = 0

\* What Redis holds, or the environment's secret while it holds none.
Held(secret) == secret \in (IF current = Nothing /\ previous = Nothing THEN {0} ELSE {current, previous})

\* (Without the look at the set of revoked secrets.)
CheckNothingRevoked(secret, fails) ==
  /\ check.at = "idle"
  /\ check' = [at |-> "current", secret |-> secret, blind |-> fails /\ secret \in revoked, current |-> Nothing,
               known |-> Promised(secret), late |-> secret \in condemned, held |-> Held(secret)]
  /\ UNCHANGED <<redisKeys, bootLock, rotationLock, pc, saw, sawPrevious, target, clock, issued, crashes>>

\* SISMEMBER; its failure counts as not revoked.
CheckRevoked(secret, fails) ==
  /\ check.at = "idle"
  /\ check' = IF secret \in revoked /\ ~fails
                THEN NoCheck
                ELSE [at |-> "current", secret |-> secret, blind |-> fails /\ secret \in revoked, current |-> Nothing,
                      known |-> Promised(secret), late |-> secret \in condemned, held |-> Held(secret)]
  /\ UNCHANGED <<redisKeys, bootLock, rotationLock, pc, saw, sawPrevious, target, clock, issued, crashes>>

CheckCurrent ==
  /\ check.at = "current"
  /\ check' = [check EXCEPT !.at = "previous", !.current = current, !.held = @ \/ Held(check.secret)]
  /\ UNCHANGED <<redisKeys, bootLock, rotationLock, pc, saw, sawPrevious, target, clock, issued, crashes>>

\* (The environment's secret is accepted for ever.)
CandidatesAndEnvironment == {0, check.current, previous} \ {Nothing}

Candidates == IF check.current = Nothing /\ previous = Nothing THEN {0} ELSE {check.current, previous} \ {Nothing}
Accepts == check.at = "previous" /\ check.secret \in Candidates
Refuses == check.at = "previous" /\ check.secret \notin Candidates

CheckPrevious ==
  /\ Accepts \/ Refuses
  /\ check' = NoCheck
  /\ UNCHANGED <<redisKeys, bootLock, rotationLock, pc, saw, sawPrevious, target, clock, issued, crashes>>
-----------------------------------------------------------------------------
(* Time and failure *)

RotatedTonight == due = {} /\ \A t \in Tasks : KindOf[t] = "cron" => pc[t] = "idle"

\* The previous key lives for 26.4 hours: beyond the next midnight's rotation.
ExpirePrevious ==
  /\ previous # Nothing /\ graceAge > 0
  /\ RotatedTonight
  /\ previous' = Nothing
  /\ replaced' = Nothing
  /\ UNCHANGED <<current, revoked, graceAge, revokedAge, condemned, bootLock, rotationLock, pc, saw, sawPrevious,
                 target, clock, issued, crashes, check>>

ExpireRevoked ==
  /\ revoked # {} /\ revokedAge >= RevokedDays
  /\ RotatedTonight
  /\ revoked' = {} /\ revokedAge' = 0
  /\ UNCHANGED <<current, previous, graceAge, replaced, condemned, bootLock, rotationLock, pc, saw,
                 sawPrevious, target, clock, issued, crashes, check>>

ExpireLocks ==
  /\ bootLock = "dead" \/ rotationLock = "dead"
  /\ bootLock' = Freed(bootLock, "dead") /\ rotationLock' = Freed(rotationLock, "dead")
  /\ UNCHANGED <<redisKeys, pc, saw, sawPrevious, target, clock, issued, crashes, check>>

\* The process dies, or Redis fails the next command and the handler ends.
TaskDies(t) ==
  /\ crashes < MaxCrashes /\ crashes' = crashes + 1
  /\ pc[t] \notin {"idle", "done"}
  /\ pc' = [pc EXCEPT ![t] = IF KindOf[t] = "cron" THEN "idle" ELSE "done"]
  /\ bootLock' = IF bootLock = t THEN "dead" ELSE bootLock
  /\ rotationLock' = IF rotationLock = t THEN "dead" ELSE rotationLock
  /\ Forget(t)
  /\ UNCHANGED <<redisKeys, clock, issued, check>>

TaskStep(t) ==
  \/ BootLock(t) \/ BootRead(t) \/ BootSeed(t) \/ BootRelease(t)
  \/ CronFires(t) \/ RotateLock(t) \/ RotateRead(t) \/ RotateKeep(t) \/ RotateSet(t) \/ RotateRelease(t)
  \/ RevokeReadCurrent(t) \/ RevokeReadPrevious(t) \/ RevokeForget(t)

\* Bound: secrets that were retired long ago are not tried, nor revoked.
Tried == ({0, current, previous, replaced} \cup condemned) \ {Nothing}

SecretNext ==
  \/ \E t \in Tasks : Boot(t) \/ TaskStep(t) \/ TaskDies(t) \/ \E s \in {current, previous} \ {Nothing} : Revoke(t, s)
  \/ Midnight \/ ExpirePrevious \/ ExpireRevoked \/ ExpireLocks
  \/ \E s \in Tried, fails \in BOOLEAN : CheckRevoked(s, fails)
  \/ CheckCurrent \/ CheckPrevious

SecretSpec == SecretInit /\ [][SecretNext]_secretVars
-----------------------------------------------------------------------------
(* Properties *)

SecretTypeOK ==
  /\ current \in Secrets \cup {Nothing} /\ previous \in Secrets \cup {Nothing}
  /\ replaced \in Secrets \cup {Nothing} /\ target \in [Tasks -> Secrets \cup {Nothing}]
  /\ revoked \subseteq condemned /\ condemned \subseteq Secrets
  /\ {bootLock, rotationLock} \subseteq Tasks \cup {"dead", Nothing}
  /\ pc \in [Tasks -> TaskSteps]
  /\ saw \in [Tasks -> Secrets \cup {Nothing}] /\ sawPrevious \in [Tasks -> Secrets \cup {Nothing}]
  /\ due \subseteq Tasks
  /\ {day, graceAge, revokedAge} \subseteq 0..MaxDays
  /\ issued \in Secrets /\ crashes \in 0..MaxCrashes
  /\ check.at \in {"idle", "current", "previous"}

\* The overlap of two secrets has no hole: a request whose secret was current
\* when its validation began, or was replaced by the last rotation, is
\* accepted if nobody rotates twice or revokes meanwhile, at whatever point
\* of a rotation the two keys are read and wherever a rotation died.
GraceHonored ==
  [][(Refuses /\ check.known /\ Promised(check.secret) /\ condemned = {}) => check' # NoCheck]_secretVars

\* The two keys are read one after the other, and still a secret is accepted
\* only if Redis held it at some moment of its validation, that of the
\* environment only before Redis held any; and one revoked before its validation
\* began is refused, although the rotation that follows keeps it as the
\* previous secret, unless the set of revoked secrets could not be read.
RetiredRefused ==
  [][(Accepts /\ check' = NoCheck) =>
       /\ check.held \/ Held(check.secret)
       /\ check.late => check.blind]_secretVars

\* A revocation does not end with the revoked secret still current, which every
\* internal call would carry in vain, whatever was rotated while it ran, unless
\* a lock was left behind by a process that died.
RevokedReplaced ==
  [][\A t \in Tasks : (pc[t] = "forget" /\ pc'[t] = "done") => current # target[t] \/ crashes > 0]_secretVars

\* What a revocation promises while rotations, other revocations and dying
\* processes run into it: the old secret is refused and it is replaced.
RevocationHolds == RetiredRefused /\ RevokedReplaced

\* What a rotation and a revocation promise together.
SecretsHold == GraceHonored /\ RevocationHolds
=============================================================================
