----------------------------- MODULE TwoFactor -----------------------------
(***************************************************************************)
(* The second factor of one account: enrolment, the check of a code        *)
(* (verifyTwoFactor) under its lock, and the operations that need it: the  *)
(* second step of a sign-in, the admin panel's login, the step-up of the   *)
(* routes that hand out secrets, switching it off.                         *)
(*                                                                         *)
(* Secrets and recovery codes are numbered as they are issued, 0 is none.  *)
(* A request carries a code: a wrong one, one of the authenticator, or a   *)
(* recovery code.                                                          *)
(***************************************************************************)
EXTENDS Integers, FiniteSets

CONSTANTS Callers,      \* requests at one time
          Tokens,       \* interim tokens of the sign-in
          MaxAttempts,  \* MAX_LOGIN_ATTEMPTS
          MaxIssued,    \* bound: secrets and recovery codes issued
          MaxStarted,   \* bound: requests started
          MaxFailures,  \* bound: requests that die, locks that expire under their holder
          Nobody        \* no holder

ASSUME FactorAssumption ==
  /\ MaxAttempts \in Nat \ {0} /\ MaxIssued \in Nat \ {0, 1} /\ MaxStarted \in Nat /\ MaxFailures \in Nat
  /\ IsFiniteSet(Callers) /\ Callers # {} /\ Nobody \notin Callers

VARIABLES
  user,          \* Postgres: twoFactorEnabled, twoFactorSecret, backupCode
  pending,       \* Redis: pending_2fa
  attempts,      \* Redis: 2fa:attempts
  attemptsTtl,   \* Redis: whether it has a time to live
  factorLock,    \* Redis: lock:2fa
  token,         \* Redis: interim_2fa
  tokenTries,    \* Redis: interim_2fa_attempts
  op,            \* requests: their local variables
  numbered, started, failed,
  accepted,      \* history: how often each recovery code was accepted
  comparedWith,  \* history: codes compared with each token
  lateSave       \* history: a form of the admin panel was saved on a stale check

factorVars == <<user, pending, attempts, attemptsTtl, factorLock, token, tokenTries, op, numbered, started, failed,
                accepted, comparedWith, lateSave>>
factorRedis == <<pending, attempts, attemptsTtl, factorLock, token, tokenTries>>
counts == <<numbered, started, failed>>
factorHistory == <<accepted, comparedWith, lateSave>>

Numbers == 0..MaxIssued
Off == [on |-> FALSE, secret |-> 0, code |-> 0]
Enrolled == [on |-> TRUE, secret |-> 1, code |-> 2]
Codes == {"wrong", "totp", "recovery"}
Idle == [do |-> "none"]

FactorInit ==
  /\ user \in {Off, Enrolled} /\ pending = 0
  /\ attempts = 0 /\ attemptsTtl = FALSE /\ factorLock = Nobody
  /\ token = [t \in Tokens |-> "unused"] /\ tokenTries = [t \in Tokens |-> 0]
  /\ op = [r \in Callers |-> Idle]
  /\ numbered = (IF user.on THEN 2 ELSE 0) /\ started = 0 /\ failed = 0
  /\ accepted = [n \in Numbers |-> 0] /\ comparedWith = [t \in Tokens |-> 0]
  /\ lateSave = FALSE

Start(r, record) ==
  /\ op[r].do = "none" /\ started < MaxStarted /\ started' = started + 1
  /\ op' = [op EXCEPT ![r] = record]
At(r, step) == op[r].do # "none" /\ op[r].at = step
FactorGoes(r, step) == op' = [op EXCEPT ![r].at = step]
End(r) == op' = [op EXCEPT ![r] = Idle]
-----------------------------------------------------------------------------
(* Enrolment *)

Generate(r) ==
  /\ ~user.on /\ numbered < MaxIssued
  /\ numbered' = numbered + 1 /\ pending' = numbered + 1
  /\ started < MaxStarted /\ started' = started + 1
  /\ UNCHANGED <<user, attempts, attemptsTtl, factorLock, token, tokenTries, op, failed, factorHistory>>

\* The session's document says it is off; the code is one of the pending secret.
EnableCheck(r) ==
  /\ ~user.on /\ pending # 0
  /\ Start(r, [do |-> "enable", at |-> "write", secret |-> pending])
  /\ UNCHANGED <<user, factorRedis, numbered, failed, factorHistory>>

EnableWrite(r) ==
  /\ At(r, "write") /\ op[r].do = "enable" /\ numbered < MaxIssued
  /\ numbered' = numbered + 1
  /\ user' = [on |-> TRUE, secret |-> op[r].secret, code |-> numbered + 1]
  /\ FactorGoes(r, "forget")
  /\ UNCHANGED <<factorRedis, started, failed, factorHistory>>

EnableForget(r) ==
  /\ At(r, "forget") /\ End(r)
  /\ pending' = 0
  /\ UNCHANGED <<user, attempts, attemptsTtl, factorLock, token, tokenTries, counts, factorHistory>>

ExpirePending ==
  /\ pending # 0 /\ pending' = 0
  /\ UNCHANGED <<user, attempts, attemptsTtl, factorLock, token, tokenTries, op, counts, factorHistory>>

\* The password, a fresh read of the user, a new recovery code.
Regenerate(r) ==
  /\ user.on /\ Start(r, [do |-> "regenerate", at |-> "write"])
  /\ UNCHANGED <<user, factorRedis, numbered, failed, factorHistory>>

RegenerateWrite(r) ==
  /\ At(r, "write") /\ op[r].do = "regenerate" /\ numbered < MaxIssued
  /\ numbered' = numbered + 1
  /\ user' = [user EXCEPT !.code = numbered + 1]
  /\ End(r)
  /\ UNCHANGED <<factorRedis, started, failed, factorHistory>>

\* (The form is believed.)
SaveFormAnyway(r, on) ==
  /\ Start(r, [do |-> "save", at |-> "write", on |-> on, secret |-> user.secret])
  /\ UNCHANGED <<user, factorRedis, numbered, failed, factorHistory>>

\* Save of the account in the admin panel, with the checkbox as its page has it:
\* the hook refuses to switch it on for a user who has no secret.
SaveForm(r, on) ==
  /\ on => user.secret # 0
  /\ Start(r, [do |-> "save", at |-> "write", on |-> on, secret |-> user.secret])
  /\ UNCHANGED <<user, factorRedis, numbered, failed, factorHistory>>

SaveFormWrite(r) ==
  /\ At(r, "write") /\ op[r].do = "save"
  /\ user' = [user EXCEPT !.on = op[r].on]
  /\ lateSave' = (lateSave \/ user.secret # op[r].secret)
  /\ End(r)
  /\ UNCHANGED <<factorRedis, counts, accepted, comparedWith>>
-----------------------------------------------------------------------------
(* Operations that check a code *)

\* The password was right: an interim token.
FirstStep(t) ==
  /\ user.on /\ token[t] = "unused"
  /\ token' = [token EXCEPT ![t] = "live"]
  /\ UNCHANGED <<user, pending, attempts, attemptsTtl, factorLock, tokenTries, op, counts, factorHistory>>

\* The login of the admin panel, the step-up and switching off check a code
\* against the document they already have; the second step of the sign-in reads
\* it under the lock.  (Which code it is matters when it is checked.)
Present(r) ==
  /\ user.on
  /\ Start(r, [do |-> "present", at |-> "attempts", doc |-> user, token |-> Nobody])
  /\ UNCHANGED <<user, factorRedis, numbered, failed, factorHistory>>

ResolveToken(r, t) ==
  /\ token[t] = "live" /\ user.on /\ user.secret # 0
  /\ Start(r, [do |-> "verify", at |-> "tries", doc |-> Off, token |-> t])
  /\ UNCHANGED <<user, factorRedis, numbered, failed, factorHistory>>

\* (A try that is not counted.)
CountTryNever(r) ==
  /\ At(r, "tries") /\ FactorGoes(r, "attempts")
  /\ UNCHANGED <<user, factorRedis, counts, factorHistory>>

\* Too many attempts burn the token and forget its counter.
CountTry(r) ==
  LET t == op[r].token IN
  /\ At(r, "tries")
  /\ IF tokenTries[t] + 1 > MaxAttempts
       THEN /\ token' = [token EXCEPT ![t] = "spent"] /\ tokenTries' = [tokenTries EXCEPT ![t] = 0]
            /\ End(r)
       ELSE /\ tokenTries' = [tokenTries EXCEPT ![t] = @ + 1] /\ FactorGoes(r, "attempts")
            /\ UNCHANGED token
  /\ UNCHANGED <<user, pending, attempts, attemptsTtl, factorLock, counts, factorHistory>>
-----------------------------------------------------------------------------
(* verifyTwoFactor *)

ReadFactorAttempts(r) ==
  /\ At(r, "attempts")
  /\ IF attempts >= MaxAttempts THEN End(r) ELSE FactorGoes(r, "lock")
  /\ UNCHANGED <<user, factorRedis, counts, factorHistory>>

LockFactor(r) ==
  /\ At(r, "lock")
  /\ IF factorLock = Nobody
       THEN factorLock' = r /\ FactorGoes(r, "incr")
       ELSE UNCHANGED factorLock /\ End(r)
  /\ UNCHANGED <<user, pending, attempts, attemptsTtl, token, tokenTries, counts, factorHistory>>

CountAttempt(r) ==
  /\ At(r, "incr") /\ FactorGoes(r, "expire")
  /\ attempts' = attempts + 1
  /\ UNCHANGED <<user, pending, attemptsTtl, factorLock, token, tokenTries, counts, factorHistory>>

\* (EXPIRE only on the first attempt, as the counter of the sign-in has it.)
ExpireFirstAttemptOnly(r) ==
  /\ At(r, "expire") /\ FactorGoes(r, "check")
  /\ attemptsTtl' = (attemptsTtl \/ attempts = 1)
  /\ UNCHANGED <<user, pending, attempts, factorLock, token, tokenTries, counts, factorHistory>>

ExpireAttempts(r) ==
  /\ At(r, "expire") /\ FactorGoes(r, "check")
  /\ attemptsTtl' = (attempts > 0)
  /\ UNCHANGED <<user, pending, attempts, factorLock, token, tokenTries, counts, factorHistory>>

\* A wrong code, one of the document's secret, or its recovery code.
CheckCode(r, code) ==
  LET doc == IF op[r].do = "verify" THEN user ELSE op[r].doc
      good == /\ doc.on
              /\ \/ code = "totp" /\ doc.secret # 0
                 \/ code = "recovery" /\ doc.code # 0
  IN /\ At(r, "check")
     /\ code = "wrong" \/ good
     /\ op' = [op EXCEPT ![r].at = IF code = "wrong" THEN "unlock" ELSE "clear",
                         ![r].doc = IF code = "recovery" THEN doc ELSE Off]
     /\ comparedWith' = IF op[r].do = "verify" THEN [comparedWith EXCEPT ![op[r].token] = @ + 1]
                                              ELSE comparedWith
     /\ UNCHANGED <<user, factorRedis, counts, accepted, lateSave>>

ClearAttempts(r) ==
  /\ At(r, "clear") /\ FactorGoes(r, IF op[r].doc # Off THEN "consume" ELSE "granted")
  /\ attempts' = 0 /\ attemptsTtl' = FALSE
  /\ UNCHANGED <<user, pending, factorLock, token, tokenTries, counts, accepted, comparedWith, lateSave>>

\* (An update that is not conditional.)
ConsumeAnyway(r) ==
  LET n == op[r].doc.code IN
  /\ At(r, "consume") /\ FactorGoes(r, "granted")
  /\ user' = [user EXCEPT !.code = 0] /\ accepted' = [accepted EXCEPT ![n] = @ + 1]
  /\ UNCHANGED <<factorRedis, counts, comparedWith, lateSave>>

\* One conditional update: the stored code is still the one that was compared.
Consume(r) ==
  LET n == op[r].doc.code IN
  /\ At(r, "consume")
  /\ IF user.code = n
       THEN /\ user' = [user EXCEPT !.code = 0] /\ accepted' = [accepted EXCEPT ![n] = @ + 1]
            /\ FactorGoes(r, "granted")
       ELSE UNCHANGED <<user, accepted>> /\ FactorGoes(r, "unlock")
  /\ UNCHANGED <<factorRedis, counts, comparedWith, lateSave>>

Unlock(r) == factorLock' = IF factorLock = r THEN Nobody ELSE factorLock

Refused(r) ==
  /\ At(r, "unlock") /\ Unlock(r) /\ End(r)
  /\ UNCHANGED <<user, pending, attempts, attemptsTtl, token, tokenTries, counts, factorHistory>>

Granted(r) ==
  /\ At(r, "granted") /\ Unlock(r)
  /\ \/ FactorGoes(r, "finish")
     \/ op[r].do = "present" /\ End(r)
  /\ UNCHANGED <<user, pending, attempts, attemptsTtl, token, tokenTries, counts, factorHistory>>

\* The sign-in spends its token and has a session; switching off clears all
\* three; a step-up and the login of the admin panel end where they are granted.
Finish(r) ==
  /\ At(r, "finish") /\ End(r)
  /\ IF op[r].do = "verify"
       THEN token' = [token EXCEPT ![op[r].token] = "spent"] /\ UNCHANGED user
       ELSE user' = Off /\ UNCHANGED token
  /\ UNCHANGED <<pending, attempts, attemptsTtl, factorLock, tokenTries, counts, factorHistory>>
-----------------------------------------------------------------------------
\* Without attempts the counter goes after five minutes.
AttemptsExpire ==
  /\ attempts > 0 /\ attemptsTtl
  /\ attempts' = 0 /\ attemptsTtl' = FALSE
  /\ UNCHANGED <<user, pending, factorLock, token, tokenTries, op, counts, accepted, comparedWith, lateSave>>

TokenExpires(t) ==
  /\ token[t] = "live" /\ token' = [token EXCEPT ![t] = "spent"]
  /\ UNCHANGED <<user, pending, attempts, attemptsTtl, factorLock, tokenTries, op, counts, factorHistory>>

\* Ten seconds are over: the holder died, or is slow.
LockExpires ==
  /\ factorLock # Nobody /\ factorLock' = Nobody
  /\ IF op[factorLock].do = "none" THEN UNCHANGED failed ELSE failed < MaxFailures /\ failed' = failed + 1
  /\ UNCHANGED <<user, pending, attempts, attemptsTtl, token, tokenTries, op, numbered, started, factorHistory>>

RequestDies(r) ==
  /\ op[r].do # "none" /\ failed < MaxFailures /\ failed' = failed + 1
  /\ End(r)
  /\ UNCHANGED <<user, factorRedis, numbered, started, factorHistory>>

FactorStep(r) ==
  \/ EnableWrite(r) \/ EnableForget(r) \/ RegenerateWrite(r) \/ SaveFormWrite(r)
  \/ CountTry(r) \/ ReadFactorAttempts(r) \/ LockFactor(r) \/ CountAttempt(r) \/ ExpireAttempts(r)
  \/ (\E code \in Codes : CheckCode(r, code))
  \/ ClearAttempts(r) \/ Consume(r) \/ Refused(r) \/ Granted(r) \/ Finish(r)

FactorNext ==
  \/ \E r \in Callers :
       \/ FactorStep(r) \/ RequestDies(r)
       \/ Generate(r) \/ EnableCheck(r) \/ Regenerate(r) \/ \E on \in BOOLEAN : SaveForm(r, on)
       \/ Present(r) \/ \E t \in Tokens : ResolveToken(r, t)
  \/ \E t \in Tokens : FirstStep(t) \/ TokenExpires(t)
  \/ ExpirePending \/ AttemptsExpire \/ LockExpires

FactorSpec == FactorInit /\ [][FactorNext]_factorVars
-----------------------------------------------------------------------------
(* Properties *)

FactorTypeOK ==
  /\ user \in [on : BOOLEAN, secret : Numbers, code : Numbers]
  /\ pending \in Numbers /\ attempts \in 0..MaxStarted /\ attemptsTtl \in BOOLEAN
  /\ factorLock \in Callers \cup {Nobody}
  /\ token \in [Tokens -> {"unused", "live", "spent"}] /\ tokenTries \in [Tokens -> 0..MaxAttempts]

\* A recovery code opens one thing once, whatever races for it and even when the
\* lock expires under its holder: the conditional update decides.
RecoveryCodeOnce == \A n \in 1..MaxIssued : accepted[n] <= 1

\* The counter of a token is forgotten when the token burns, while requests that
\* resolved it earlier are still to be counted: more codes are compared with a
\* token than the limit, but never more than those requests.
TokenTriesBounded ==
  \A t \in Tokens : comparedWith[t] <= MaxAttempts + Cardinality(Callers) - 1

\* What is spent stays spent, a code as well as a try.
TriesAreSpent == RecoveryCodeOnce /\ TokenTriesBounded

\* A lockout ends: the counter that refuses everybody has a time to live, though
\* a request died between its INCR and its EXPIRE (fewer than MaxAttempts did).
FactorLockoutEnds == (attempts >= MaxAttempts /\ \A r \in Callers : op[r].do = "none") => attemptsTtl

\* The second factor is never demanded of a user who has no secret, which would
\* lock the account for good, unless a form of the admin panel was saved while
\* another request took the secret away: the hook looks at the document as it was.
SecretIfOn == user.on => user.secret # 0 \/ lateSave

\* No account is locked out for good, by the counter or by the flag.
NeverLockedOut == FactorLockoutEnds /\ SecretIfOn

\* The second factor keeps guesses out and its owner in.
FactorHolds == TriesAreSpent /\ NeverLockedOut
=============================================================================
