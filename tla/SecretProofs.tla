---------------------------- MODULE SecretProofs ----------------------------
(***************************************************************************)
(* What is proved of the second factor, for any number of requests, tokens *)
(* and codes and any limit of attempts; of the secret with which the two   *)
(* services know each other, for any number of replicas, revocations,      *)
(* secrets and nights; and of the rotation of the encryption key, for any  *)
(* number of values.                                                       *)
(***************************************************************************)
EXTENDS TwoFactor, SecretRotation, KeyRotation, FiniteSetTheorems, SequenceTheorems, TLAPS

(* The local variables of a request, by what it does *)

Doc == [on : BOOLEAN, secret : Numbers, code : Numbers]
CallSteps == {"attempts", "lock", "incr", "expire", "check", "unlock", "clear", "consume", "granted", "finish"}
Enabling == [do : {"enable"}, at : {"write", "forget"}, secret : Numbers \ {0}]
Regenerating == [do : {"regenerate"}, at : {"write"}]
Saving == [do : {"save"}, at : {"write"}, on : BOOLEAN, secret : Numbers]
Presenting == [do : {"present"}, at : CallSteps, doc : Doc, token : {Nobody}]
Verifying == [do : {"verify"}, at : CallSteps \cup {"tries"}, doc : Doc, token : Tokens]
Op == {Idle} \cup Enabling \cup Regenerating \cup Saving \cup Presenting \cup Verifying

Typed ==
  /\ user \in Doc /\ pending \in Numbers /\ attempts \in Nat /\ attemptsTtl \in BOOLEAN
  /\ factorLock \in Callers \cup {Nobody}
  /\ token \in [Tokens -> {"unused", "live", "spent"}] /\ tokenTries \in [Tokens -> 0..MaxAttempts]
  /\ op \in [Callers -> Op]
  /\ numbered \in Numbers /\ started \in 0..MaxStarted /\ failed \in 0..MaxFailures
  /\ accepted \in [Numbers -> Nat] /\ comparedWith \in [Tokens -> Nat] /\ lateSave \in BOOLEAN

\* What the record of a request tells about it.
LEMMA OpShape ==
  ASSUME Typed, NEW r \in Callers
  PROVE  /\ op[r] \in Op
         /\ op[r].do \in {"none", "enable", "regenerate", "save", "present", "verify"}
         /\ op[r].do = "none" => op[r] = Idle
         /\ op[r].do = "enable" => op[r] \in Enabling
         /\ op[r].do = "regenerate" => op[r] \in Regenerating
         /\ op[r].do = "save" => op[r] \in Saving
         /\ op[r].do = "present" => op[r] \in Presenting
         /\ op[r].do = "verify" => op[r] \in Verifying
  BY DEF Typed, Op, Idle, Enabling, Regenerating, Saving, Presenting, Verifying

\* Only a request that presents or verifies a code is at a step of verifyTwoFactor.
LEMMA AtStep ==
  ASSUME Typed, NEW r \in Callers, NEW step \in CallSteps \cup {"tries"}, At(r, step)
  PROVE  /\ op[r] \in Presenting \cup Verifying /\ op[r].at = step
         /\ op[r].do \in {"present", "verify"} /\ op[r].doc \in Doc
         /\ op[r].do = "verify" => op[r] \in Verifying /\ op[r].token \in Tokens
         /\ step = "tries" => op[r] \in Verifying
  BY OpShape DEF At, Enabling, Regenerating, Saving, Presenting, Verifying, CallSteps

\* It goes on to another step and keeps everything else.
LEMMA Goes ==
  ASSUME Typed, NEW r \in Callers, NEW step \in CallSteps, op[r] \in Presenting \cup Verifying,
         FactorGoes(r, step)
  PROVE  /\ op' \in [Callers -> Op] /\ \A x \in Callers \ {r} : op'[x] = op[x]
         /\ op'[r].do = op[r].do /\ op'[r].at = step
         /\ op'[r].doc = op[r].doc /\ op'[r].token = op[r].token
<1>1. op' = [op EXCEPT ![r].at = step] /\ op \in [Callers -> Op]
  BY DEF FactorGoes, Typed
<1>2. op'[r] = [op[r] EXCEPT !.at = step] /\ \A x \in Callers \ {r} : op'[x] = op[x]
  BY <1>1
<1>3. /\ op'[r] \in Presenting \cup Verifying /\ op'[r].do = op[r].do /\ op'[r].at = step
      /\ op'[r].doc = op[r].doc /\ op'[r].token = op[r].token
  BY <1>2 DEF Presenting, Verifying
<1> QED
  BY <1>1, <1>2, <1>3 DEF Op

\* A request begins or ends: nothing is known of it but its new record.
LEMMA BackupBecomes ==
  ASSUME Typed, NEW r \in Callers, NEW new \in Op, op' = [op EXCEPT ![r] = new]
  PROVE  op' \in [Callers -> Op] /\ op'[r] = new /\ \A x \in Callers \ {r} : op'[x] = op[x]
  BY DEF Typed

\* A code is checked: the request keeps the document only of a recovery code.
LEMMA Checked ==
  ASSUME Typed, NEW r \in Callers, NEW code \in Codes, CheckCode(r, code)
  PROVE  /\ op[r] \in Presenting \cup Verifying
         /\ op' \in [Callers -> Op] /\ \A x \in Callers \ {r} : op'[x] = op[x]
         /\ op'[r].do = op[r].do /\ op'[r].token = op[r].token
         /\ op'[r].at \in {"unlock", "clear"}
         /\ op'[r].at = "clear" /\ op'[r].doc # Off => op'[r].doc.code # 0
<1> DEFINE doc == IF op[r].do = "verify" THEN user ELSE op[r].doc
           at == IF code = "wrong" THEN "unlock" ELSE "clear"
           kept == IF code = "recovery" THEN doc ELSE Off
<1>1. op[r] \in Presenting \cup Verifying /\ op[r].doc \in Doc
  BY AtStep DEF CheckCode, CallSteps
<1>2. doc \in Doc /\ Off \in Doc /\ kept \in Doc /\ at \in {"unlock", "clear"}
  BY <1>1, FactorAssumption DEF Typed, Off, Doc, Numbers
<1>3. code = "recovery" => doc.code # 0
  BY DEF CheckCode
<1>4. op' = [op EXCEPT ![r].at = at, ![r].doc = kept] /\ op \in [Callers -> Op]
  BY DEF CheckCode, Typed
<1> HIDE DEF doc, at
<1>5. op'[r] = [op[r] EXCEPT !.at = at, !.doc = kept] /\ \A x \in Callers \ {r} : op'[x] = op[x]
  BY <1>4
<1>6. /\ op'[r] \in Presenting \cup Verifying /\ op'[r].do = op[r].do /\ op'[r].token = op[r].token
      /\ op'[r].at = at /\ op'[r].doc = kept
  <2> HIDE DEF kept
  <2> QED
    BY <1>1, <1>2, <1>5 DEF Presenting, Verifying, CallSteps
<1>7. op' \in [Callers -> Op]
  BY <1>4, <1>5, <1>6 DEF Op
<1> QED
  BY <1>1, <1>2, <1>3, <1>5, <1>6, <1>7

\* Every step keeps the types, request by request.
LEMMA TypedStep ==
  ASSUME Typed, [FactorNext]_factorVars
  PROVE  Typed'
<1> USE FactorAssumption DEF factorRedis, counts, factorHistory
<1>0. /\ user \in Doc /\ Off \in Doc /\ Idle \in Op /\ op \in [Callers -> Op] /\ 0 \in Numbers
      /\ pending \in Numbers /\ attempts \in Nat /\ started \in 0..MaxStarted /\ failed \in 0..MaxFailures
      /\ token \in [Tokens -> {"unused", "live", "spent"}] /\ tokenTries \in [Tokens -> 0..MaxAttempts]
      /\ accepted \in [Numbers -> Nat] /\ comparedWith \in [Tokens -> Nat]
      /\ \A n \in Numbers : n < MaxIssued => n + 1 \in Numbers
      /\ user.secret \in Numbers
  BY DEF Typed, Off, Doc, Numbers, Op
<1>1. ASSUME NEW r \in Callers, Generate(r)
      PROVE  Typed'
  BY <1>0, <1>1 DEF Generate, Typed
<1>2. ASSUME NEW r \in Callers, EnableCheck(r)
      PROVE  Typed'
  <2>1. [do |-> "enable", at |-> "write", secret |-> pending] \in Op
    BY <1>0, <1>2 DEF EnableCheck, Op, Enabling
  <2>2. op' \in [Callers -> Op]
    BY <1>2, <2>1, BackupBecomes DEF EnableCheck, Start
  <2> QED
    BY <1>0, <1>2, <2>2 DEF EnableCheck, Start, Typed
<1>3. ASSUME NEW r \in Callers, EnableWrite(r) \/ RegenerateWrite(r) \/ SaveFormWrite(r)
      PROVE  Typed'
  <2>1. CASE EnableWrite(r)
    <3>1. op[r] \in Enabling /\ numbered + 1 \in Numbers
      BY <1>0, <2>1, OpShape DEF EnableWrite, Typed
    <3>2. [on |-> TRUE, secret |-> op[r].secret, code |-> numbered + 1] \in Doc
      BY <3>1 DEF Doc, Enabling
    <3>3. [op[r] EXCEPT !.at = "forget"] \in Op
      BY <3>1 DEF Enabling, Op
    <3>4. op' \in [Callers -> Op]
      BY <1>0, <2>1, <3>3 DEF EnableWrite, FactorGoes
    <3> QED
      BY <1>0, <2>1, <3>1, <3>2, <3>4 DEF EnableWrite, Typed
  <2>2. CASE RegenerateWrite(r)
    <3>1. op' \in [Callers -> Op]
      BY <1>0, <2>2 DEF RegenerateWrite, End
    <3>2. numbered + 1 \in Numbers
      BY <1>0, <2>2 DEF RegenerateWrite, Typed
    <3>3. user' \in Doc
      BY <1>0, <2>2, <3>2 DEF RegenerateWrite, Doc
    <3> QED
      BY <1>0, <2>2, <3>1, <3>2, <3>3 DEF RegenerateWrite, Typed
  <2>3. CASE SaveFormWrite(r)
    <3>1. op' \in [Callers -> Op]
      BY <1>0, <2>3 DEF SaveFormWrite, End
    <3>2. op[r] \in Saving
      BY <2>3, OpShape DEF SaveFormWrite
    <3>3. user' \in Doc
      BY <1>0, <2>3, <3>2 DEF SaveFormWrite, Doc, Saving
    <3>4. lateSave' \in BOOLEAN
      BY <1>0, <2>3 DEF SaveFormWrite, Typed
    <3> QED
      BY <1>0, <2>3, <3>1, <3>3, <3>4 DEF SaveFormWrite, Typed
  <2> QED
    BY <1>3, <2>1, <2>2, <2>3
<1>4. ASSUME NEW r \in Callers, EnableForget(r) \/ Refused(r) \/ RequestDies(r)
      PROVE  Typed'
  <2>1. op' \in [Callers -> Op]
    BY <1>0, <1>4 DEF EnableForget, Refused, RequestDies, End
  <2> QED
    BY <1>0, <1>4, <2>1 DEF EnableForget, Refused, RequestDies, Unlock, Typed
<1>5. ASSUME NEW r \in Callers, Regenerate(r) \/ Present(r) \/ \E on \in BOOLEAN : SaveForm(r, on)
      PROVE  Typed'
  <2>1. PICK new \in Op : op' = [op EXCEPT ![r] = new]
    <3>1. CASE Regenerate(r)
      BY <3>1 DEF Regenerate, Start, Op, Regenerating
    <3>2. CASE Present(r)
      BY <1>0, <3>2 DEF Present, Start, Op, Presenting, CallSteps
    <3>3. ASSUME NEW on \in BOOLEAN, SaveForm(r, on)
          PROVE  \E new \in Op : op' = [op EXCEPT ![r] = new]
      BY <1>0, <3>3 DEF SaveForm, Start, Op, Saving
    <3> QED
      BY <1>5, <3>1, <3>2, <3>3
  <2>2. op' \in [Callers -> Op] /\ started' \in 0..MaxStarted
    <3>1. started < MaxStarted /\ started' = started + 1
      BY <1>5 DEF Regenerate, Present, SaveForm, Start
    <3> QED
      BY <1>0, <2>1, <3>1
  <2> QED
    BY <1>0, <1>5, <2>2 DEF Regenerate, Present, SaveForm, Typed
<1>6. ASSUME NEW r \in Callers, NEW t \in Tokens, ResolveToken(r, t)
      PROVE  Typed'
  <2>1. [do |-> "verify", at |-> "tries", doc |-> Off, token |-> t] \in Op
    BY <1>0 DEF Op, Verifying
  <2>2. op' \in [Callers -> Op] /\ started' \in 0..MaxStarted
    BY <1>0, <1>6, <2>1 DEF ResolveToken, Start
  <2> QED
    BY <1>0, <1>6, <2>2 DEF ResolveToken, Typed
<1>7. ASSUME NEW r \in Callers, CountTry(r)
      PROVE  Typed'
  <2>1. op[r] \in Verifying /\ op[r].token \in Tokens
    <3>1. At(r, "tries")
      BY <1>7 DEF CountTry
    <3> QED
      BY <3>1, AtStep DEF Verifying
  <2>2. op' \in [Callers -> Op]
    <3>1. CASE End(r)
      BY <1>0, <3>1 DEF End
    <3>2. CASE FactorGoes(r, "attempts")
      BY <2>1, <3>2, Goes DEF CallSteps
    <3> QED
      BY <1>7, <3>1, <3>2 DEF CountTry
  <2>3. token' \in [Tokens -> {"unused", "live", "spent"}] /\ tokenTries' \in [Tokens -> 0..MaxAttempts]
    <3>1. tokenTries[op[r].token] \in 0..MaxAttempts
      BY <1>0, <2>1
    <3>2. CASE tokenTries[op[r].token] + 1 > MaxAttempts
      BY <1>0, <1>7, <3>2 DEF CountTry
    <3>3. CASE ~(tokenTries[op[r].token] + 1 > MaxAttempts)
      BY <1>0, <1>7, <3>1, <3>3 DEF CountTry
    <3> QED
      BY <3>2, <3>3
  <2> QED
    BY <1>0, <1>7, <2>2, <2>3 DEF CountTry, Typed
<1>8. ASSUME NEW r \in Callers, ReadFactorAttempts(r) \/ LockFactor(r) \/ CountAttempt(r) \/ ExpireAttempts(r)
      PROVE  Typed'
  <2>1. op[r] \in Presenting \cup Verifying
    BY <1>8, AtStep DEF ReadFactorAttempts, LockFactor, CountAttempt, ExpireAttempts, CallSteps
  <2>2. op' \in [Callers -> Op]
    <3>1. CASE End(r)
      BY <1>0, <3>1 DEF End
    <3>2. ASSUME NEW step \in {"lock", "incr", "expire", "check"}, FactorGoes(r, step)
          PROVE  op' \in [Callers -> Op]
      BY <2>1, <3>2, Goes DEF CallSteps
    <3> QED
      BY <1>8, <3>1, <3>2 DEF ReadFactorAttempts, LockFactor, CountAttempt, ExpireAttempts
  <2>3. attempts' \in Nat /\ attemptsTtl' \in BOOLEAN /\ factorLock' \in Callers \cup {Nobody}
    <3>1. CASE ReadFactorAttempts(r)
      BY <3>1 DEF ReadFactorAttempts, Typed
    <3>2. CASE LockFactor(r)
      BY <3>2 DEF LockFactor, Typed
    <3>3. CASE CountAttempt(r)
      BY <3>3 DEF CountAttempt, Typed
    <3>4. CASE ExpireAttempts(r)
      BY <3>4 DEF ExpireAttempts, Typed
    <3> QED
      BY <1>8, <3>1, <3>2, <3>3, <3>4
  <2> QED
    BY <1>0, <1>8, <2>2, <2>3 DEF ReadFactorAttempts, LockFactor, CountAttempt, ExpireAttempts, Typed
<1>9. ASSUME NEW r \in Callers, NEW code \in Codes, CheckCode(r, code)
      PROVE  Typed'
  <2>1. op' \in [Callers -> Op]
    BY <1>9, Checked
  <2>2. comparedWith' \in [Tokens -> Nat]
    <3>1. op[r].do = "verify" => op[r].token \in Tokens
      BY <1>9, AtStep DEF CheckCode, CallSteps
    <3> QED
      BY <1>0, <1>9, <3>1 DEF CheckCode
  <2> QED
    BY <1>0, <1>9, <2>1, <2>2 DEF CheckCode, Typed
<1>10. ASSUME NEW r \in Callers, ClearAttempts(r) \/ Consume(r)
      PROVE  Typed'
  <2>1. op[r] \in Presenting \cup Verifying /\ op[r].doc \in Doc
    BY <1>10, AtStep DEF ClearAttempts, Consume, CallSteps
  <2>2. op' \in [Callers -> Op]
    <3>1. ASSUME NEW step \in {"consume", "granted", "unlock"}, FactorGoes(r, step)
          PROVE  op' \in [Callers -> Op]
      BY <2>1, <3>1, Goes DEF CallSteps
    <3> QED
      BY <1>10, <3>1 DEF ClearAttempts, Consume
  <2>3. user' \in Doc /\ accepted' \in [Numbers -> Nat]
    <3>1. CASE ClearAttempts(r)
      BY <1>0, <3>1 DEF ClearAttempts
    <3>2. CASE Consume(r)
      <4>1. op[r].doc.code \in Numbers /\ accepted[op[r].doc.code] \in Nat
        BY <1>0, <2>1 DEF Doc
      <4>2. [user EXCEPT !.code = 0] \in Doc
        BY <1>0 DEF Doc
      <4>3. [accepted EXCEPT ![op[r].doc.code] = @ + 1] \in [Numbers -> Nat]
        BY <1>0, <4>1
      <4> QED
        BY <1>0, <3>2, <4>2, <4>3 DEF Consume
    <3> QED
      BY <1>10, <3>1, <3>2
  <2>4. attempts' \in Nat /\ attemptsTtl' \in BOOLEAN
    <3>1. CASE ClearAttempts(r)
      BY <3>1 DEF ClearAttempts
    <3>2. CASE Consume(r)
      BY <3>2 DEF Consume, Typed
    <3> QED
      BY <1>10, <3>1, <3>2
  <2> QED
    BY <1>0, <1>10, <2>2, <2>3, <2>4 DEF ClearAttempts, Consume, Typed
<1>11. ASSUME NEW r \in Callers, Granted(r) \/ Finish(r)
      PROVE  Typed'
  <2>1. op[r] \in Presenting \cup Verifying /\ (op[r].do = "verify" => op[r].token \in Tokens)
    BY <1>11, AtStep DEF Granted, Finish, CallSteps
  <2>2. op' \in [Callers -> Op]
    <3>1. CASE End(r)
      BY <1>0, <3>1 DEF End
    <3>2. CASE FactorGoes(r, "finish")
      BY <2>1, <3>2, Goes DEF CallSteps
    <3> QED
      BY <1>11, <3>1, <3>2 DEF Granted, Finish
  <2>3. user' \in Doc /\ token' \in [Tokens -> {"unused", "live", "spent"}] /\ factorLock' \in Callers \cup {Nobody}
    BY <1>0, <1>11, <2>1 DEF Granted, Finish, Unlock, Typed
  <2> QED
    BY <1>0, <1>11, <2>2, <2>3 DEF Granted, Finish, Typed
<1>12. ASSUME NEW t \in Tokens, FirstStep(t) \/ TokenExpires(t)
      PROVE  Typed'
  BY <1>0, <1>12 DEF FirstStep, TokenExpires, Typed
<1>13. CASE ExpirePending \/ AttemptsExpire \/ LockExpires
  <2>1. failed' \in 0..MaxFailures
    BY <1>0, <1>13 DEF ExpirePending, AttemptsExpire, LockExpires
  <2>2. attempts' \in Nat /\ attemptsTtl' \in BOOLEAN
    <3>1. CASE AttemptsExpire
      BY <3>1 DEF AttemptsExpire
    <3>2. CASE ExpirePending \/ LockExpires
      BY <3>2 DEF ExpirePending, LockExpires, Typed
    <3> QED
      BY <1>13, <3>1, <3>2
  <2> QED
    BY <1>0, <1>13, <2>1, <2>2 DEF ExpirePending, AttemptsExpire, LockExpires, Typed
<1>14. CASE UNCHANGED factorVars
  BY <1>14 DEF factorVars, Typed
<1> QED
  BY <1>1, <1>2, <1>3, <1>4, <1>5, <1>6, <1>7, <1>8, <1>9, <1>10, <1>11, <1>12, <1>13, <1>14
  DEF FactorNext, FactorStep

-----------------------------------------------------------------------------
(* What one step does *)

\* From which step of verifyTwoFactor to which a request goes, and by what.
ChecksFrom(x, from, to) ==
  /\ op[x].at = from /\ op'[x].at = to
  /\ \/ from = "tries" /\ to = "attempts" /\ CountTry(x)
     \/ from = "attempts" /\ to = "lock"
     \/ from = "lock" /\ to = "incr"
     \/ from = "incr" /\ to = "expire" /\ CountAttempt(x)
     \/ from = "expire" /\ to = "check" /\ ExpireAttempts(x)
     \/ from = "check" /\ to = "unlock" /\ \E code \in Codes : CheckCode(x, code)
     \/ /\ from = "check" /\ to = "clear" /\ \E code \in Codes : CheckCode(x, code)
        /\ op'[x].doc # Off => op'[x].doc.code # 0
     \/ from = "clear" /\ to = "consume" /\ op[x].doc # Off /\ op'[x].doc = op[x].doc
     \/ from = "clear" /\ to = "granted"
     \/ from = "consume" /\ to \in {"granted", "unlock"}
     \/ from = "granted" /\ to = "finish"

\* What becomes of a request in one step.
Moved(x) ==
  \/ op'[x] = op[x]
  \/ op'[x] = Idle
  \/ /\ op[x] = Idle /\ started' = started + 1
     /\ \/ op'[x] \in Enabling \cup Regenerating
        \/ op'[x] \in Saving /\ (op'[x].on => op'[x].secret # 0)
        \/ op'[x] \in Presenting /\ op'[x].at = "attempts"
        \/ \E t \in Tokens : ResolveToken(x, t) /\ op'[x] \in Verifying /\ op'[x].at = "tries" /\ op'[x].token = t
  \/ op[x] \in Enabling /\ op'[x] \in Enabling
  \/ /\ op[x] \in Presenting \cup Verifying /\ op'[x] \in Presenting \cup Verifying
     /\ op'[x].do = op[x].do /\ op'[x].token = op[x].token
     /\ \E from, to \in CallSteps \cup {"tries"} : ChecksFrom(x, from, to)

\* One request moves, the others do not.
OneMoves == \E r \in Callers : Moved(r) /\ \A x \in Callers \ {r} : op'[x] = op[x]

\* A caller that goes on to its next check is the one that moves.
LEMMA Stays ==
  ASSUME Typed, Typed', NEW r \in Callers, NEW from \in CallSteps \cup {"tries"}, NEW to \in CallSteps,
         At(r, from), FactorGoes(r, to), op'[r].at = to => ChecksFrom(r, from, to)
  PROVE  OneMoves
<1>1. op[r] \in Presenting \cup Verifying
  BY AtStep
<1>2. /\ \A x \in Callers \ {r} : op'[x] = op[x]
      /\ op'[r].do = op[r].do /\ op'[r].at = to /\ op'[r].token = op[r].token
  BY <1>1, Goes
<1>3. op'[r] \in Presenting \cup Verifying
  <2>1. op'[r] \in Op
    BY DEF Typed
  <2> QED
    BY <1>1, <1>2, <2>1 DEF Op, Idle, Enabling, Regenerating, Saving, Presenting, Verifying
<1>4. ChecksFrom(r, from, to)
  BY <1>2
<1>5. Moved(r)
  BY <1>1, <1>2, <1>3, <1>4 DEF Moved
<1> QED
  BY <1>2, <1>5 DEF OneMoves

\* So is a caller that ends.
LEMMA CallEnds ==
  ASSUME Typed, NEW r \in Callers, End(r)
  PROVE  OneMoves
  BY DEF Typed, End, Moved, OneMoves

\* And a caller that starts any of its operations.
LEMMA CallBegins ==
  ASSUME Typed, NEW r \in Callers, NEW new \in Op, Start(r, new),
         \/ new \in Enabling \cup Regenerating
         \/ new \in Saving /\ (new.on => new.secret # 0)
         \/ new \in Presenting /\ new.at = "attempts"
         \/ \E t \in Tokens : ResolveToken(r, t) /\ new \in Verifying /\ new.at = "tries" /\ new.token = t
  PROVE  OneMoves
<1>1. op'[r] = new /\ started' = started + 1 /\ \A x \in Callers \ {r} : op'[x] = op[x]
  BY DEF Start, Typed
<1>2. op[r] = Idle
  BY OpShape DEF Start
<1>3. Moved(r)
  BY <1>1, <1>2 DEF Moved
<1> QED
  BY <1>1, <1>3 DEF OneMoves

\* Every step moves one request, in one of these ways, and no other.
LEMMA Moves ==
  ASSUME Typed, [FactorNext]_factorVars
  PROVE  OneMoves
<1>0. Typed'
  BY TypedStep
<1>1. CASE op' = op
  BY <1>1, FactorAssumption DEF Moved, OneMoves
<1>2. ASSUME NEW r \in Callers, End(r)
      PROVE  OneMoves
  BY <1>2, CallEnds
<1>3. ASSUME NEW r \in Callers, EnableCheck(r) \/ Regenerate(r) \/ Present(r)
                                \/ (\E on \in BOOLEAN : SaveForm(r, on)) \/ (\E t \in Tokens : ResolveToken(r, t))
      PROVE  OneMoves
  <2>1. CASE EnableCheck(r)
    <3>1. [do |-> "enable", at |-> "write", secret |-> pending] \in Enabling
      BY <2>1 DEF EnableCheck, Enabling, Typed
    <3> QED
      BY <2>1, <3>1, CallBegins DEF EnableCheck, Op
  <2>2. CASE Regenerate(r)
    <3>1. [do |-> "regenerate", at |-> "write"] \in Regenerating
      BY DEF Regenerating
    <3> QED
      BY <2>2, <3>1, CallBegins DEF Regenerate, Op
  <2>3. CASE Present(r)
    <3> DEFINE new == [do |-> "present", at |-> "attempts", doc |-> user, token |-> Nobody]
    <3>1. new \in Presenting /\ new.at = "attempts" /\ Start(r, new)
      BY <2>3 DEF Present, Presenting, CallSteps, Typed
    <3> HIDE DEF new
    <3> QED
      BY <3>1, CallBegins DEF Op
  <2>4. ASSUME NEW on \in BOOLEAN, SaveForm(r, on)
        PROVE  OneMoves
    <3> DEFINE new == [do |-> "save", at |-> "write", on |-> on, secret |-> user.secret]
    <3>1. new \in Saving /\ (new.on => new.secret # 0) /\ Start(r, new)
      BY <2>4 DEF SaveForm, Saving, Typed, Doc
    <3> HIDE DEF new
    <3> QED
      BY <3>1, CallBegins DEF Op
  <2>5. ASSUME NEW t \in Tokens, ResolveToken(r, t)
        PROVE  OneMoves
    <3> DEFINE new == [do |-> "verify", at |-> "tries", doc |-> Off, token |-> t]
    <3>1. new \in Verifying /\ new.at = "tries" /\ new.token = t /\ Start(r, new)
      BY <2>5, FactorAssumption DEF ResolveToken, Verifying, Off, Doc, Numbers
    <3> HIDE DEF new
    <3> QED
      BY <2>5, <3>1, CallBegins DEF Op
  <2> QED
    BY <1>3, <2>1, <2>2, <2>3, <2>4, <2>5
<1>4. ASSUME NEW r \in Callers, EnableWrite(r)
      PROVE  OneMoves
  <2>1. op[r] \in Enabling
    BY <1>4, OpShape DEF EnableWrite
  <2>2. op'[r] = [op[r] EXCEPT !.at = "forget"] /\ \A x \in Callers \ {r} : op'[x] = op[x]
    BY <1>4 DEF EnableWrite, FactorGoes, Typed
  <2>3. op'[r] \in Enabling
    BY <2>1, <2>2 DEF Enabling
  <2> QED
    BY <2>1, <2>2, <2>3 DEF Moved, OneMoves
<1>5. ASSUME NEW r \in Callers, NEW from \in CallSteps \cup {"tries"}, NEW to \in CallSteps,
             At(r, from), FactorGoes(r, to),
             \/ from = "tries" /\ to = "attempts" /\ CountTry(r)
             \/ from = "attempts" /\ to = "lock"
             \/ from = "lock" /\ to = "incr"
             \/ from = "incr" /\ to = "expire" /\ CountAttempt(r)
             \/ from = "expire" /\ to = "check" /\ ExpireAttempts(r)
             \/ from = "clear" /\ to = "consume" /\ op[r].doc # Off
             \/ from = "clear" /\ to = "granted"
             \/ from = "consume" /\ to \in {"granted", "unlock"}
             \/ from = "granted" /\ to = "finish"
      PROVE  OneMoves
  <2>1. op'[r].doc = op[r].doc /\ op[r].at = from
    BY <1>5, AtStep, Goes
  <2>2. op'[r].at = to => ChecksFrom(r, from, to)
    BY <1>5, <2>1 DEF ChecksFrom
  <2> QED
    BY <1>0, <1>5, <2>2, Stays
<1>6. ASSUME NEW r \in Callers, CountTry(r) \/ ReadFactorAttempts(r) \/ LockFactor(r) \/ CountAttempt(r)
                               \/ ExpireAttempts(r) \/ ClearAttempts(r) \/ Consume(r) \/ Granted(r)
      PROVE  OneMoves
  <2> DEFINE Go(from, to) == At(r, from) /\ FactorGoes(r, to)
  <2>1. \/ End(r)
        \/ Go("tries", "attempts") /\ CountTry(r)
        \/ Go("attempts", "lock") \/ Go("lock", "incr")
        \/ Go("incr", "expire") /\ CountAttempt(r)
        \/ Go("expire", "check") /\ ExpireAttempts(r)
        \/ Go("clear", "consume") /\ op[r].doc # Off
        \/ Go("clear", "granted")
        \/ Go("consume", "granted") \/ Go("consume", "unlock") \/ Go("granted", "finish")
    BY <1>6 DEF CountTry, ReadFactorAttempts, LockFactor, CountAttempt, ExpireAttempts, ClearAttempts, Consume, Granted
  <2> QED
    BY <1>2, <1>5, <2>1 DEF CallSteps
<1>7. ASSUME NEW r \in Callers, NEW code \in Codes, CheckCode(r, code)
      PROVE  OneMoves
  <2>1. /\ op[r] \in Presenting \cup Verifying
        /\ \A x \in Callers \ {r} : op'[x] = op[x]
        /\ op'[r].do = op[r].do /\ op'[r].token = op[r].token
        /\ op'[r].at \in {"unlock", "clear"}
        /\ op'[r].at = "clear" /\ op'[r].doc # Off => op'[r].doc.code # 0
    BY <1>7, Checked
  <2>2. op'[r] \in Presenting \cup Verifying
    <3>1. op'[r] \in Op
      BY <1>0 DEF Typed
    <3> QED
      BY <2>1, <3>1 DEF Op, Idle, Enabling, Regenerating, Saving, Presenting, Verifying
  <2>3. ChecksFrom(r, "check", op'[r].at)
    BY <1>7, <2>1 DEF ChecksFrom, CheckCode, At
  <2>4. Moved(r)
    BY <2>1, <2>2, <2>3 DEF Moved, CallSteps
  <2> QED
    BY <2>1, <2>4 DEF OneMoves
<1>8. ASSUME NEW r \in Callers, Generate(r)
      PROVE  op' = op
  BY <1>8 DEF Generate
<1>9. ASSUME NEW t \in Tokens, FirstStep(t) \/ TokenExpires(t)
      PROVE  op' = op
  BY <1>9 DEF FirstStep, TokenExpires
<1>10. CASE ExpirePending \/ AttemptsExpire \/ LockExpires \/ UNCHANGED factorVars
  BY <1>1, <1>10 DEF ExpirePending, AttemptsExpire, LockExpires, factorVars
<1>11. ASSUME NEW r \in Callers, EnableForget(r) \/ RegenerateWrite(r) \/ SaveFormWrite(r) \/ Refused(r)
                                \/ Finish(r) \/ RequestDies(r)
       PROVE  End(r)
  BY <1>11 DEF EnableForget, RegenerateWrite, SaveFormWrite, Refused, Finish, RequestDies
<1> QED
  BY <1>1, <1>2, <1>3, <1>4, <1>6, <1>7, <1>8, <1>9, <1>10, <1>11 DEF FactorNext, FactorStep

-----------------------------------------------------------------------------
(* Counting requests *)

InAt(S) == {r \in Callers : op[r].do # "none" /\ op[r].at \in S}
Of(t, S) == {r \in Callers : op[r].do = "verify" /\ op[r].token = t /\ op[r].at \in S}

\* A set of requests and what it is after one of them moved.
LEMMA MoveCount ==
  ASSUME NEW A \in SUBSET Callers, NEW B \in SUBSET Callers
  PROVE  /\ Cardinality(A) \in Nat /\ Cardinality(B) \in Nat
         /\ B \subseteq A => Cardinality(B) <= Cardinality(A)
         /\ \A r \in A : B \subseteq A \ {r} => Cardinality(B) + 1 <= Cardinality(A)
         /\ \A r : B \subseteq A \cup {r} => Cardinality(B) <= Cardinality(A) + 1
<1>1. IsFiniteSet(A) /\ IsFiniteSet(B) /\ Cardinality(A) \in Nat /\ Cardinality(B) \in Nat
  BY FactorAssumption, FS_Subset, FS_CardinalityType
<1>2. B \subseteq A => Cardinality(B) <= Cardinality(A)
  BY <1>1, FS_Subset
<1>3. ASSUME NEW r \in A, B \subseteq A \ {r}
      PROVE  Cardinality(B) + 1 <= Cardinality(A)
  <2>1. IsFiniteSet(A \ {r}) /\ Cardinality(A \ {r}) = Cardinality(A) - 1
    BY <1>1, FS_RemoveElement
  <2>2. Cardinality(B) <= Cardinality(A \ {r})
    BY <1>3, <2>1, FS_Subset
  <2> QED
    BY <1>1, <2>1, <2>2
<1>4. ASSUME NEW r, B \subseteq A \cup {r}
      PROVE  Cardinality(B) <= Cardinality(A) + 1
  <2>1. IsFiniteSet(A \cup {r}) /\ Cardinality(A \cup {r}) = IF r \in A THEN Cardinality(A) ELSE Cardinality(A) + 1
    BY <1>1, FS_AddElement
  <2>2. Cardinality(B) <= Cardinality(A \cup {r})
    BY <1>4, <2>1, FS_Subset
  <2> QED
    BY <1>1, <2>1, <2>2
<1> QED
  BY <1>1, <1>2, <1>3, <1>4

\* The counter of attempts goes up by one request's INCR only, and back to 0.
LEMMA AttemptsChange ==
  ASSUME Typed, [FactorNext]_factorVars
  PROVE  /\ \/ attempts' = attempts /\ attemptsTtl' = attemptsTtl
            \/ attempts' = 0
            \/ \E r \in Callers : CountAttempt(r)
            \/ \E r \in Callers : ExpireAttempts(r)
         /\ started <= started' /\ failed <= failed'
<1> USE DEF factorRedis, counts, factorHistory
<1>0. started \in Nat /\ failed \in Nat
  BY DEF Typed
<1>1. ASSUME NEW r \in Callers, FactorStep(r)
      PROVE  /\ started <= started' /\ failed <= failed'
             /\ \/ attempts' = attempts /\ attemptsTtl' = attemptsTtl
                \/ attempts' = 0 \/ CountAttempt(r) \/ ExpireAttempts(r)
  <2>1. CASE CountAttempt(r) \/ ExpireAttempts(r)
    BY <1>0, <2>1 DEF CountAttempt, ExpireAttempts
  <2>2. CASE ClearAttempts(r)
    BY <1>0, <2>2 DEF ClearAttempts
  <2>3. CASE EnableWrite(r) \/ EnableForget(r) \/ RegenerateWrite(r) \/ SaveFormWrite(r) \/ CountTry(r)
             \/ ReadFactorAttempts(r) \/ LockFactor(r)
    <3>1. attempts' = attempts /\ attemptsTtl' = attemptsTtl /\ started' = started /\ failed' = failed
      BY <2>3 DEF EnableWrite, EnableForget, RegenerateWrite, SaveFormWrite, CountTry, ReadFactorAttempts, LockFactor
    <3> QED
      BY <1>0, <3>1
  <2>4. CASE (\E code \in Codes : CheckCode(r, code)) \/ Consume(r) \/ Refused(r) \/ Granted(r) \/ Finish(r)
    <3>1. attempts' = attempts /\ attemptsTtl' = attemptsTtl /\ started' = started /\ failed' = failed
      BY <2>4 DEF CheckCode, Consume, Refused, Granted, Finish
    <3> QED
      BY <1>0, <3>1
  <2> QED
    BY <1>1, <2>1, <2>2, <2>3, <2>4 DEF FactorStep
<1>2. ASSUME NEW r \in Callers, RequestDies(r) \/ Generate(r) \/ EnableCheck(r) \/ Regenerate(r)
                               \/ (\E on \in BOOLEAN : SaveForm(r, on)) \/ Present(r)
                               \/ (\E t \in Tokens : ResolveToken(r, t))
      PROVE  started <= started' /\ failed <= failed' /\ attempts' = attempts /\ attemptsTtl' = attemptsTtl
  BY <1>0, <1>2 DEF RequestDies, Generate, EnableCheck, Regenerate, SaveForm, Present, ResolveToken, Start
<1>3. ASSUME NEW t \in Tokens, FirstStep(t) \/ TokenExpires(t)
      PROVE  started <= started' /\ failed <= failed' /\ attempts' = attempts /\ attemptsTtl' = attemptsTtl
  BY <1>0, <1>3 DEF FirstStep, TokenExpires
<1>4. CASE ExpirePending \/ AttemptsExpire \/ LockExpires \/ UNCHANGED factorVars
  BY <1>0, <1>4 DEF ExpirePending, AttemptsExpire, LockExpires, factorVars
<1> QED
  BY <1>1, <1>2, <1>3, <1>4 DEF FactorNext

\* Every attempt counted is of a request that was started and counted once.
Uncounted == InAt({"tries", "attempts", "lock", "incr"})
AttemptsStarted == attempts + Cardinality(Uncounted) <= started

\* The counter of attempts is never above the attempts started, whoever moves.
LEMMA AttemptsStep ==
  ASSUME Typed, AttemptsStarted, [FactorNext]_factorVars
  PROVE  AttemptsStarted'
<1>0. /\ attempts \in Nat /\ attempts' \in Nat /\ started \in Nat /\ started' \in Nat
      /\ Uncounted \in SUBSET Callers /\ Uncounted' \in SUBSET Callers
      /\ Cardinality(Uncounted) \in Nat /\ Cardinality(Uncounted') \in Nat
  <2>1. Uncounted \in SUBSET Callers /\ Uncounted' \in SUBSET Callers
    BY DEF Uncounted, InAt
  <2> QED
    BY <2>1, TypedStep, MoveCount DEF Typed
<1>1. ASSUME NEW r \in Callers, CountAttempt(r)
      PROVE  AttemptsStarted'
  <2>1. At(r, "incr") /\ FactorGoes(r, "expire") /\ attempts' = attempts + 1 /\ started' = started
    BY <1>1 DEF CountAttempt, counts
  <2>2. /\ \A x \in Callers \ {r} : op'[x] = op[x]
        /\ op'[r].at = "expire" /\ r \in Uncounted
    BY <2>1, AtStep, Goes DEF Uncounted, InAt, CallSteps
  <2>3. Uncounted' \subseteq Uncounted \ {r}
    BY <2>2 DEF Uncounted, InAt
  <2>4. Cardinality(Uncounted') + 1 <= Cardinality(Uncounted)
    BY <1>0, <2>2, <2>3, MoveCount
  <2> QED
    BY <1>0, <2>1, <2>4 DEF AttemptsStarted
<1>2. ASSUME attempts' <= attempts
      PROVE  AttemptsStarted'
  <2>1. PICK r \in Callers : Moved(r) /\ \A x \in Callers \ {r} : op'[x] = op[x]
    BY Moves DEF OneMoves
  <2>2. started <= started'
    BY AttemptsChange
  <2>3. CASE r \in Uncounted' /\ r \notin Uncounted
    <3>1. started' = started + 1
      BY <2>1, <2>3 DEF Moved, ChecksFrom, Uncounted, InAt, Idle, Enabling, CallSteps, Presenting, Verifying
    <3>2. Uncounted' \subseteq Uncounted \cup {r}
      BY <2>1 DEF Uncounted, InAt
    <3>3. Cardinality(Uncounted') <= Cardinality(Uncounted) + 1
      BY <1>0, <3>2, MoveCount
    <3> QED
      BY <1>0, <1>2, <3>1, <3>3 DEF AttemptsStarted
  <2>4. CASE ~(r \in Uncounted' /\ r \notin Uncounted)
    <3>1. Uncounted' \subseteq Uncounted
      BY <2>1, <2>4 DEF Uncounted, InAt
    <3>2. Cardinality(Uncounted') <= Cardinality(Uncounted)
      BY <1>0, <3>1, MoveCount
    <3> QED
      BY <1>0, <1>2, <2>2, <3>2 DEF AttemptsStarted
  <2> QED
    BY <2>3, <2>4
<1>3. ASSUME NEW r \in Callers, ExpireAttempts(r)
      PROVE  attempts' = attempts
  BY <1>3 DEF ExpireAttempts
<1> QED
  BY <1>0, <1>1, <1>2, <1>3, AttemptsChange

\* A request that is at "expire" has the lock and does not end there, but by dying.
LEMMA IdleByEnd ==
  ASSUME Typed, [FactorNext]_factorVars, NEW r \in Callers, op[r].do # "none", op[r].at = "expire",
         ~RequestDies(r)
  PROVE  op'[r] # Idle
<1>0. op[r] \in Presenting \cup Verifying /\ op[r] # Idle
  BY AtStep DEF At, CallSteps, Idle
<1>1. ASSUME NEW x \in Callers, FactorStep(x)
      PROVE  op'[r] # Idle
  <2>1. CASE x = r
    <3>1. ExpireAttempts(r)
      BY <1>0, <1>1, <2>1 DEF FactorStep, EnableWrite, EnableForget, RegenerateWrite, SaveFormWrite, CountTry,
        ReadFactorAttempts, LockFactor, CountAttempt, CheckCode, ClearAttempts, Consume, Refused, Granted, Finish,
        At, Presenting, Verifying
    <3>2. FactorGoes(r, "check")
      BY <3>1 DEF ExpireAttempts
    <3>3. op'[r].do = op[r].do
      BY <1>0, <3>2, Goes DEF CallSteps
    <3> QED
      BY <3>3 DEF Idle
  <2>2. CASE x # r
    <3>1. op'[r] = op[r]
      BY <1>1, <2>2 DEF FactorStep, EnableWrite, EnableForget, RegenerateWrite, SaveFormWrite, CountTry,
        ReadFactorAttempts, LockFactor, CountAttempt, ExpireAttempts, CheckCode, ClearAttempts, Consume, Refused,
        Granted, Finish, FactorGoes, End, Typed
    <3> QED
      BY <1>0, <3>1
  <2> QED
    BY <2>1, <2>2
<1>2. ASSUME NEW x \in Callers, RequestDies(x) \/ Generate(x) \/ EnableCheck(x) \/ Regenerate(x)
                               \/ (\E on \in BOOLEAN : SaveForm(x, on)) \/ Present(x)
                               \/ (\E t \in Tokens : ResolveToken(x, t))
      PROVE  op'[r] = op[r]
  BY <1>0, <1>2 DEF RequestDies, Generate, EnableCheck, Regenerate, SaveForm, Present, ResolveToken, Start, End, Typed
<1>3. ASSUME NEW t \in Tokens, FirstStep(t) \/ TokenExpires(t)
      PROVE  op'[r] = op[r]
  BY <1>3 DEF FirstStep, TokenExpires
<1>4. CASE ExpirePending \/ AttemptsExpire \/ LockExpires \/ UNCHANGED factorVars
  BY <1>0, <1>4 DEF ExpirePending, AttemptsExpire, LockExpires, factorVars
<1> QED
  BY <1>0, <1>1, <1>2, <1>3, <1>4 DEF FactorNext

\* An attempt that has no time to live yet is one whose request is about to give
\* it one, or died (or lost its lock) before it could.
InWindow == InAt({"expire"})
LivesOn == ~attemptsTtl => attempts <= Cardinality(InWindow) + failed

\* Attempts without a time to live stay accounted for, whoever moves.
LEMMA LivesOnStep ==
  ASSUME Typed, LivesOn, [FactorNext]_factorVars
  PROVE  LivesOn'
<1>0. /\ attempts \in Nat /\ attempts' \in Nat /\ failed \in Nat /\ failed' \in Nat /\ failed <= failed'
      /\ InWindow \in SUBSET Callers /\ InWindow' \in SUBSET Callers
      /\ Cardinality(InWindow) \in Nat /\ Cardinality(InWindow') \in Nat
  <2>1. InWindow \in SUBSET Callers /\ InWindow' \in SUBSET Callers
    BY DEF InWindow, InAt
  <2> QED
    BY <2>1, TypedStep, MoveCount, AttemptsChange DEF Typed
<1>1. ASSUME NEW r \in Callers, CountAttempt(r)
      PROVE  LivesOn'
  <2>1. At(r, "incr") /\ FactorGoes(r, "expire") /\ attempts' = attempts + 1 /\ failed' = failed
        /\ attemptsTtl' = attemptsTtl
    BY <1>1 DEF CountAttempt, counts
  <2>2. /\ \A x \in Callers \ {r} : op'[x] = op[x]
        /\ op'[r].at = "expire" /\ op'[r].do # "none" /\ op[r].at = "incr"
    BY <2>1, AtStep, Goes DEF CallSteps
  <2>3. r \in InWindow' /\ InWindow \subseteq InWindow' \ {r}
    BY <2>2 DEF InWindow, InAt
  <2>4. Cardinality(InWindow) + 1 <= Cardinality(InWindow')
    BY <1>0, <2>3, MoveCount
  <2> QED
    BY <1>0, <2>1, <2>4 DEF LivesOn
<1>2. ASSUME NEW r \in Callers, ExpireAttempts(r)
      PROVE  LivesOn'
  <2>1. attemptsTtl' = (attempts > 0) /\ attempts' = attempts
    BY <1>2 DEF ExpireAttempts
  <2>2. ~attemptsTtl' => ~(attempts > 0)
    BY <2>1, Zenon
  <2> QED
    BY <1>0, <2>1, <2>2 DEF LivesOn
<1>3. CASE attempts' = 0
  BY <1>0, <1>3 DEF LivesOn
<1>4. ASSUME NEW r \in Callers, RequestDies(r)
      PROVE  LivesOn'
  <2>1. attempts' = attempts /\ attemptsTtl' = attemptsTtl /\ failed' = failed + 1
        /\ \A x \in Callers \ {r} : op'[x] = op[x]
    BY <1>4 DEF RequestDies, factorRedis, End, Typed
  <2>2. InWindow \subseteq InWindow' \cup {r}
    BY <2>1 DEF InWindow, InAt
  <2>3. Cardinality(InWindow) <= Cardinality(InWindow') + 1
    BY <1>0, <2>2, MoveCount
  <2> QED
    BY <1>0, <2>1, <2>3 DEF LivesOn
<1>5. CASE /\ attempts' = attempts /\ attemptsTtl' = attemptsTtl
           /\ \A r \in Callers : ~ExpireAttempts(r) /\ ~RequestDies(r)
  <2>1. PICK r \in Callers : Moved(r) /\ \A x \in Callers \ {r} : op'[x] = op[x]
    BY Moves DEF OneMoves
  <2>2. r \in InWindow => op'[r] # Idle
    BY <1>5, IdleByEnd DEF InWindow, InAt
  <2>3. r \in InWindow => r \in InWindow'
    BY <1>5, <2>1, <2>2 DEF Moved, ChecksFrom, InWindow, InAt, Idle, Enabling
  <2>4. InWindow \subseteq InWindow'
    BY <2>1, <2>3 DEF InWindow, InAt
  <2>5. Cardinality(InWindow) <= Cardinality(InWindow')
    BY <1>0, <2>4, MoveCount
  <2> QED
    BY <1>0, <1>5, <2>5 DEF LivesOn
<1> QED
  BY <1>1, <1>2, <1>3, <1>4, <1>5, AttemptsChange

-----------------------------------------------------------------------------
(* The tries of a token *)

\* Requests whose try of the token is counted and whose code is not compared
\* yet, and those whose try is still to be counted.
Checking(t) == Of(t, {"attempts", "lock", "incr", "expire", "check"})
Pending(t) == Of(t, {"tries"})

\* Either every code compared with a token has its try in the counter, or the
\* token was burnt, and what is left are the requests that had resolved it.
TokenSpent ==
  \A t \in Tokens :
    \/ comparedWith[t] + Cardinality(Checking(t)) <= tokenTries[t]
    \/ /\ token[t] = "spent"
       /\ comparedWith[t] + Cardinality(Checking(t)) + Cardinality(Pending(t))
            <= MaxAttempts + Cardinality(Callers) - 1

\* Only counting a try and comparing a code change the counters of a token, and
\* a spent token stays spent.
LEMMA TokensChange ==
  ASSUME Typed, [FactorNext]_factorVars
  PROVE  \/ \E r \in Callers : CountTry(r)
         \/ \E r \in Callers, code \in Codes : CheckCode(r, code)
         \/ /\ comparedWith' = comparedWith /\ tokenTries' = tokenTries
            /\ \A t \in Tokens : token[t] = "spent" => token'[t] = "spent"
<1> USE DEF factorRedis, counts, factorHistory
<1>1. ASSUME NEW r \in Callers, FactorStep(r), ~CountTry(r), \A code \in Codes : ~CheckCode(r, code)
      PROVE  /\ comparedWith' = comparedWith /\ tokenTries' = tokenTries
             /\ \A t \in Tokens : token[t] = "spent" => token'[t] = "spent"
  <2>1. CASE EnableWrite(r) \/ EnableForget(r) \/ RegenerateWrite(r) \/ SaveFormWrite(r)
             \/ ReadFactorAttempts(r) \/ LockFactor(r) \/ CountAttempt(r) \/ ExpireAttempts(r)
    BY <2>1 DEF EnableWrite, EnableForget, RegenerateWrite, SaveFormWrite, ReadFactorAttempts, LockFactor,
       CountAttempt, ExpireAttempts
  <2>2. CASE ClearAttempts(r) \/ Consume(r) \/ Refused(r) \/ Granted(r)
    BY <2>2 DEF ClearAttempts, Consume, Refused, Granted
  <2>3. CASE Finish(r)
    BY <2>3 DEF Finish, Typed
  <2> QED
    BY <1>1, <2>1, <2>2, <2>3 DEF FactorStep
<1>2. ASSUME NEW r \in Callers, RequestDies(r) \/ Generate(r) \/ EnableCheck(r) \/ Regenerate(r)
                               \/ (\E on \in BOOLEAN : SaveForm(r, on)) \/ Present(r)
                               \/ (\E t \in Tokens : ResolveToken(r, t))
      PROVE  comparedWith' = comparedWith /\ tokenTries' = tokenTries /\ token' = token
  BY <1>2 DEF RequestDies, Generate, EnableCheck, Regenerate, SaveForm, Present, ResolveToken
<1>3. ASSUME NEW u \in Tokens, FirstStep(u) \/ TokenExpires(u)
      PROVE  /\ comparedWith' = comparedWith /\ tokenTries' = tokenTries
             /\ \A t \in Tokens : token[t] = "spent" => token'[t] = "spent"
  BY <1>3 DEF FirstStep, TokenExpires, Typed
<1>4. CASE ExpirePending \/ AttemptsExpire \/ LockExpires \/ UNCHANGED factorVars
  BY <1>4 DEF ExpirePending, AttemptsExpire, LockExpires, factorVars
<1> QED
  BY <1>1, <1>2, <1>3, <1>4 DEF FactorNext

\* The sets of requests of a token, before and after a step.
LEMMA TokenSets ==
  ASSUME NEW t
  PROVE  /\ Checking(t) \in SUBSET Callers /\ Checking(t)' \in SUBSET Callers
         /\ Pending(t) \in SUBSET Callers /\ Pending(t)' \in SUBSET Callers
         /\ Cardinality(Checking(t)) \in Nat /\ Cardinality(Checking(t)') \in Nat
         /\ Cardinality(Pending(t)) \in Nat /\ Cardinality(Pending(t)') \in Nat
         /\ Cardinality(Callers) \in Nat
<1>1. /\ Checking(t) \in SUBSET Callers /\ Checking(t)' \in SUBSET Callers
      /\ Pending(t) \in SUBSET Callers /\ Pending(t)' \in SUBSET Callers /\ Callers \in SUBSET Callers
  BY DEF Checking, Pending, Of
<1> QED
  BY <1>1, MoveCount

\* A token that was compared with as often as it may be is spent, whoever moves.
LEMMA TokenStep ==
  ASSUME Typed, TokenSpent, [FactorNext]_factorVars
  PROVE  TokenSpent'
<1> SUFFICES ASSUME NEW t \in Tokens
             PROVE  \/ comparedWith'[t] + Cardinality(Checking(t)') <= tokenTries'[t]
                    \/ /\ token'[t] = "spent"
                       /\ comparedWith'[t] + Cardinality(Checking(t)') + Cardinality(Pending(t)')
                            <= MaxAttempts + Cardinality(Callers) - 1
  BY DEF TokenSpent
<1>0. /\ comparedWith[t] \in Nat /\ comparedWith'[t] \in Nat /\ tokenTries[t] \in 0..MaxAttempts
      /\ tokenTries'[t] \in 0..MaxAttempts /\ MaxAttempts \in Nat
  BY TypedStep, FactorAssumption DEF Typed
<1>1. ASSUME Checking(t)' \subseteq Checking(t), Pending(t)' \subseteq Pending(t)
      PROVE  /\ Cardinality(Checking(t)') <= Cardinality(Checking(t))
             /\ Cardinality(Pending(t)') <= Cardinality(Pending(t))
  BY <1>1, TokenSets, MoveCount
<1>2. CASE \E r \in Callers : CountTry(r)
  <2> PICK r \in Callers : CountTry(r)
    BY <1>2
  <2>1. /\ op[r] \in Verifying /\ op[r].do = "verify" /\ op[r].at = "tries" /\ op[r].token \in Tokens
        /\ comparedWith' = comparedWith
    <3>1. At(r, "tries") /\ comparedWith' = comparedWith
      BY DEF CountTry, factorHistory
    <3> QED
      BY <3>1, AtStep DEF Verifying
  <2>2. CASE tokenTries[op[r].token] + 1 > MaxAttempts
    <3>1. /\ token' = [token EXCEPT ![op[r].token] = "spent"] /\ tokenTries' = [tokenTries EXCEPT ![op[r].token] = 0]
          /\ End(r)
      BY <2>2 DEF CountTry
    <3>2. op'[r] = Idle /\ \A x \in Callers \ {r} : op'[x] = op[x]
      BY <3>1 DEF End, Typed
    <3>3. Checking(t)' \subseteq Checking(t) /\ Pending(t)' \subseteq Pending(t) \ {r}
      BY <3>2 DEF Checking, Pending, Of, Idle
    <3>4. CASE op[r].token # t
      <4>1. tokenTries'[t] = tokenTries[t] /\ token'[t] = token[t]
        BY <3>1, <3>4 DEF Typed
      <4> QED
        BY <1>0, <1>1, <2>1, <3>3, <4>1, TokenSets DEF TokenSpent
    <3>5. CASE op[r].token = t
      <4>1. token'[t] = "spent"
        BY <3>1, <3>5 DEF Typed
      <4>2. Cardinality(Pending(t)') + 1 <= Cardinality(Callers)
        <5>1. Pending(t)' \subseteq Callers \ {r}
          BY <3>3 DEF Pending, Of
        <5>2. Callers \in SUBSET Callers /\ Pending(t)' \in SUBSET Callers
          BY TokenSets
        <5> QED
          BY <5>1, <5>2, MoveCount
      <4> QED
        BY <1>0, <1>1, <2>1, <2>2, <3>3, <3>5, <4>1, <4>2, TokenSets DEF TokenSpent
    <3> QED
      BY <3>4, <3>5
  <2>3. CASE ~(tokenTries[op[r].token] + 1 > MaxAttempts)
    <3>1. /\ tokenTries' = [tokenTries EXCEPT ![op[r].token] = @ + 1] /\ FactorGoes(r, "attempts")
          /\ token' = token
      BY <2>3 DEF CountTry
    <3>2. /\ \A x \in Callers \ {r} : op'[x] = op[x]
          /\ op'[r].do = op[r].do /\ op'[r].at = "attempts" /\ op'[r].token = op[r].token
      BY <2>1, <3>1, Goes DEF CallSteps
    <3>3. CASE op[r].token # t
      <4>1. Checking(t)' \subseteq Checking(t) /\ Pending(t)' \subseteq Pending(t)
        BY <3>2, <3>3 DEF Checking, Pending, Of
      <4>2. tokenTries'[t] = tokenTries[t] /\ token'[t] = token[t]
        BY <3>1, <3>3 DEF Typed
      <4> QED
        BY <1>0, <1>1, <2>1, <4>1, <4>2, TokenSets DEF TokenSpent
    <3>4. CASE op[r].token = t
      <4>1. r \in Pending(t) /\ Checking(t)' \subseteq Checking(t) \cup {r} /\ Pending(t)' \subseteq Pending(t) \ {r}
        BY <2>1, <3>2, <3>4 DEF Checking, Pending, Of
      <4>2. /\ Cardinality(Checking(t)') <= Cardinality(Checking(t)) + 1
            /\ Cardinality(Pending(t)') + 1 <= Cardinality(Pending(t))
        BY <4>1, TokenSets, MoveCount
      <4>3. tokenTries'[t] = tokenTries[t] + 1 /\ token'[t] = token[t]
        BY <3>1, <3>4 DEF Typed
      <4> QED
        BY <1>0, <2>1, <4>2, <4>3, TokenSets DEF TokenSpent
    <3> QED
      BY <3>3, <3>4
  <2> QED
    BY <2>2, <2>3
<1>3. CASE \E r \in Callers, code \in Codes : CheckCode(r, code)
  <2> PICK r \in Callers, code \in Codes : CheckCode(r, code)
    BY <1>3
  <2>1. /\ At(r, "check") /\ tokenTries' = tokenTries /\ token' = token
        /\ comparedWith' = IF op[r].do = "verify" THEN [comparedWith EXCEPT ![op[r].token] = @ + 1] ELSE comparedWith
    BY DEF CheckCode, factorRedis
  <2>2. /\ \A x \in Callers \ {r} : op'[x] = op[x]
        /\ op'[r].at \in {"unlock", "clear"} /\ op[r].at = "check"
    BY <2>1, Checked DEF At
  <2>3. Checking(t)' \subseteq Checking(t) \ {r} /\ Pending(t)' \subseteq Pending(t)
    BY <2>2 DEF Checking, Pending, Of
  <2>4. CASE op[r].do = "verify" /\ op[r].token = t
    <3>1. r \in Checking(t)
      BY <2>2, <2>4 DEF Checking, Of
    <3>2. /\ Cardinality(Checking(t)') + 1 <= Cardinality(Checking(t))
          /\ Cardinality(Pending(t)') <= Cardinality(Pending(t))
      BY <2>3, <3>1, TokenSets, MoveCount
    <3>3. comparedWith'[t] = comparedWith[t] + 1
      BY <2>1, <2>4 DEF Typed
    <3> QED
      BY <1>0, <2>1, <3>2, <3>3, TokenSets DEF TokenSpent
  <2>5. CASE ~(op[r].do = "verify" /\ op[r].token = t)
    <3>1. comparedWith'[t] = comparedWith[t]
      BY <2>1, <2>5 DEF Typed
    <3> QED
      BY <1>0, <1>1, <2>1, <2>3, <3>1, TokenSets DEF TokenSpent
  <2> QED
    BY <2>4, <2>5
<1>4. CASE /\ \A r \in Callers : ~CountTry(r)
           /\ comparedWith' = comparedWith /\ tokenTries' = tokenTries
           /\ \A u \in Tokens : token[u] = "spent" => token'[u] = "spent"
  <2>1. PICK r \in Callers : Moved(r) /\ \A x \in Callers \ {r} : op'[x] = op[x]
    BY Moves DEF OneMoves
  <2>2. r \in Checking(t)' => r \in Checking(t)
    BY <1>4, <2>1 DEF Moved, ChecksFrom, Checking, Of, Idle, Enabling, Regenerating, Saving, Presenting, Verifying
  <2>3. r \in Pending(t)' => r \in Pending(t) \/ ResolveToken(r, t)
    BY <2>1 DEF Moved, ChecksFrom, Pending, Of, Idle, Enabling, Regenerating, Saving, Presenting, Verifying, CallSteps
  <2>4. Checking(t)' \subseteq Checking(t)
    BY <2>1, <2>2 DEF Checking, Of
  <2>5. CASE ResolveToken(r, t)
    <3>1. token[t] = "live"
      BY <2>5 DEF ResolveToken
    <3>2. Cardinality(Checking(t)') <= Cardinality(Checking(t))
      BY <2>4, TokenSets, MoveCount
    <3> QED
      BY <1>0, <1>4, <3>1, <3>2, TokenSets DEF TokenSpent
  <2>6. CASE ~ResolveToken(r, t)
    <3>1. Pending(t)' \subseteq Pending(t)
      BY <2>1, <2>3, <2>6 DEF Pending, Of
    <3> QED
      BY <1>0, <1>1, <1>4, <2>4, <3>1, TokenSets DEF TokenSpent
  <2> QED
    BY <2>5, <2>6
<1> QED
  BY <1>2, <1>3, <1>4, TokensChange

-----------------------------------------------------------------------------
(* Recovery codes and the flag *)

\* The stored code was never accepted, nor was one that is not issued yet; who
\* is about to consume a code compared one.
CodesFresh ==
  /\ user.code <= numbered
  /\ user.code # 0 => accepted[user.code] = 0
  /\ \A n \in 1..MaxIssued : accepted[n] <= 1 /\ (n > numbered => accepted[n] = 0)
  /\ \A r \in InAt({"clear"}) : op[r].doc # Off => op[r].doc.code # 0
  /\ \A r \in InAt({"consume"}) : op[r].doc.code # 0

\* A form that switches the factor on was loaded when there was a secret.
SecretKnown ==
  /\ SecretIfOn
  /\ \A r \in Callers : op[r].do = "save" /\ op[r].on => op[r].secret # 0

\* What changes the document, and what does not.
LEMMA UserChange ==
  ASSUME Typed, [FactorNext]_factorVars
  PROVE  \/ user' = user /\ accepted' = accepted /\ lateSave' = lateSave /\ numbered <= numbered'
         \/ \E r \in Callers : EnableWrite(r) \/ RegenerateWrite(r)
         \/ \E r \in Callers : SaveFormWrite(r)
         \/ \E r \in Callers : Consume(r)
         \/ user' = Off /\ accepted' = accepted /\ lateSave' = lateSave /\ numbered' = numbered
<1> USE DEF factorRedis, counts, factorHistory
<1>0. numbered \in Nat
  BY FactorAssumption DEF Typed, Numbers
<1> DEFINE Same == user' = user /\ accepted' = accepted /\ lateSave' = lateSave /\ numbered' = numbered
<1>1. ASSUME NEW r \in Callers, FactorStep(r)
      PROVE  \/ Same \/ EnableWrite(r) \/ RegenerateWrite(r) \/ SaveFormWrite(r) \/ Consume(r)
             \/ user' = Off /\ accepted' = accepted /\ lateSave' = lateSave /\ numbered' = numbered
  <2>1. CASE EnableForget(r) \/ CountTry(r) \/ ReadFactorAttempts(r) \/ LockFactor(r) \/ CountAttempt(r)
             \/ ExpireAttempts(r)
    BY <2>1 DEF EnableForget, CountTry, ReadFactorAttempts, LockFactor, CountAttempt, ExpireAttempts
  <2>2. CASE (\E code \in Codes : CheckCode(r, code)) \/ ClearAttempts(r) \/ Refused(r) \/ Granted(r)
    BY <2>2 DEF CheckCode, ClearAttempts, Refused, Granted
  <2>3. CASE Finish(r)
    BY <2>3 DEF Finish
  <2> QED
    BY <1>1, <2>1, <2>2, <2>3 DEF FactorStep
<1>2. ASSUME NEW r \in Callers, RequestDies(r) \/ EnableCheck(r) \/ Regenerate(r)
                               \/ (\E on \in BOOLEAN : SaveForm(r, on)) \/ Present(r)
                               \/ (\E t \in Tokens : ResolveToken(r, t))
      PROVE  Same
  BY <1>2 DEF RequestDies, EnableCheck, Regenerate, SaveForm, Present, ResolveToken
<1>3. ASSUME NEW r \in Callers, Generate(r)
      PROVE  user' = user /\ accepted' = accepted /\ lateSave' = lateSave /\ numbered <= numbered'
  BY <1>0, <1>3 DEF Generate
<1>4. ASSUME NEW u \in Tokens, FirstStep(u) \/ TokenExpires(u)
      PROVE  Same
  BY <1>4 DEF FirstStep, TokenExpires
<1>5. ASSUME ExpirePending \/ AttemptsExpire \/ LockExpires \/ UNCHANGED factorVars
      PROVE  Same
  BY <1>5 DEF ExpirePending, AttemptsExpire, LockExpires, factorVars
<1>6. numbered <= numbered
  BY <1>0
<1> QED
  BY <1>1, <1>2, <1>3, <1>4, <1>5, <1>6 DEF FactorNext

\* A recovery code is compared before it is consumed.
LEMMA DocsStep ==
  ASSUME Typed, CodesFresh, [FactorNext]_factorVars
  PROVE  /\ \A r \in InAt({"clear"})' : op'[r].doc # Off => op'[r].doc.code # 0
         /\ \A r \in InAt({"consume"})' : op'[r].doc.code # 0
<1>1. PICK r \in Callers : Moved(r) /\ \A x \in Callers \ {r} : op'[x] = op[x]
  BY Moves DEF OneMoves
<1>2. ASSUME NEW x \in Callers, op'[x].do # "none", op'[x].at = "clear", op'[x].doc # Off
      PROVE  op'[x].doc.code # 0
  <2>1. CASE op'[x] = op[x]
    BY <1>2, <2>1 DEF CodesFresh, InAt
  <2>2. CASE op'[x] # op[x]
    BY <1>1, <1>2, <2>2 DEF Moved, ChecksFrom, Idle, Enabling, Regenerating, Saving
  <2> QED
    BY <2>1, <2>2
<1>3. ASSUME NEW x \in Callers, op'[x].do # "none", op'[x].at = "consume"
      PROVE  op'[x].doc.code # 0
  <2>1. CASE op'[x] = op[x]
    BY <1>3, <2>1 DEF CodesFresh, InAt
  <2>2. CASE op'[x] # op[x]
    <3>1. x = r /\ op[x] \in Presenting \cup Verifying /\ op[x].at = "clear"
          /\ op[x].doc # Off /\ op'[x].doc = op[x].doc
      BY <1>1, <1>3, <2>2 DEF Moved, ChecksFrom, Idle, Enabling, Regenerating, Saving
    <3>2. op[x].do # "none"
      BY <3>1 DEF Presenting, Verifying
    <3> QED
      BY <3>1, <3>2 DEF CodesFresh, InAt
  <2> QED
    BY <2>1, <2>2
<1> QED
  BY <1>2, <1>3 DEF InAt

\* The stored recovery code is a new one that opened nothing yet, whoever moves.
LEMMA CodesStep ==
  ASSUME Typed, CodesFresh, [FactorNext]_factorVars
  PROVE  CodesFresh'
<1>0. /\ user.code \in 0..MaxIssued /\ numbered \in 0..MaxIssued /\ numbered' \in 0..MaxIssued /\ MaxIssued \in Nat
      /\ accepted \in [0..MaxIssued -> Nat] /\ user \in Doc
  BY TypedStep, FactorAssumption DEF Typed, Doc, Numbers
<1> DEFINE Fresh == /\ user'.code <= numbered'
                    /\ user'.code # 0 => accepted'[user'.code] = 0
                    /\ \A n \in 1..MaxIssued : accepted'[n] <= 1 /\ (n > numbered' => accepted'[n] = 0)
<1>1. ASSUME accepted' = accepted, numbered <= numbered', user'.code = user.code \/ user'.code = 0
      PROVE  Fresh
  BY <1>0, <1>1 DEF CodesFresh
<1>2. ASSUME NEW r \in Callers, EnableWrite(r) \/ RegenerateWrite(r)
      PROVE  Fresh
  <2>1. numbered' = numbered + 1 /\ accepted' = accepted /\ user'.code = numbered + 1
    BY <1>0, <1>2 DEF EnableWrite, RegenerateWrite, factorHistory, Doc
  <2> QED
    BY <1>0, <2>1 DEF CodesFresh
<1>3. ASSUME NEW r \in Callers, SaveFormWrite(r)
      PROVE  user'.code = user.code /\ accepted' = accepted /\ numbered' = numbered
  BY <1>0, <1>3 DEF SaveFormWrite, counts, Doc
<1>4. ASSUME NEW r \in Callers, Consume(r)
      PROVE  Fresh
  <2> DEFINE n == op[r].doc.code
  <2>1. n # 0 /\ n \in 0..MaxIssued
    <3>1. At(r, "consume")
      BY <1>4 DEF Consume
    <3>2. op[r].doc \in Doc
      BY <3>1, AtStep DEF CallSteps
    <3> QED
      BY <3>1, <3>2 DEF CodesFresh, InAt, At, Doc, Numbers
  <2>2. numbered' = numbered
    BY <1>4 DEF Consume, counts
  <2>3. CASE user.code = n
    <3>1. user'.code = 0 /\ accepted' = [accepted EXCEPT ![n] = @ + 1]
      BY <1>0, <1>4, <2>3 DEF Consume, Doc
    <3>2. accepted[n] = 0
      BY <2>1, <2>3 DEF CodesFresh
    <3> HIDE DEF n
    <3>3. accepted'[n] = 1 /\ \A k \in 1..MaxIssued : k # n => accepted'[k] = accepted[k]
      BY <1>0, <2>1, <3>1, <3>2
    <3> QED
      BY <1>0, <2>1, <2>2, <2>3, <3>1, <3>3 DEF CodesFresh
  <2>4. CASE user.code # n
    <3>1. user' = user /\ accepted' = accepted
      BY <1>4, <2>4 DEF Consume
    <3> QED
      BY <1>0, <2>2, <3>1 DEF CodesFresh
  <2> QED
    BY <2>3, <2>4
<1>5. Off.code = 0 /\ (numbered' = numbered => numbered <= numbered')
  BY <1>0 DEF Off
<1>6. Fresh
  <2>1. CASE user' = user /\ accepted' = accepted /\ numbered <= numbered'
    BY <1>1, <2>1
  <2>2. CASE user' = Off /\ accepted' = accepted /\ numbered' = numbered
    BY <1>1, <1>5, <2>2
  <2>3. CASE \E r \in Callers : SaveFormWrite(r)
    BY <1>1, <1>3, <1>5, <2>3
  <2> HIDE DEF Fresh
  <2> QED
    BY <1>2, <1>4, <2>1, <2>2, <2>3, UserChange
<1> QED
  BY <1>6, DocsStep DEF CodesFresh

\* The factor is never on without a secret, whoever moves.
LEMMA SecretStep ==
  ASSUME Typed, SecretKnown, [FactorNext]_factorVars
  PROVE  SecretKnown'
<1>0. user \in Doc
  BY DEF Typed
<1>1. \A x \in Callers : op'[x].do = "save" /\ op'[x].on => op'[x].secret # 0
  <2>1. PICK r \in Callers : Moved(r) /\ \A x \in Callers \ {r} : op'[x] = op[x]
    BY Moves DEF OneMoves
  <2>2. op'[r].do = "save" /\ op'[r].on => op'[r].secret # 0
    BY <2>1 DEF SecretKnown, Moved, Idle, Enabling, Regenerating, Presenting, Verifying
  <2> QED
    BY <2>1, <2>2 DEF SecretKnown
<1>2. SecretIfOn'
  <2>1. CASE user' = user /\ lateSave' = lateSave
    BY <2>1 DEF SecretKnown, SecretIfOn
  <2>2. ASSUME NEW r \in Callers, EnableWrite(r)
        PROVE  user'.secret # 0
    <3>1. op[r] \in Enabling
      BY <2>2, OpShape DEF EnableWrite
    <3> QED
      BY <2>2, <3>1 DEF EnableWrite, Enabling
  <2>3. ASSUME NEW r \in Callers, RegenerateWrite(r) \/ Consume(r)
        PROVE  user'.on = user.on /\ user'.secret = user.secret /\ lateSave' = lateSave
    BY <1>0, <2>3 DEF RegenerateWrite, Consume, factorHistory, Doc
  <2>4. ASSUME NEW r \in Callers, SaveFormWrite(r), user'.on, ~lateSave'
        PROVE  user'.secret # 0
    <3>1. op[r].do = "save" /\ op[r] \in Saving /\ user' = [user EXCEPT !.on = op[r].on]
          /\ ~(user.secret # op[r].secret)
      BY <2>4, OpShape DEF SaveFormWrite
    <3>2. user'.on = op[r].on /\ user'.secret = user.secret
      BY <1>0, <3>1 DEF Doc, Saving
    <3> QED
      BY <2>4, <3>1, <3>2 DEF SecretKnown
  <2>5. ~Off.on
    BY DEF Off
  <2> QED
    BY <2>1, <2>2, <2>3, <2>4, <2>5, UserChange DEF SecretKnown, SecretIfOn
<1> QED
  BY <1>1, <1>2 DEF SecretKnown
-----------------------------------------------------------------------------

FactorInv == Typed /\ AttemptsStarted /\ LivesOn /\ TokenSpent /\ CodesFresh /\ SecretKnown

\* Nobody has a factor, a token or an attempt at first.
LEMMA FactorInitInv ==
  ASSUME FactorInit
  PROVE  FactorInv
<1>0. /\ \A r \in Callers : op[r] = Idle
      /\ \A t \in Tokens : comparedWith[t] = 0 /\ tokenTries[t] = 0
      /\ \A n \in Numbers : accepted[n] = 0
      /\ attempts = 0 /\ started = 0 /\ failed = 0
      /\ user \in {Off, Enrolled} /\ numbered = (IF user.on THEN 2 ELSE 0)
  BY DEF FactorInit
<1>1. Typed
  <2>1. user \in Doc /\ numbered \in Numbers /\ 0 \in Numbers
    <3>1. {0, 1, 2} \subseteq Numbers
      BY FactorAssumption DEF Numbers
    <3>2. Off \in Doc /\ Enrolled \in Doc
      BY <3>1 DEF Off, Enrolled, Doc
    <3>3. numbered \in {0, 2}
      BY <1>0
    <3> QED
      BY <1>0, <3>1, <3>2, <3>3
  <2>2. attempts \in Nat /\ started \in 0..MaxStarted /\ failed \in 0..MaxFailures
    BY <1>0, FactorAssumption
  <2>3. attemptsTtl \in BOOLEAN /\ lateSave \in BOOLEAN
    BY Zenon DEF FactorInit
  <2>4. /\ op \in [Callers -> Op] /\ accepted \in [Numbers -> Nat] /\ comparedWith \in [Tokens -> Nat]
        /\ token \in [Tokens -> {"unused", "live", "spent"}] /\ tokenTries \in [Tokens -> 0..MaxAttempts]
        /\ factorLock \in Callers \cup {Nobody} /\ pending \in Numbers
    BY <2>1, FactorAssumption DEF FactorInit, Op
  <2> QED
    BY <2>1, <2>2, <2>3, <2>4 DEF Typed
<1>2. \A S : InAt(S) = {}
  BY <1>0 DEF InAt, Idle
<1>3. \A t : Checking(t) = {}
  BY <1>0 DEF Checking, Of, Idle
<1>4. AttemptsStarted /\ LivesOn
  BY <1>0, <1>2, FS_EmptySet DEF AttemptsStarted, LivesOn, Uncounted, InWindow
<1>5. TokenSpent
  <2>1. \A t \in Tokens : Cardinality(Checking(t)) = 0
    BY <1>3, FS_EmptySet
  <2> QED
    BY <1>0, <2>1 DEF TokenSpent
<1>6. CodesFresh
  BY <1>0, <1>2, FactorAssumption DEF CodesFresh, Off, Enrolled, Numbers
<1>7. SecretKnown
  BY <1>0 DEF SecretKnown, SecretIfOn, Off, Enrolled, Idle
<1> QED
  BY <1>1, <1>4, <1>5, <1>6, <1>7 DEF FactorInv

\* The invariant holds in every reachable state.
LEMMA FactorInvariant == FactorSpec => []FactorInv
<1>1. FactorInv /\ [FactorNext]_factorVars => FactorInv'
  BY TypedStep, AttemptsStep, LivesOnStep, TokenStep, CodesStep, SecretStep DEF FactorInv
<1> QED
  BY FactorInitInv, <1>1, PTL DEF FactorSpec

\* The variables have their types, and no more attempts are counted than
\* requests were started.
THEOREM FactorTypes == FactorSpec => []FactorTypeOK
<1>1. FactorInv => FactorTypeOK
  <2> SUFFICES ASSUME FactorInv
               PROVE  FactorTypeOK
    OBVIOUS
  <2>1. Uncounted \in SUBSET Callers
    BY DEF Uncounted, InAt
  <2>2. Cardinality(Uncounted) \in Nat
    BY <2>1, MoveCount
  <2>3. attempts \in 0..MaxStarted
    BY <2>2, FactorAssumption DEF FactorInv, Typed, AttemptsStarted
  <2> QED
    BY <2>3 DEF FactorInv, Typed, FactorTypeOK, Doc
<1> QED
  BY <1>1, FactorInvariant, PTL

\* Whatever races, expires or dies: no recovery code is accepted twice, no token
\* is compared with more codes than its limit and the requests that resolved it
\* before it burnt, and nobody has the factor on without a secret unless a form
\* was saved on a stale check.
THEOREM TriesSpent == FactorSpec => [](TriesAreSpent /\ SecretIfOn)
<1>1. FactorInv => TriesAreSpent /\ SecretIfOn
  <2> SUFFICES ASSUME FactorInv
               PROVE  TriesAreSpent /\ SecretIfOn
    OBVIOUS
  <2>1. RecoveryCodeOnce
    BY DEF FactorInv, CodesFresh, RecoveryCodeOnce
  <2>2. TokenTriesBounded
    <3> SUFFICES ASSUME NEW t \in Tokens
                 PROVE  comparedWith[t] <= MaxAttempts + Cardinality(Callers) - 1
      BY DEF TokenTriesBounded
    <3>1. comparedWith[t] \in Nat /\ tokenTries[t] \in 0..MaxAttempts /\ MaxAttempts \in Nat
      BY FactorAssumption DEF FactorInv, Typed
    <3>2. 1 <= Cardinality(Callers)
      <4>1. Cardinality(Callers) \in Nat /\ Cardinality(Callers) # 0
        BY FactorAssumption, FS_CardinalityType, FS_EmptySet
      <4> QED
        BY <4>1
    <3> QED
      BY <3>1, <3>2, TokenSets DEF FactorInv, TokenSpent
  <2> QED
    BY <2>1, <2>2 DEF TriesAreSpent, FactorInv, SecretKnown
<1> QED
  BY <1>1, FactorInvariant, PTL

\* The second factor keeps guesses out and its owner in: if fewer requests die
\* (or lose their lock) than the limit has attempts, no counter that refuses
\* everybody is left without a time to live.
THEOREM FactorSafe == MaxFailures < MaxAttempts => (FactorSpec => []FactorHolds)
<1> SUFFICES ASSUME MaxFailures < MaxAttempts
             PROVE  FactorSpec => []FactorHolds
  OBVIOUS
<1>1. FactorInv => FactorLockoutEnds
  <2> SUFFICES ASSUME FactorInv, attempts >= MaxAttempts, \A r \in Callers : op[r].do = "none"
               PROVE  attemptsTtl
    BY DEF FactorLockoutEnds
  <2>1. InWindow = {}
    BY DEF InWindow, InAt
  <2>2. Cardinality(InWindow) = 0
    BY <2>1, FS_EmptySet
  <2>3. attempts \in Nat /\ failed \in 0..MaxFailures
    BY DEF FactorInv, Typed
  <2> QED
    BY <2>2, <2>3, FactorAssumption DEF FactorInv, LivesOn
<1>2. FactorSpec => [](TriesAreSpent /\ SecretIfOn)
  BY TriesSpent
<1>3. FactorLockoutEnds /\ TriesAreSpent /\ SecretIfOn => FactorHolds
  BY DEF FactorHolds, NeverLockedOut
<1> QED
  BY <1>1, <1>2, <1>3, FactorInvariant, PTL

(***************************************************************************)
(* The secret with which the two services know each other                  *)
(***************************************************************************)

\* Steps of a task inside a lock, and of one that is to write the current secret.
Rotating == {"read", "keep", "set", "release"}
InBoot == {"bootRead", "bootSeed", "bootRelease", "lock"} \cup Rotating
Replacing == {"lock", "read", "keep", "set"}

\* What a handler goes through, by its kind.
KindsKeepTo ==
  \A t \in Tasks :
    /\ KindOf[t] = "boot" => pc[t] \in {"idle", "bootLock", "done"} \cup (InBoot \ {"keep"})
    /\ KindOf[t] = "cron" => pc[t] \in {"idle", "lock"} \cup Rotating
    /\ KindOf[t] = "revoke" => pc[t] \in {"idle", "compare", "readPrevious", "lock", "forget", "done"} \cup Rotating

\* Each of the two locks is held by the one task between its two commands.
LocksHeld ==
  /\ \A t \in Tasks : pc[t] \in Rotating <=> rotationLock = t
  /\ \A t \in Tasks : KindOf[t] = "boot" /\ pc[t] \in InBoot <=> bootLock = t
  /\ rotationLock = "dead" => crashes > 0
  /\ \A t \in due : KindOf[t] = "cron"

\* Before there is a secret, nobody but a booting replica does anything.
NoSecretYet ==
  /\ current = Nothing =>
       /\ previous = Nothing /\ replaced = Nothing /\ condemned = {} /\ due = {}
       /\ \A t \in Tasks : KindOf[t] # "boot" => pc[t] = "idle"
  /\ \A t \in Tasks : KindOf[t] = "boot" /\ pc[t] \in {"bootSeed"} \cup Replacing => current = Nothing

\* A new secret is one that there never was.
Numbered ==
  /\ {current, previous, replaced} \subseteq 0..issued \cup {Nothing}
  /\ condemned \subseteq 0..issued
  /\ current = 0 => previous \in {Nothing, 0}
  /\ revokedAge <= day

\* A rotation keeps what it will replace, until somebody revokes.
RotationKeeps ==
  /\ \A t \in Tasks : pc[t] = "keep" => saw[t] = current /\ current # Nothing
  /\ condemned = {} => \A t \in Tasks : pc[t] = "set" /\ current # Nothing => previous = current
  /\ condemned = {} /\ replaced # Nothing => previous = replaced

\* A revocation deletes the previous secret only when the revoked one is no longer the current one.
RevocationsReplace ==
  \A t \in Tasks : KindOf[t] = "revoke" /\ pc[t] \notin {"idle", "done"} =>
    /\ target[t] \in condemned
    /\ pc[t] = "readPrevious" /\ saw[t] # target[t] => current # target[t]
    /\ pc[t] \in {"release", "forget"} => current # target[t] \/ crashes > 0

\* Who will certainly write a new current secret, or keep the one there is, unless its process dies.
WillReplace(t) ==
  \/ KindOf[t] = "cron" /\ (t \in due \/ pc[t] \in Replacing)
  \/ KindOf[t] = "revoke" /\ target[t] = current /\ pc[t] \in {"compare", "readPrevious"} \cup Replacing
WillKeep(t) == KindOf[t] = "cron" /\ (t \in due \/ pc[t] \in {"lock", "read", "keep"})

\* A revoked secret is the current one for no more nights than processes died, the previous one for one more.
CondemnedLeave ==
  /\ {current, previous} \cap condemned \subseteq revoked
  /\ current \in condemned =>
       /\ crashes >= revokedAge
       /\ crashes > revokedAge \/ (rotationLock # "dead" /\ \E t \in Tasks : WillReplace(t))
  /\ previous \in condemned =>
       /\ crashes + 1 >= revokedAge
       /\ crashes >= revokedAge \/ (rotationLock # "dead" /\ \E t \in Tasks : WillKeep(t))

\* What a validation has read so far.
CheckType ==
  check \in [at : {"idle", "current", "previous"}, secret : Secrets \cup {Nothing}, blind : BOOLEAN,
            current : Secrets \cup {Nothing}, known : BOOLEAN, late : BOOLEAN, held : BOOLEAN]

\* What it has read is still so, or was while it ran.
CheckSees ==
  /\ CheckType
  /\ check.at # "idle" => check.secret \in 0..issued
  /\ check.at # "idle" /\ check.late /\ ~check.blind =>
       check.secret \in condemned \ {current, previous}
  /\ check.at = "previous" /\ check.late /\ ~check.blind => check.current \notin {check.secret, Nothing}
  /\ check.at = "previous" =>
       /\ check.current # Nothing => current # Nothing
       /\ check.current = check.secret \/ (check.current = Nothing /\ check.secret = 0) => check.held
       /\ current = check.secret => check.current = check.secret \/ (check.current = Nothing /\ check.secret = 0)

\* The inductive invariant.
SecretInv ==
  /\ SecretTypeOK /\ KindsKeepTo /\ LocksHeld /\ NoSecretYet /\ Numbered /\ RotationKeeps /\ RevocationsReplace
  /\ CondemnedLeave /\ CheckSees

\* A secret is never taken for nothing.
LEMMA NothingIsNoSecret == Nothing \notin Secrets
BY RotationAssumption DEF Secrets

\* A replica boots: it has not read anything yet.
LEMMA BootKeeps ==
  ASSUME SecretInv, NEW t \in Tasks, Boot(t)
  PROVE  SecretInv'
<1>1. SecretTypeOK'
  BY DEF SecretInv, SecretTypeOK, Secrets, TaskSteps, Boot, Step, redisKeys, clock
<1>2. KindsKeepTo'
  BY DEF SecretInv, KindsKeepTo, InBoot, Rotating, Boot, Step
<1>3. LocksHeld'
  BY DEF SecretInv, LocksHeld, InBoot, Rotating, Boot, Step, clock
<1>4. NoSecretYet'
  BY DEF SecretInv, NoSecretYet, Replacing, Boot, Step, redisKeys, clock
<1>5. Numbered'
  BY DEF SecretInv, Numbered, Boot, Step, redisKeys, clock
<1>6. RotationKeeps'
  BY DEF SecretInv, RotationKeeps, Boot, Step, redisKeys
<1>7. RevocationsReplace'
  BY DEF SecretInv, RevocationsReplace, Boot, Step, redisKeys
<1>8. CondemnedLeave'
  BY DEF SecretInv, CondemnedLeave, WillReplace, WillKeep, Replacing, Boot, Step, redisKeys, clock
<1>9. CheckSees'
  BY RotationAssumption DEF SecretInv, CheckSees, CheckType, Boot, Step, redisKeys, clock
<1> QED
  BY <1>1, <1>2, <1>3, <1>4, <1>5, <1>6, <1>7, <1>8, <1>9 DEF SecretInv

\* It takes the lock that one booting replica holds at a time.
LEMMA BootLockKeeps ==
  ASSUME SecretInv, NEW t \in Tasks, BootLock(t)
  PROVE  SecretInv'
<1>1. SecretTypeOK'
  BY DEF SecretInv, SecretTypeOK, Secrets, TaskSteps, BootLock, Step, redisKeys, clock
<1>2. KindsKeepTo'
  BY DEF SecretInv, SecretTypeOK, KindsKeepTo, InBoot, Rotating, BootLock, Step
<1>3. LocksHeld'
  BY RotationAssumption DEF SecretInv, SecretTypeOK, KindsKeepTo, InBoot, Rotating, LocksHeld, BootLock, Step,
     clock
<1>4. NoSecretYet'
  BY DEF SecretInv, SecretTypeOK, NoSecretYet, Replacing, BootLock, Step, redisKeys, clock
<1>5. Numbered'
  BY DEF SecretInv, Numbered, BootLock, Step, redisKeys, clock
<1>6. RotationKeeps'
  BY DEF SecretInv, SecretTypeOK, RotationKeeps, BootLock, Step, redisKeys
<1>7. RevocationsReplace'
  BY DEF SecretInv, SecretTypeOK, RevocationsReplace, BootLock, Step, redisKeys
<1>8. CondemnedLeave'
  BY DEF SecretInv, SecretTypeOK, CondemnedLeave, WillReplace, WillKeep, Replacing, BootLock, Step, redisKeys,
     clock
<1>9. CheckSees'
  BY RotationAssumption DEF SecretInv, CheckSees, CheckType, BootLock, Step, redisKeys, clock
<1> QED
  BY <1>1, <1>2, <1>3, <1>4, <1>5, <1>6, <1>7, <1>8, <1>9 DEF SecretInv

\* It goes on to seed only when there is no current secret.
LEMMA BootReadKeeps ==
  ASSUME SecretInv, NEW t \in Tasks, BootRead(t)
  PROVE  SecretInv'
<1>1. SecretTypeOK'
  BY DEF SecretInv, SecretTypeOK, Secrets, TaskSteps, BootRead, Step, redisKeys, clock
<1>2. KindsKeepTo'
  BY DEF SecretInv, SecretTypeOK, KindsKeepTo, InBoot, Rotating, BootRead, Step
<1>3. LocksHeld'
  BY DEF SecretInv, SecretTypeOK, LocksHeld, InBoot, Rotating, BootRead, Step, clock
<1>4. NoSecretYet'
  BY DEF SecretInv, SecretTypeOK, NoSecretYet, Replacing, BootRead, Step, redisKeys, clock
<1>5. Numbered'
  BY DEF SecretInv, Numbered, BootRead, Step, redisKeys, clock
<1>6. RotationKeeps'
  BY DEF SecretInv, SecretTypeOK, RotationKeeps, BootRead, Step, redisKeys
<1>7. RevocationsReplace'
  BY DEF SecretInv, SecretTypeOK, RevocationsReplace, BootRead, Step, redisKeys
<1>8. CondemnedLeave'
  BY DEF SecretInv, SecretTypeOK, CondemnedLeave, WillReplace, WillKeep, Replacing, BootRead, Step, redisKeys,
     clock
<1>9. CheckSees'
  BY RotationAssumption DEF SecretInv, CheckSees, CheckType, BootRead, Step, redisKeys, clock
<1> QED
  BY <1>1, <1>2, <1>3, <1>4, <1>5, <1>6, <1>7, <1>8, <1>9 DEF SecretInv

\* It writes the secret of the environment, and nobody but it can have written one.
LEMMA BootSeedKeeps ==
  ASSUME SecretInv, NEW t \in Tasks, BootSeed(t)
  PROVE  SecretInv'
<1>1. SecretTypeOK'
  BY RotationAssumption DEF SecretInv, SecretTypeOK, Secrets, TaskSteps, BootSeed, Step, clock
<1>2. KindsKeepTo'
  BY DEF SecretInv, KindsKeepTo, InBoot, Rotating, BootSeed, Step
<1>3. LocksHeld'
  BY DEF SecretInv, LocksHeld, InBoot, Rotating, BootSeed, Step, clock
<1>4. NoSecretYet'
  BY RotationAssumption DEF SecretInv, SecretTypeOK, LocksHeld, InBoot, Rotating, NoSecretYet, Replacing,
     BootSeed, Step
<1>5. Numbered'
  <2>1. current = Nothing /\ previous = Nothing /\ condemned = {} /\ issued \in Nat
    <3>1. issued \in Nat
      BY RotationAssumption DEF SecretInv, SecretTypeOK, Secrets
    <3>2. KindOf[t] = "boot"
      BY RotationAssumption DEF SecretInv, KindsKeepTo, InBoot, Rotating, BootSeed, Step
    <3> QED
      BY <3>1, <3>2 DEF SecretInv, NoSecretYet, BootSeed, Step
  <2> QED
    BY <2>1, RotationAssumption DEF SecretInv, Numbered, BootSeed, clock
<1>6. RotationKeeps'
  BY RotationAssumption DEF SecretInv, KindsKeepTo, Rotating, LocksHeld, NoSecretYet, RotationKeeps, BootSeed,
     Step
<1>7. RevocationsReplace'
  <2>1. current = Nothing /\ \A x \in Tasks : KindOf[x] = "revoke" => x # t /\ pc[x] = "idle"
    BY RotationAssumption DEF SecretInv, KindsKeepTo, NoSecretYet, InBoot, Rotating, BootSeed, Step
  <2>2. \A x \in Tasks \ {t} : pc'[x] = pc[x]
    BY DEF SecretInv, SecretTypeOK, BootSeed, Step
  <2> QED
    BY <2>1, <2>2 DEF RevocationsReplace
<1>8. CondemnedLeave'
  BY RotationAssumption DEF SecretInv, KindsKeepTo, Rotating, NoSecretYet, Replacing, CondemnedLeave,
     WillReplace, WillKeep, BootSeed, Step
<1>9. CheckSees'
  BY RotationAssumption, ZenonT(40) DEF SecretInv, SecretTypeOK, Secrets, TaskSteps, KindsKeepTo, InBoot, Rotating,
     LocksHeld, NoSecretYet, Replacing, CheckSees, CheckType, BootSeed, Step, redisKeys, clock
<1> QED
  BY <1>1, <1>2, <1>3, <1>4, <1>5, <1>6, <1>7, <1>8, <1>9 DEF SecretInv

\* It leaves the lock, its own or one that has expired.
LEMMA BootReleaseKeeps ==
  ASSUME SecretInv, NEW t \in Tasks, BootRelease(t)
  PROVE  SecretInv'
<1>1. SecretTypeOK'
  BY DEF SecretInv, SecretTypeOK, Secrets, TaskSteps, BootRelease, Step, Freed, redisKeys, clock
<1>2. KindsKeepTo'
  BY DEF SecretInv, KindsKeepTo, InBoot, Rotating, BootRelease, Step
<1>3. LocksHeld'
  BY RotationAssumption DEF SecretInv, SecretTypeOK, LocksHeld, InBoot, Rotating, BootRelease, Step, Freed,
     clock
<1>4. NoSecretYet'
  BY DEF SecretInv, NoSecretYet, Replacing, BootRelease, Step, redisKeys, clock
<1>5. Numbered'
  BY DEF SecretInv, Numbered, BootRelease, Step, redisKeys, clock
<1>6. RotationKeeps'
  BY DEF SecretInv, RotationKeeps, BootRelease, Step, redisKeys
<1>7. RevocationsReplace'
  BY DEF SecretInv, RevocationsReplace, BootRelease, Step, redisKeys
<1>8. CondemnedLeave'
  BY DEF SecretInv, CondemnedLeave, WillReplace, WillKeep, Replacing, BootRelease, Step, redisKeys, clock
<1>9. CheckSees'
  BY RotationAssumption DEF SecretInv, CheckSees, CheckType, BootRelease, Step, Freed, redisKeys, clock
<1> QED
  BY <1>1, <1>2, <1>3, <1>4, <1>5, <1>6, <1>7, <1>8, <1>9 DEF SecretInv

\* A rotation that was due is still going to happen.
LEMMA CronFiresKeeps ==
  ASSUME SecretInv, NEW t \in Tasks, CronFires(t)
  PROVE  SecretInv'
<1>1. SecretTypeOK'
  BY DEF SecretInv, SecretTypeOK, Secrets, TaskSteps, CronFires, Step, redisKeys
<1>2. KindsKeepTo'
  BY DEF SecretInv, KindsKeepTo, InBoot, Rotating, CronFires, Step
<1>3. LocksHeld'
  BY DEF SecretInv, LocksHeld, InBoot, Rotating, CronFires, Step
<1>4. NoSecretYet'
  BY DEF SecretInv, LocksHeld, NoSecretYet, Replacing, CronFires, Step, redisKeys
<1>5. Numbered'
  BY DEF SecretInv, Numbered, CronFires, Step, redisKeys
<1>6. RotationKeeps'
  BY DEF SecretInv, RotationKeeps, CronFires, Step, redisKeys
<1>7. RevocationsReplace'
  BY DEF SecretInv, LocksHeld, RevocationsReplace, CronFires, Step, redisKeys
<1>8. CondemnedLeave'
  BY DEF SecretInv, SecretTypeOK, CondemnedLeave, WillReplace, WillKeep, Replacing, CronFires, Step, redisKeys
<1>9. CheckSees'
  BY RotationAssumption DEF SecretInv, CheckSees, CheckType, CronFires, Step, redisKeys, clock
<1> QED
  BY <1>1, <1>2, <1>3, <1>4, <1>5, <1>6, <1>7, <1>8, <1>9 DEF SecretInv

\* A rotation waits for the lock or takes it.
LEMMA RotateLockKeeps ==
  ASSUME SecretInv, NEW t \in Tasks, RotateLock(t)
  PROVE  SecretInv'
<1>1. SecretTypeOK'
  BY RotationAssumption DEF SecretInv, SecretTypeOK, Secrets, TaskSteps, RotateLock, Step, Caller, redisKeys,
     clock
<1>2. KindsKeepTo'
  BY DEF SecretInv, SecretTypeOK, KindsKeepTo, InBoot, Rotating, RotateLock, Step, Caller
<1>3. LocksHeld'
  BY RotationAssumption DEF SecretInv, SecretTypeOK, LocksHeld, InBoot, Rotating, RotateLock, Step, Caller,
     clock
<1>4. NoSecretYet'
  BY DEF SecretInv, SecretTypeOK, NoSecretYet, Replacing, RotateLock, Step, redisKeys, clock
<1>5. Numbered'
  BY DEF SecretInv, Numbered, RotateLock, Step, redisKeys, clock
<1>6. RotationKeeps'
  BY RotationAssumption DEF SecretInv, SecretTypeOK, RotationKeeps, RotateLock, Step, Caller, redisKeys
<1>7. RevocationsReplace'
  BY DEF SecretInv, SecretTypeOK, LocksHeld, RevocationsReplace, RotateLock, Step, Caller, redisKeys
<1>8. CondemnedLeave'
  BY RotationAssumption DEF SecretInv, SecretTypeOK, CondemnedLeave, WillReplace, WillKeep, Replacing,
     RotateLock, Step, redisKeys, clock
<1>9. CheckSees'
  BY RotationAssumption DEF SecretInv, CheckSees, CheckType, RotateLock, Step, Caller, redisKeys, clock
<1> QED
  BY <1>1, <1>2, <1>3, <1>4, <1>5, <1>6, <1>7, <1>8, <1>9 DEF SecretInv

\* A rotation reads the current secret under the lock, so it stays the current one.
LEMMA RotateReadKeeps ==
  ASSUME SecretInv, NEW t \in Tasks, RotateRead(t)
  PROVE  SecretInv'
<1>1. SecretTypeOK'
  BY DEF SecretInv, SecretTypeOK, Secrets, TaskSteps, RotateRead, Step, redisKeys, clock
<1>2. KindsKeepTo'
  BY DEF SecretInv, KindsKeepTo, InBoot, Rotating, NoSecretYet, Replacing, RotateRead, Step
<1>3. LocksHeld'
  BY DEF SecretInv, LocksHeld, InBoot, Rotating, RotateRead, Step, clock
<1>4. NoSecretYet'
  BY DEF SecretInv, NoSecretYet, Replacing, RotateRead, Step, redisKeys, clock
<1>5. Numbered'
  BY DEF SecretInv, Numbered, RotateRead, Step, redisKeys, clock
<1>6. RotationKeeps'
  BY DEF SecretInv, SecretTypeOK, RotationKeeps, RotateRead, Step, redisKeys
<1>7. RevocationsReplace'
  BY DEF SecretInv, RevocationsReplace, RotateRead, Step, redisKeys
<1>8. CondemnedLeave'
  BY DEF SecretInv, NoSecretYet, Replacing, CondemnedLeave, WillReplace, WillKeep, RotateRead, Step, redisKeys,
     clock
<1>9. CheckSees'
  BY RotationAssumption DEF SecretInv, CheckSees, CheckType, RotateRead, Step, redisKeys, clock
<1> QED
  BY <1>1, <1>2, <1>3, <1>4, <1>5, <1>6, <1>7, <1>8, <1>9 DEF SecretInv

\* It keeps what it read as the previous secret: a revoked one for one night more.
LEMMA RotateKeepKeeps ==
  ASSUME SecretInv, NEW t \in Tasks, RotateKeep(t)
  PROVE  SecretInv'
<1>1. SecretTypeOK'
  BY RotationAssumption DEF SecretInv, SecretTypeOK, Secrets, TaskSteps, RotateKeep, Step, clock
<1>2. KindsKeepTo'
  BY DEF SecretInv, KindsKeepTo, InBoot, Rotating, RotateKeep, Step
<1>3. LocksHeld'
  BY DEF SecretInv, LocksHeld, InBoot, Rotating, RotateKeep, Step, clock
<1>4. NoSecretYet'
  BY DEF SecretInv, KindsKeepTo, NoSecretYet, Replacing, RotateKeep, Step
<1>5. Numbered'
  BY RotationAssumption DEF SecretInv, SecretTypeOK, Secrets, TaskSteps, NoSecretYet, Replacing, Numbered,
     RotationKeeps, RotateKeep, Step, redisKeys, clock
<1>6. RotationKeeps'
  BY DEF SecretInv, RotationKeeps, RotateKeep, Step
<1>7. RevocationsReplace'
  BY DEF SecretInv, RevocationsReplace, RotateKeep, Step
<1>8. CondemnedLeave'
  BY RotationAssumption DEF SecretInv, SecretTypeOK, Secrets, TaskSteps, NoSecretYet, Replacing, RotationKeeps,
     Numbered, CondemnedLeave, WillReplace, WillKeep, RotateKeep, Step, redisKeys, clock
<1>9. CheckSees'
  BY RotationAssumption DEF SecretInv, SecretTypeOK, Secrets, TaskSteps, NoSecretYet, Replacing, RotationKeeps,
     Numbered, CheckSees, CheckType, RotateKeep, Step, redisKeys, clock
<1> QED
  BY <1>1, <1>2, <1>3, <1>4, <1>5, <1>6, <1>7, <1>8, <1>9 DEF SecretInv

\* It writes a secret that there never was: the revoked one is no longer the current one.
LEMMA RotateSetKeeps ==
  ASSUME SecretInv, NEW t \in Tasks, RotateSet(t)
  PROVE  SecretInv'
<1>1. SecretTypeOK'
  BY RotationAssumption DEF SecretInv, SecretTypeOK, Secrets, TaskSteps, RotateSet, Step, clock
<1>2. KindsKeepTo'
  BY DEF SecretInv, KindsKeepTo, InBoot, Rotating, RotateSet, Step
<1>3. LocksHeld'
  BY DEF SecretInv, LocksHeld, InBoot, Rotating, RotateSet, Step, clock
<1>4. NoSecretYet'
  BY RotationAssumption DEF SecretInv, SecretTypeOK, Secrets, LocksHeld, InBoot, Rotating, NoSecretYet,
     Replacing, RotateSet, Step
<1>5. Numbered'
  BY DEF SecretInv, SecretTypeOK, Secrets, Numbered, RotateSet, Step, clock
<1>6. RotationKeeps'
  BY DEF SecretInv, SecretTypeOK, LocksHeld, Rotating, RotationKeeps, RotateSet, Step
<1>7. RevocationsReplace'
  BY DEF SecretInv, SecretTypeOK, Numbered, RevocationsReplace, RotateSet, Step
<1>8. CondemnedLeave'
  BY DEF SecretInv, SecretTypeOK, Numbered, Replacing, CondemnedLeave, WillReplace, WillKeep, RotateSet, Step,
     clock
<1>9. CheckSees'
  BY RotationAssumption DEF SecretInv, SecretTypeOK, Secrets, TaskSteps, CheckSees, CheckType, RotateSet, Step,
     redisKeys, clock
<1> QED
  BY <1>1, <1>2, <1>3, <1>4, <1>5, <1>6, <1>7, <1>8, <1>9 DEF SecretInv

\* It leaves the lock; the secret it was to replace is replaced.
LEMMA RotateReleaseKeeps ==
  ASSUME SecretInv, NEW t \in Tasks, RotateRelease(t)
  PROVE  SecretInv'
<1>1. SecretTypeOK'
  BY RotationAssumption DEF SecretInv, SecretTypeOK, Secrets, TaskSteps, RotateRelease, Step, Caller, Freed,
     redisKeys, clock
<1>2. KindsKeepTo'
  BY DEF SecretInv, KindsKeepTo, InBoot, Rotating, RotateRelease, Step, Caller
<1>3. LocksHeld'
  BY RotationAssumption DEF SecretInv, SecretTypeOK, LocksHeld, InBoot, Rotating, RotateRelease, Step, Caller,
     Freed, clock
<1>4. NoSecretYet'
  BY DEF SecretInv, NoSecretYet, Replacing, RotateRelease, Step, Caller, redisKeys, clock
<1>5. Numbered'
  BY DEF SecretInv, Numbered, RotateRelease, Step, redisKeys, clock
<1>6. RotationKeeps'
  BY RotationAssumption DEF SecretInv, RotationKeeps, RotateRelease, Step, Caller, redisKeys
<1>7. RevocationsReplace'
  BY DEF SecretInv, RevocationsReplace, RotateRelease, Step, Caller, redisKeys
<1>8. CondemnedLeave'
  BY RotationAssumption DEF SecretInv, CondemnedLeave, WillReplace, WillKeep, Replacing, RotateRelease, Step,
     Freed, redisKeys, clock
<1>9. CheckSees'
  BY RotationAssumption DEF SecretInv, CheckSees, CheckType, RotateRelease, Step, Caller, Freed, redisKeys,
     clock
<1> QED
  BY <1>1, <1>2, <1>3, <1>4, <1>5, <1>6, <1>7, <1>8, <1>9 DEF SecretInv

\* A revocation of the current secret will replace it, any other reads the previous one.
LEMMA RevokeReadCurrentKeeps ==
  ASSUME SecretInv, NEW t \in Tasks, RevokeReadCurrent(t)
  PROVE  SecretInv'
<1>1. SecretTypeOK'
  BY DEF SecretInv, SecretTypeOK, Secrets, TaskSteps, RevokeReadCurrent, Step, redisKeys, clock
<1>2. KindsKeepTo'
  BY DEF SecretInv, KindsKeepTo, InBoot, Rotating, RevokeReadCurrent, Step
<1>3. LocksHeld'
  BY DEF SecretInv, LocksHeld, InBoot, Rotating, RevokeReadCurrent, Step, clock
<1>4. NoSecretYet'
  BY DEF SecretInv, NoSecretYet, Replacing, RevokeReadCurrent, Step, redisKeys, clock
<1>5. Numbered'
  BY DEF SecretInv, Numbered, RevokeReadCurrent, Step, redisKeys, clock
<1>6. RotationKeeps'
  BY DEF SecretInv, RotationKeeps, RevokeReadCurrent, Step, redisKeys
<1>7. RevocationsReplace'
  BY DEF SecretInv, SecretTypeOK, RevocationsReplace, RevokeReadCurrent, Step, redisKeys
<1>8. CondemnedLeave'
  BY DEF SecretInv, CondemnedLeave, WillReplace, WillKeep, Replacing, RevokeReadCurrent, Step, redisKeys, clock
<1>9. CheckSees'
  BY RotationAssumption DEF SecretInv, CheckSees, CheckType, RevokeReadCurrent, Step, redisKeys, clock
<1> QED
  BY <1>1, <1>2, <1>3, <1>4, <1>5, <1>6, <1>7, <1>8, <1>9 DEF SecretInv

\* A revocation deletes the previous secret only when it is the revoked one, which is not the current one then.
LEMMA RevokeReadPreviousKeeps ==
  ASSUME SecretInv, NEW t \in Tasks, RevokeReadPrevious(t)
  PROVE  SecretInv'
<1>1. SecretTypeOK'
  BY DEF SecretInv, SecretTypeOK, Secrets, TaskSteps, RevokeReadPrevious, Step, redisKeys, clock
<1>2. KindsKeepTo'
  BY DEF SecretInv, KindsKeepTo, InBoot, Rotating, RevokeReadPrevious, Step
<1>3. LocksHeld'
  BY DEF SecretInv, KindsKeepTo, InBoot, Rotating, LocksHeld, RevokeReadPrevious, Step, clock
<1>4. NoSecretYet'
  BY DEF SecretInv, KindsKeepTo, InBoot, Rotating, NoSecretYet, Replacing, RevokeReadPrevious, Step, redisKeys
<1>5. Numbered'
  BY DEF SecretInv, Numbered, RevokeReadPrevious, Step, redisKeys, clock
<1>6. RotationKeeps'
  BY DEF SecretInv, RotationKeeps, RevokeReadPrevious, Step, redisKeys
<1>7. RevocationsReplace'
  BY DEF SecretInv, RevocationsReplace, RevokeReadPrevious, Step, redisKeys
<1>8. CondemnedLeave'
  BY DEF SecretInv, Replacing, RevocationsReplace, CondemnedLeave, WillReplace, WillKeep, RevokeReadPrevious,
     Step, redisKeys, clock
<1>9. CheckSees'
  BY RotationAssumption DEF SecretInv, CheckSees, CheckType, RevokeReadPrevious, Step, redisKeys, clock
<1> QED
  BY <1>1, <1>2, <1>3, <1>4, <1>5, <1>6, <1>7, <1>8, <1>9 DEF SecretInv

\* The previous secret is gone, so nothing there is revoked.
LEMMA RevokeForgetKeeps ==
  ASSUME SecretInv, NEW t \in Tasks, RevokeForget(t)
  PROVE  SecretInv'
<1>1. SecretTypeOK'
  BY DEF SecretInv, SecretTypeOK, Secrets, TaskSteps, RevokeForget, Step, Forget, clock
<1>2. KindsKeepTo'
  BY DEF SecretInv, KindsKeepTo, InBoot, Rotating, RevokeForget, Step
<1>3. LocksHeld'
  BY DEF SecretInv, LocksHeld, InBoot, Rotating, RevokeForget, Step, clock
<1>4. NoSecretYet'
  BY DEF SecretInv, NoSecretYet, Replacing, RevokeForget, Step, clock
<1>5. Numbered'
  BY DEF SecretInv, Numbered, RevokeForget, Step, clock
<1>6. RotationKeeps'
  <2>1. condemned # {} /\ condemned' = condemned
    BY RotationAssumption DEF SecretInv, KindsKeepTo, RevocationsReplace, InBoot, Rotating, RevokeForget, Step
  <2>2. /\ pc'[t] = "done" /\ current' = current
        /\ \A x \in Tasks \ {t} : pc'[x] = pc[x] /\ saw'[x] = saw[x]
    BY DEF SecretInv, SecretTypeOK, RevokeForget, Step, Forget
  <2> QED
    BY <2>1, <2>2 DEF SecretInv, RotationKeeps
<1>7. RevocationsReplace'
  BY DEF SecretInv, SecretTypeOK, RevocationsReplace, RevokeForget, Step, Forget
<1>8. CondemnedLeave'
  <2>1. /\ current' = current /\ previous' \in {Nothing, previous} /\ rotationLock' = rotationLock /\ due' = due
        /\ revoked' = revoked /\ condemned' = condemned /\ revokedAge' = revokedAge /\ crashes' = crashes
        /\ pc[t] = "forget" /\ KindOf[t] = "revoke"
        /\ \A x \in Tasks \ {t} : pc'[x] = pc[x] /\ target'[x] = target[x]
    BY RotationAssumption DEF SecretInv, SecretTypeOK, KindsKeepTo, InBoot, Rotating, RevokeForget, Step,
       Forget, clock
  <2>2. Nothing \notin condemned
    BY NothingIsNoSecret DEF SecretInv, SecretTypeOK
  <2>3. \A x \in Tasks : (WillReplace(x) => WillReplace(x)') /\ (WillKeep(x) => WillKeep(x)')
    BY <2>1 DEF SecretInv, SecretTypeOK, LocksHeld, WillReplace, WillKeep, Replacing
  <2> QED
    BY <2>1, <2>2, <2>3 DEF SecretInv, CondemnedLeave
<1>9. CheckSees'
  BY RotationAssumption DEF SecretInv, CheckSees, CheckType, RevokeForget, Step, Forget, redisKeys, clock
<1> QED
  BY <1>1, <1>2, <1>3, <1>4, <1>5, <1>6, <1>7, <1>8, <1>9 DEF SecretInv

\* A process that dies takes a promise to replace the secret with it, and is counted.
LEMMA TaskDiesKeeps ==
  ASSUME SecretInv, NEW t \in Tasks, TaskDies(t)
  PROVE  SecretInv'
<1>1. SecretTypeOK'
  BY RotationAssumption DEF SecretInv, SecretTypeOK, Secrets, TaskSteps, TaskDies, Step, Forget, redisKeys,
     clock
<1>2. KindsKeepTo'
  BY DEF SecretInv, KindsKeepTo, InBoot, Rotating, TaskDies, Step
<1>3. LocksHeld'
  BY RotationAssumption DEF SecretInv, SecretTypeOK, LocksHeld, InBoot, Rotating, TaskDies, Step, clock
<1>4. NoSecretYet'
  BY DEF SecretInv, NoSecretYet, Replacing, TaskDies, Step, redisKeys, clock
<1>5. Numbered'
  BY DEF SecretInv, Numbered, TaskDies, Step, redisKeys, clock
<1>6. RotationKeeps'
  BY DEF SecretInv, SecretTypeOK, RotationKeeps, TaskDies, Step, Forget, redisKeys
<1>7. RevocationsReplace'
  BY DEF SecretInv, SecretTypeOK, RevocationsReplace, TaskDies, Step, Forget, redisKeys
<1>8. CondemnedLeave'
  BY DEF SecretInv, SecretTypeOK, CondemnedLeave, WillReplace, WillKeep, Replacing, TaskDies, Step, redisKeys
<1>9. CheckSees'
  BY RotationAssumption DEF SecretInv, CheckSees, CheckType, TaskDies, Step, Forget, redisKeys, clock
<1> QED
  BY <1>1, <1>2, <1>3, <1>4, <1>5, <1>6, <1>7, <1>8, <1>9 DEF SecretInv

\* The secret that is revoked is in the set before anything else happens.
LEMMA RevokeKeeps ==
  ASSUME SecretInv, NEW t \in Tasks, NEW s \in {current, previous} \ {Nothing}, Revoke(t, s)
  PROVE  SecretInv'
<1>1. SecretTypeOK'
  BY RotationAssumption DEF SecretInv, SecretTypeOK, Secrets, TaskSteps, Revoke, Step, clock
<1>2. KindsKeepTo'
  BY DEF SecretInv, KindsKeepTo, InBoot, Rotating, Revoke, Step
<1>3. LocksHeld'
  BY DEF SecretInv, LocksHeld, InBoot, Rotating, Revoke, Step, clock
<1>4. NoSecretYet'
  BY DEF SecretInv, NoSecretYet, Replacing, Revoke, Step
<1>5. Numbered'
  BY RotationAssumption DEF SecretInv, Numbered, SecretTypeOK, Secrets, TaskSteps, Revoke, Step, redisKeys,
     clock
<1>6. RotationKeeps'
  BY DEF SecretInv, RotationKeeps, Revoke, Step
<1>7. RevocationsReplace'
  BY DEF SecretInv, SecretTypeOK, RevocationsReplace, Revoke, Step
<1>8. CondemnedLeave'
  BY DEF SecretInv, SecretTypeOK, LocksHeld, CondemnedLeave, WillReplace, WillKeep, Replacing, Revoke, Step,
     clock
<1>9. CheckSees'
  BY RotationAssumption DEF SecretInv, CheckSees, CheckType, Revoke, Step, redisKeys, clock
<1> QED
  BY <1>1, <1>2, <1>3, <1>4, <1>5, <1>6, <1>7, <1>8, <1>9 DEF SecretInv

\* Every replica is due to rotate, whatever the nights before did.
LEMMA MidnightKeeps ==
  ASSUME SecretInv, Midnight
  PROVE  SecretInv'
<1>1. SecretTypeOK'
  <2>1. /\ day \in 0..MaxDays /\ day < MaxDays /\ MaxDays \in Nat
        /\ revokedAge \in 0..MaxDays /\ revokedAge <= day
    BY RotationAssumption DEF SecretInv, SecretTypeOK, Numbered, Midnight
  <2>2. day' \in 0..MaxDays /\ graceAge' \in 0..MaxDays /\ revokedAge' \in 0..MaxDays
    BY <2>1 DEF Midnight
  <2> QED
    BY <2>2 DEF SecretInv, SecretTypeOK, Midnight
<1>2. KindsKeepTo'
  BY DEF SecretInv, KindsKeepTo, InBoot, Rotating, Midnight
<1>3. LocksHeld'
  BY DEF SecretInv, LocksHeld, InBoot, Rotating, Midnight
<1>4. NoSecretYet'
  BY DEF SecretInv, NoSecretYet, Replacing, Midnight
<1>5. Numbered'
  BY RotationAssumption DEF SecretInv, Numbered, SecretTypeOK, Secrets, TaskSteps, Midnight, redisKeys, clock
<1>6. RotationKeeps'
  BY DEF SecretInv, RotationKeeps, Midnight
<1>7. RevocationsReplace'
  BY DEF SecretInv, RevocationsReplace, Midnight
<1>8. CondemnedLeave'
  <2>1. /\ current' = current /\ previous' = previous /\ revoked' = revoked /\ condemned' = condemned
        /\ crashes' = crashes /\ rotationLock' = rotationLock /\ rotationLock = Nothing
        /\ revokedAge' = IF revoked = {} THEN 0 ELSE revokedAge + 1
    BY DEF Midnight
  <2>2. crashes \in Nat /\ revokedAge \in Nat /\ Nothing # "dead"
    BY RotationAssumption DEF SecretInv, SecretTypeOK
  <2>3. \A t \in Tasks : ~WillReplace(t) /\ ~WillKeep(t)
    BY DEF Midnight, WillReplace, WillKeep, Replacing
  <2>4. \E t \in Tasks : WillReplace(t)' /\ WillKeep(t)'
    BY RevocationLasts, RotationAssumption DEF Midnight, WillReplace, WillKeep
  <2> QED
    BY <2>1, <2>2, <2>3, <2>4 DEF SecretInv, CondemnedLeave
<1>9. CheckSees'
  BY RotationAssumption DEF SecretInv, CheckSees, CheckType, Midnight, redisKeys, clock
<1> QED
  BY <1>1, <1>2, <1>3, <1>4, <1>5, <1>6, <1>7, <1>8, <1>9 DEF SecretInv

\* The previous secret lapses only after the rotations of the night.
LEMMA ExpirePreviousKeeps ==
  ASSUME SecretInv, ExpirePrevious
  PROVE  SecretInv'
<1>1. SecretTypeOK'
  BY DEF SecretInv, SecretTypeOK, Secrets, TaskSteps, ExpirePrevious, RotatedTonight, clock
<1>2. KindsKeepTo'
  BY DEF SecretInv, KindsKeepTo, InBoot, Rotating, ExpirePrevious, RotatedTonight
<1>3. LocksHeld'
  BY DEF SecretInv, LocksHeld, InBoot, Rotating, ExpirePrevious, RotatedTonight, clock
<1>4. NoSecretYet'
  BY DEF SecretInv, NoSecretYet, Replacing, ExpirePrevious, RotatedTonight
<1>5. Numbered'
  BY DEF SecretInv, Numbered, ExpirePrevious, RotatedTonight, clock
<1>6. RotationKeeps'
  BY RotationAssumption DEF SecretInv, NoSecretYet, Replacing, RevocationsReplace, RotationKeeps,
     ExpirePrevious, RotatedTonight
<1>7. RevocationsReplace'
  BY DEF SecretInv, RevocationsReplace, ExpirePrevious, RotatedTonight
<1>8. CondemnedLeave'
  <2>1. previous' = Nothing /\ Nothing \notin condemned
    BY NothingIsNoSecret DEF SecretInv, SecretTypeOK, ExpirePrevious
  <2>2. \A t \in Tasks : WillReplace(t) => WillReplace(t)'
    BY DEF ExpirePrevious, WillReplace, Replacing, clock
  <2> QED
    BY <2>1, <2>2 DEF SecretInv, CondemnedLeave, ExpirePrevious
<1>9. CheckSees'
  BY RotationAssumption DEF SecretInv, CheckSees, CheckType, ExpirePrevious, RotatedTonight, redisKeys, clock
<1> QED
  BY <1>1, <1>2, <1>3, <1>4, <1>5, <1>6, <1>7, <1>8, <1>9 DEF SecretInv

\* The set lapses when no run is left that could have kept a revoked secret.
LEMMA ExpireRevokedKeeps ==
  ASSUME SecretInv, ExpireRevoked
  PROVE  SecretInv'
<1>1. SecretTypeOK'
  BY RotationAssumption DEF SecretInv, SecretTypeOK, Secrets, TaskSteps, ExpireRevoked, RotatedTonight, clock
<1>2. KindsKeepTo'
  BY DEF SecretInv, KindsKeepTo, InBoot, Rotating, ExpireRevoked, RotatedTonight
<1>3. LocksHeld'
  BY DEF SecretInv, LocksHeld, InBoot, Rotating, ExpireRevoked, RotatedTonight, clock
<1>4. NoSecretYet'
  BY DEF SecretInv, NoSecretYet, Replacing, ExpireRevoked, RotatedTonight, clock
<1>5. Numbered'
  BY RotationAssumption DEF SecretInv, Numbered, SecretTypeOK, Secrets, TaskSteps, ExpireRevoked,
     RotatedTonight, redisKeys, clock
<1>6. RotationKeeps'
  BY DEF SecretInv, RotationKeeps, ExpireRevoked, RotatedTonight
<1>7. RevocationsReplace'
  BY DEF SecretInv, RevocationsReplace, ExpireRevoked, RotatedTonight
<1>8. CondemnedLeave'
  <2>1. /\ crashes \in Nat /\ revokedAge \in Nat /\ MaxCrashes \in Nat /\ RevokedDays \in Nat
        /\ crashes <= MaxCrashes /\ RevokedDays <= revokedAge
    BY RotationAssumption DEF SecretInv, SecretTypeOK, ExpireRevoked
  <2>2. crashes < revokedAge
    BY <2>1, RevocationLasts
  <2>3. \A t \in Tasks : ~WillKeep(t)
    BY DEF ExpireRevoked, RotatedTonight, WillKeep
  <2>4. current \notin condemned /\ previous \notin condemned
    BY <2>1, <2>2, <2>3 DEF SecretInv, CondemnedLeave
  <2> QED
    BY <2>4 DEF CondemnedLeave, ExpireRevoked
<1>9. CheckSees'
  BY RotationAssumption DEF SecretInv, CheckSees, CheckType, ExpireRevoked, RotatedTonight, redisKeys, clock
<1> QED
  BY <1>1, <1>2, <1>3, <1>4, <1>5, <1>6, <1>7, <1>8, <1>9 DEF SecretInv

\* The lock of a dead process expires, and those that wait can take it.
LEMMA ExpireLocksKeeps ==
  ASSUME SecretInv, ExpireLocks
  PROVE  SecretInv'
<1>1. SecretTypeOK'
  BY DEF SecretInv, SecretTypeOK, Secrets, TaskSteps, ExpireLocks, Freed, redisKeys, clock
<1>2. KindsKeepTo'
  BY DEF SecretInv, KindsKeepTo, InBoot, Rotating, ExpireLocks
<1>3. LocksHeld'
  BY RotationAssumption DEF SecretInv, LocksHeld, InBoot, Rotating, ExpireLocks, Freed, clock
<1>4. NoSecretYet'
  BY DEF SecretInv, NoSecretYet, Replacing, ExpireLocks, redisKeys, clock
<1>5. Numbered'
  BY DEF SecretInv, Numbered, ExpireLocks, redisKeys, clock
<1>6. RotationKeeps'
  BY DEF SecretInv, RotationKeeps, ExpireLocks, redisKeys
<1>7. RevocationsReplace'
  BY DEF SecretInv, RevocationsReplace, ExpireLocks, redisKeys
<1>8. CondemnedLeave'
  BY DEF SecretInv, CondemnedLeave, WillReplace, WillKeep, Replacing, ExpireLocks, Freed, redisKeys, clock
<1>9. CheckSees'
  BY RotationAssumption DEF SecretInv, CheckSees, CheckType, ExpireLocks, Freed, redisKeys, clock
<1> QED
  BY <1>1, <1>2, <1>3, <1>4, <1>5, <1>6, <1>7, <1>8, <1>9 DEF SecretInv

\* A validation starts: what it may see late is in neither key.
LEMMA CheckRevokedKeeps ==
  ASSUME SecretInv, NEW s \in Tried, NEW fails \in BOOLEAN, CheckRevoked(s, fails)
  PROVE  SecretInv'
<1>1. SecretTypeOK'
  BY DEF SecretInv, SecretTypeOK, Secrets, TaskSteps, CheckRevoked, Tried, NoCheck, Held, Promised, redisKeys,
     clock
<1>2. KindsKeepTo'
  BY DEF SecretInv, KindsKeepTo, InBoot, Rotating, CheckRevoked, Tried, NoCheck, Held, Promised
<1>3. LocksHeld'
  BY DEF SecretInv, LocksHeld, InBoot, Rotating, CheckRevoked, Tried, NoCheck, Held, Promised, clock
<1>4. NoSecretYet'
  BY DEF SecretInv, NoSecretYet, Replacing, CheckRevoked, Tried, NoCheck, Held, Promised, redisKeys, clock
<1>5. Numbered'
  BY DEF SecretInv, Numbered, CheckRevoked, Tried, NoCheck, Held, Promised, redisKeys, clock
<1>6. RotationKeeps'
  BY DEF SecretInv, RotationKeeps, CheckRevoked, Tried, NoCheck, Held, Promised, redisKeys
<1>7. RevocationsReplace'
  BY DEF SecretInv, RevocationsReplace, CheckRevoked, Tried, NoCheck, Held, Promised, redisKeys
<1>8. CondemnedLeave'
  BY DEF SecretInv, CondemnedLeave, WillReplace, WillKeep, Replacing, CheckRevoked, Tried, NoCheck, Held,
     Promised, redisKeys, clock
<1>9. CheckSees'
  BY RotationAssumption DEF SecretInv, SecretTypeOK, Secrets, TaskSteps, KindsKeepTo, InBoot, Rotating,
     LocksHeld, NoSecretYet, Replacing, Numbered, RevocationsReplace, CondemnedLeave, WillReplace, WillKeep,
     CheckSees, CheckType, CheckRevoked, Tried, NoCheck, Held, Promised, redisKeys, clock
<1> QED
  BY <1>1, <1>2, <1>3, <1>4, <1>5, <1>6, <1>7, <1>8, <1>9 DEF SecretInv

\* It reads the current secret.
LEMMA CheckCurrentKeeps ==
  ASSUME SecretInv, CheckCurrent
  PROVE  SecretInv'
<1>1. SecretTypeOK'
  BY DEF SecretInv, SecretTypeOK, Secrets, TaskSteps, CheckCurrent, Held, redisKeys, clock
<1>2. KindsKeepTo'
  BY DEF SecretInv, KindsKeepTo, InBoot, Rotating, CheckCurrent, Held
<1>3. LocksHeld'
  BY DEF SecretInv, LocksHeld, InBoot, Rotating, CheckCurrent, Held, clock
<1>4. NoSecretYet'
  BY DEF SecretInv, NoSecretYet, Replacing, CheckCurrent, Held, redisKeys, clock
<1>5. Numbered'
  BY DEF SecretInv, Numbered, CheckCurrent, Held, redisKeys, clock
<1>6. RotationKeeps'
  BY DEF SecretInv, RotationKeeps, CheckCurrent, Held, redisKeys
<1>7. RevocationsReplace'
  BY DEF SecretInv, RevocationsReplace, CheckCurrent, Held, redisKeys
<1>8. CondemnedLeave'
  BY DEF SecretInv, CondemnedLeave, WillReplace, WillKeep, Replacing, CheckCurrent, Held, redisKeys, clock
<1>9. CheckSees'
  <2> DEFINE secret == check.secret
             held == check.held \/ Held(secret)
  <2>1. check' = [at |-> "previous", secret |-> secret, blind |-> check.blind, current |-> current,
                  known |-> check.known, late |-> check.late, held |-> held]
    BY DEF SecretInv, CheckSees, CheckType, CheckCurrent
  <2>2. /\ held \in BOOLEAN /\ current \in Secrets \cup {Nothing} /\ secret \in 0..issued
        /\ current' = current /\ previous' = previous /\ issued' = issued /\ condemned' = condemned
    BY DEF SecretInv, SecretTypeOK, CheckSees, CheckType, CheckCurrent, Held, redisKeys
  <2>3. CheckType'
    BY <2>1, <2>2 DEF SecretInv, CheckSees, CheckType
  <2>4. current = secret \/ (current = Nothing /\ secret = 0) => held
    BY RotationAssumption, <2>2 DEF SecretInv, NoSecretYet, Held
  <2>5. check.late /\ ~check.blind => secret \in condemned \ {current, previous} /\ current # Nothing
    BY DEF SecretInv, CheckSees, NoSecretYet, CheckCurrent
  <2> HIDE DEF held
  <2> QED
    BY <2>1, <2>2, <2>3, <2>4, <2>5 DEF CheckSees
<1> QED
  BY <1>1, <1>2, <1>3, <1>4, <1>5, <1>6, <1>7, <1>8, <1>9 DEF SecretInv

\* It reads the previous secret and decides.
LEMMA CheckPreviousKeeps ==
  ASSUME SecretInv, CheckPrevious
  PROVE  SecretInv'
<1>1. SecretTypeOK'
  BY DEF SecretInv, SecretTypeOK, Secrets, TaskSteps, CheckPrevious, NoCheck, Accepts, Refuses, redisKeys, clock
<1>2. KindsKeepTo'
  BY DEF SecretInv, KindsKeepTo, InBoot, Rotating, CheckPrevious, NoCheck, Accepts, Refuses
<1>3. LocksHeld'
  BY DEF SecretInv, LocksHeld, InBoot, Rotating, CheckPrevious, NoCheck, Accepts, Refuses, clock
<1>4. NoSecretYet'
  BY DEF SecretInv, NoSecretYet, Replacing, CheckPrevious, NoCheck, Accepts, Refuses, redisKeys, clock
<1>5. Numbered'
  BY DEF SecretInv, Numbered, CheckPrevious, NoCheck, Accepts, Refuses, redisKeys, clock
<1>6. RotationKeeps'
  BY DEF SecretInv, RotationKeeps, CheckPrevious, NoCheck, Accepts, Refuses, redisKeys
<1>7. RevocationsReplace'
  BY DEF SecretInv, RevocationsReplace, CheckPrevious, NoCheck, Accepts, Refuses, redisKeys
<1>8. CondemnedLeave'
  BY DEF SecretInv, CondemnedLeave, WillReplace, WillKeep, Replacing, CheckPrevious, NoCheck, Accepts, Refuses,
     redisKeys, clock
<1>9. CheckSees'
  BY RotationAssumption DEF SecretInv, CheckSees, CheckType, CheckPrevious, NoCheck, Accepts, Refuses,
     redisKeys, clock
<1> QED
  BY <1>1, <1>2, <1>3, <1>4, <1>5, <1>6, <1>7, <1>8, <1>9 DEF SecretInv

\* A system that has just been installed.
LEMMA SecretInitially ==
  ASSUME SecretInit
  PROVE  SecretInv
<1>1. SecretTypeOK
  BY RotationAssumption DEF SecretInit, SecretTypeOK, Secrets, TaskSteps, NoCheck
<1>2. KindsKeepTo
  BY DEF SecretInit, KindsKeepTo
<1>3. LocksHeld
  BY RotationAssumption DEF SecretInit, LocksHeld, InBoot, Rotating
<1>4. NoSecretYet
  BY DEF SecretInit, NoSecretYet, Replacing
<1>5. Numbered
  BY RotationAssumption DEF SecretInit, Numbered
<1>6. RotationKeeps
  BY DEF SecretInit, RotationKeeps
<1>7. RevocationsReplace
  BY DEF SecretInit, RevocationsReplace
<1>8. CondemnedLeave
  BY DEF SecretInit, CondemnedLeave
<1>9. CheckSees
  BY DEF SecretInit, CheckSees, CheckType, NoCheck
<1> QED
  BY <1>1, <1>2, <1>3, <1>4, <1>5, <1>6, <1>7, <1>8, <1>9 DEF SecretInv

\* Whoever steps, and when nobody does.
LEMMA RotationStep ==
  ASSUME SecretInv, [SecretNext]_secretVars
  PROVE  SecretInv'
<1>1. ASSUME NEW t \in Tasks, Boot(t) \/ TaskStep(t) \/ TaskDies(t) \/ \E s \in {current, previous} \ {Nothing} : Revoke(t, s)
      PROVE  SecretInv'
  BY <1>1, BootKeeps, BootLockKeeps, BootReadKeeps, BootSeedKeeps, BootReleaseKeeps, CronFiresKeeps,
     RotateLockKeeps,
     RotateReadKeeps, RotateKeepKeeps, RotateSetKeeps, RotateReleaseKeeps, RevokeReadCurrentKeeps,
     RevokeReadPreviousKeeps, RevokeForgetKeeps, RevokeKeeps, TaskDiesKeeps DEF TaskStep
<1>2. ASSUME Midnight \/ ExpirePrevious \/ ExpireRevoked \/ ExpireLocks
      PROVE  SecretInv'
  BY <1>2, MidnightKeeps, ExpirePreviousKeeps, ExpireRevokedKeeps, ExpireLocksKeeps
<1>3. ASSUME NEW s \in Tried, NEW fails \in BOOLEAN, CheckRevoked(s, fails)
      PROVE  SecretInv'
  BY <1>3, CheckRevokedKeeps
<1>4. ASSUME CheckCurrent \/ CheckPrevious
      PROVE  SecretInv'
  BY <1>4, CheckCurrentKeeps, CheckPreviousKeeps
<1>5. ASSUME UNCHANGED secretVars
      PROVE  SecretInv'
  BY <1>5 DEF secretVars, SecretInv, SecretTypeOK, KindsKeepTo, LocksHeld, NoSecretYet, Numbered, RotationKeeps,
     RevocationsReplace, CondemnedLeave, WillReplace, WillKeep, CheckSees, CheckType
<1> QED
  BY <1>1, <1>2, <1>3, <1>4, <1>5 DEF SecretNext

\* The invariant holds in every state.
LEMMA SecretInvariant == SecretSpec => []SecretInv
BY SecretInitially, RotationStep, PTL DEF SecretSpec

\* Redis holds a secret or nothing under each key, a lock belongs to a task that
\* exists or to one that died, and every handler is at one of its steps.
THEOREM SecretTypes == SecretSpec => []SecretTypeOK
<1>1. SecretInv => SecretTypeOK
  BY DEF SecretInv
<1> QED
  BY <1>1, SecretInvariant, PTL

\* No validation refuses what it should accept while nothing is revoked.
LEMMA NoHole ==
  ASSUME SecretInv, Refuses, Promised(check.secret), condemned = {}
  PROVE  FALSE
<1>1. /\ check.at = "previous" /\ check.secret \notin Candidates /\ check.secret \in Nat /\ check.secret # Nothing
  BY RotationAssumption DEF SecretInv, SecretTypeOK, Secrets, CheckSees, Refuses
<1>2. CASE current = Nothing
  BY <1>1, <1>2 DEF SecretInv, CheckSees, Promised, Candidates
<1>3. CASE current # Nothing /\ check.secret = current
  BY <1>1, <1>3 DEF SecretInv, CheckSees, Numbered, Candidates
<1>4. CASE current # Nothing /\ check.secret = replaced
  BY <1>1, <1>4 DEF SecretInv, RotationKeeps, Candidates
<1> QED
  BY <1>2, <1>3, <1>4 DEF Promised

\* What a validation accepts was in Redis meanwhile, and not revoked before, that it could see.
LEMMA OnlyHeld ==
  ASSUME SecretInv, Accepts
  PROVE  /\ check.held \/ Held(check.secret)
         /\ check.late => check.blind
<1>1. check.at = "previous" /\ check.secret \in Candidates
  BY DEF Accepts
<1>2. check.held \/ Held(check.secret)
  BY <1>1 DEF SecretInv, CheckSees, Candidates, Held
<1>3. check.late => check.blind
  BY <1>1 DEF SecretInv, CheckSees, Candidates
<1> QED
  BY <1>2, <1>3

\* Before a revocation deletes the previous secret, the current one is another.
LEMMA ReplacedFirst ==
  ASSUME SecretInv, NEW t \in Tasks, pc[t] = "forget"
  PROVE  current # target[t] \/ crashes > 0
<1>1. KindOf[t] = "revoke"
  BY RotationAssumption DEF SecretInv, KindsKeepTo, InBoot, Rotating
<1> QED
  BY <1>1 DEF SecretInv, RevocationsReplace

\* Rotation and revocation keep what they promise, for any number of replicas,
\* revocations, nights and crashes (of these, fewer than the set of revoked
\* secrets lasts nights): no valid secret is refused, no retired one accepted,
\* and a revoked one does not stay.
THEOREM SecretsKept == SecretSpec => SecretsHold
<1>1. SecretInv => ((Refuses /\ check.known /\ Promised(check.secret) /\ condemned = {}) => check' # NoCheck)
  BY NoHole
<1>2. SecretInv => ((Accepts /\ check' = NoCheck) =>
        /\ check.held \/ Held(check.secret)
        /\ check.late => check.blind)
  BY OnlyHeld
<1>3. SecretInv => \A t \in Tasks : (pc[t] = "forget" /\ pc'[t] = "done") => current # target[t] \/ crashes > 0
  BY ReplacedFirst
<1>4. SecretSpec => GraceHonored
  BY <1>1, SecretInvariant, PTL DEF GraceHonored
<1>5. SecretSpec => RetiredRefused
  BY <1>2, SecretInvariant, PTL DEF RetiredRefused
<1>6. SecretSpec => RevokedReplaced
  BY <1>3, SecretInvariant, PTL DEF RevokedReplaced
<1> QED
  BY <1>4, <1>5, <1>6 DEF SecretsHold, RevocationHolds


-----------------------------------------------------------------------------
(* The rotation of ENCRYPTION_KEY *)

\* Nobody saved it since, and it has its first content.
Untouched == \A v \in Values \ saved : stored[v].content = 0

\* The snapshot of a row that is still to do is what the row holds.
SnapshotFresh ==
  script.step = "rotate" =>
    \A r \in script.todo : <<Field, r>> \notin saved => script.found[r] = stored[<<Field, r>>]

\* The services read it with the new key.
ReadByNew(v) == stored[v].key \in {"plain", "new"}

\* What a run has gone through: its earlier fields, and the rows of this one
\* that are not to do.
Passed(v) ==
  \/ \E i \in 1..(script.field - 1) : v[1] = ROTATED_FIELDS[i]
  \/ script.step = "rotate" /\ v[1] = Field /\ v[2] \notin script.todo
RunIsThorough ==
  script.step # "off" /\ ~script.failed => \A v \in Values \ saved : Passed(v) => ReadByNew(v)

\* A run in progress has no verdict, and "Completed" is true of what nobody saved.
VerdictIsTrue ==
  /\ script.step # "off" => verdict = "none"
  /\ verdict = "Completed" \/ serviceKey = "new" => \A v \in Values \ saved : Rotated(v) => ReadByNew(v)

RotationInv == RotationTypeOK /\ Untouched /\ SnapshotFresh /\ RunIsThorough /\ VerdictIsTrue

\* The fields, and the values of the one the script is at.
LEMMA RotationFields ==
  ASSUME RotationTypeOK
  PROVE  /\ script.field \in {1, 2} /\ Len(ROTATED_FIELDS) = 2 /\ DOMAIN ROTATED_FIELDS = {1, 2}
         /\ script \in [step : {"off", "select", "rotate"}, field : {1, 2},
                        found : [SecretRows -> Secret], todo : SUBSET SecretRows, failed : BOOLEAN]
         /\ ROTATED_FIELDS[1] # ROTATED_FIELDS[2]
         /\ Field \in StoredFields /\ \A r \in SecretRows : <<Field, r>> \in Values
         /\ \A v \in Values : v = <<v[1], v[2]>> /\ v[2] \in SecretRows
         /\ \A v \in Values : Rotated(v) <=> v[1] = ROTATED_FIELDS[1] \/ v[1] = ROTATED_FIELDS[2]
<1>1. DOMAIN ROTATED_FIELDS = {1, 2} /\ Len(ROTATED_FIELDS) = 2
  BY DEF ROTATED_FIELDS
<1>2. script \in [step : {"off", "select", "rotate"}, field : {1, 2},
                  found : [SecretRows -> Secret], todo : SUBSET SecretRows, failed : BOOLEAN]
  BY <1>1 DEF RotationTypeOK
<1>3. script.field \in {1, 2}
  BY <1>2
<1>4. ROTATED_FIELDS[1] # ROTATED_FIELDS[2] /\ Field \in StoredFields
  BY <1>3 DEF ROTATED_FIELDS, Field, StoredFields
<1>5. /\ \A r \in SecretRows : <<Field, r>> \in Values
      /\ \A v \in Values : v = <<v[1], v[2]>> /\ v[2] \in SecretRows
  BY <1>4 DEF Values
<1>6. \A v \in Values : Rotated(v) <=> v[1] = ROTATED_FIELDS[1] \/ v[1] = ROTATED_FIELDS[2]
  BY <1>1 DEF Rotated
<1> QED
  BY <1>1, <1>2, <1>3, <1>4, <1>5, <1>6

\* Types of what a run starts with.
LEMMA RunTypes ==
  /\ NotRunning \in [step : {"off"}, field : {1}, found : [SecretRows -> Secret], todo : SUBSET SecretRows, failed : {FALSE}]
  /\ NoSnapshot \in [SecretRows -> Secret]
  BY RotationBounds DEF NotRunning, NoSnapshot, Secret

\* Every step keeps the types.
LEMMA RotationTypeStep ==
  ASSUME RotationTypeOK, [RotationNext]_rotationVars
  PROVE  RotationTypeOK'
<1>0. /\ stored \in [Values -> Secret] /\ serviceKey \in {"old", "new"}
      /\ script \in [step : {"off", "select", "rotate"}, field : {1, 2},
                     found : [SecretRows -> Secret], todo : SUBSET SecretRows, failed : BOOLEAN]
      /\ rotations \in 0..MaxRotations /\ saves \in 0..MaxSaved /\ mishaps \in 0..MaxMishaps
      /\ verdict \in {"none", "INCOMPLETE", "Completed"} /\ saved \subseteq Values
      /\ DOMAIN ROTATED_FIELDS = {1, 2} /\ Len(ROTATED_FIELDS) = 2
      /\ \A r \in SecretRows : <<Field, r>> \in Values
      /\ MaxRotations \in Nat /\ MaxSaved \in Nat /\ MaxMishaps \in Nat
  BY RotationFields, RotationBounds DEF RotationTypeOK
<1> USE DEF RotationTypeOK
<1> DEFINE Script == [step : {"off", "select", "rotate"}, field : {1, 2},
                      found : [SecretRows -> Secret], todo : SUBSET SecretRows, failed : BOOLEAN]
<1>11. NotRunning \in Script /\ NoSnapshot \in [SecretRows -> Secret]
  BY RunTypes
<1>12. Mishap => mishaps' \in 0..MaxMishaps
  BY <1>0 DEF Mishap
<1>1. CASE StartRotation
  <2>1. script' \in Script /\ rotations' \in 0..MaxRotations
    BY <1>0, <1>1, <1>11 DEF StartRotation
  <2> QED
    BY <1>0, <1>1, <2>1 DEF StartRotation
<1>2. CASE SelectField
  BY <1>0, <1>2 DEF SelectField
<1>3. CASE NextField
  <2>1. script.field + 1 \in {1, 2}
    BY <1>0, <1>3 DEF NextField
  <2>2. script' = [script EXCEPT !.step = "select", !.field = script.field + 1, !.found = NoSnapshot]
    BY <1>3 DEF NextField
  <2> DEFINE next == script.field + 1
  <2> HIDE DEF next
  <2>3. script' = [script EXCEPT !.step = "select", !.field = next, !.found = NoSnapshot] /\ next \in {1, 2}
    BY <2>1, <2>2 DEF next
  <2>4. script' \in Script
    BY <1>0, <1>11, <2>3
  <2> QED
    BY <1>0, <1>3, <2>4 DEF NextField
<1>4. CASE EndRotation
  BY <1>0, <1>4, RunTypes DEF EndRotation
<1>5. CASE RotationDies
  BY <1>0, <1>5, <1>11, <1>12 DEF RotationDies
<1>6. CASE SwitchKey
  BY <1>0, <1>6 DEF SwitchKey
<1>7. ASSUME NEW r \in SecretRows, RotateRecord(r)
      PROVE  RotationTypeOK'
  <2>1. [script.found[r] EXCEPT !.key = "new"] \in Secret
    BY <1>0 DEF Secret
  <2>2. stored' \in [Values -> Secret]
    BY <1>0, <1>7, <2>1 DEF RotateRecord
  <2> QED
    BY <1>0, <1>7, <2>2 DEF RotateRecord
<1>8. ASSUME NEW r \in SecretRows, UpdateFails(r)
      PROVE  RotationTypeOK'
  BY <1>0, <1>8, <1>12 DEF UpdateFails
<1>9. ASSUME NEW v \in Values, SaveValue(v)
      PROVE  RotationTypeOK'
  <2>1. [key |-> serviceKey, content |-> saves + 1] \in Secret
    BY <1>0, <1>9 DEF Secret, SaveValue
  <2>2. stored' \in [Values -> Secret]
    BY <1>0, <1>9, <2>1 DEF SaveValue
  <2> QED
    BY <1>0, <1>9, <2>2 DEF SaveValue
<1>10. CASE UNCHANGED rotationVars
  BY <1>10 DEF rotationVars
<1> QED
  BY <1>1, <1>2, <1>3, <1>4, <1>5, <1>6, <1>7, <1>8, <1>9, <1>10 DEF RotationNext

\* A record that is rotated, or counted as failed: what nobody saved keeps its
\* content, and a value that the new key reads still is.
LEMMA RotateStep ==
  ASSUME RotationInv, NEW r \in SecretRows, RotateRecord(r) \/ UpdateFails(r)
  PROVE  /\ Untouched' /\ SnapshotFresh' /\ RunIsThorough' /\ VerdictIsTrue'
<1> DEFINE here == <<Field, r>>
<1>0. /\ stored \in [Values -> Secret] /\ here \in Values /\ script.failed \in BOOLEAN
      /\ script \in [step : {"off", "select", "rotate"}, field : {1, 2},
                     found : [SecretRows -> Secret], todo : SUBSET SecretRows, failed : BOOLEAN]
      /\ \A v \in Values : v = <<v[1], v[2]>> /\ v[2] \in SecretRows
  BY RotationFields DEF RotationInv, RotationTypeOK
<1>1. /\ script.step = "rotate" /\ r \in script.todo
      /\ script'.step = "rotate" /\ script'.field = script.field /\ script'.found = script.found
      /\ script'.todo = script.todo \ {r} /\ Field' = Field
      /\ UNCHANGED <<serviceKey, verdict, saved>>
  BY <1>0 DEF RotateRecord, UpdateFails, Field
<1>2. here \notin saved => script.found[r] = stored[here] /\ script.found[r].content = 0
  BY <1>0, <1>1 DEF RotationInv, SnapshotFresh, Untouched
<1>3. \A v \in Values : v # here => stored'[v] = stored[v]
  BY <1>0 DEF RotateRecord, UpdateFails
<1>4. \/ stored' = stored
      \/ stored'[here] = [script.found[r] EXCEPT !.key = "new"]
  BY <1>0 DEF RotateRecord, UpdateFails
<1>5. script.found[r] \in Secret
  BY <1>0
<1>6. ASSUME here \notin saved
      PROVE  stored'[here].content = 0 /\ (ReadByNew(here) => ReadByNew(here)')
  <2>1. stored[here].content = 0 /\ script.found[r] = stored[here] /\ script.found[r].content = 0
    BY <1>0, <1>2, <1>6 DEF RotationInv, Untouched
  <2>2. CASE stored' = stored
    BY <1>1, <2>1, <2>2 DEF ReadByNew
  <2>3. CASE stored'[here] = [script.found[r] EXCEPT !.key = "new"]
    <3>1. stored'[here].key = "new" /\ stored'[here].content = script.found[r].content
      BY <1>5, <2>3 DEF Secret
    <3> QED
      BY <1>1, <2>1, <3>1 DEF ReadByNew
  <2> QED
    BY <1>4, <2>2, <2>3
<1>7. ASSUME NEW v \in Values, v \notin saved
      PROVE  stored'[v].content = 0 /\ (ReadByNew(v) => ReadByNew(v)')
  <2>1. stored[v].content = 0
    BY <1>7 DEF RotationInv, Untouched
  <2>2. CASE v = here
    BY <1>1, <1>6, <1>7, <2>2
  <2>3. CASE v # here
    BY <1>3, <2>1, <2>3 DEF ReadByNew
  <2> QED
    BY <2>2, <2>3
<1>8. Untouched'
  BY <1>1, <1>7 DEF Untouched
<1>9. SnapshotFresh'
  <2> SUFFICES ASSUME NEW x \in script.todo \ {r}, <<Field, x>> \notin saved
               PROVE  script.found[x] = stored'[<<Field, x>>]
    BY <1>1 DEF SnapshotFresh
  <2>1. <<Field, x>> \in Values /\ <<Field, x>> # here
    BY <1>0, RotationFields DEF RotationInv
  <2> QED
    BY <1>1, <1>3, <2>1 DEF RotationInv, SnapshotFresh
<1>10. RunIsThorough'
  <2> SUFFICES ASSUME ~script'.failed, NEW v \in Values, v \notin saved, Passed(v)'
               PROVE  ReadByNew(v)'
    BY <1>1 DEF RunIsThorough
  <2>1. ~script.failed /\ RotateRecord(r) /\ script.found[r].key # "neither"
    BY <1>0 DEF RotateRecord, UpdateFails
  <2>2. CASE v = here
    <3>1. script.found[r].key = "old" => stored'[here].key = "new"
      BY <1>0, <1>5, <2>1 DEF RotateRecord, Secret
    <3>2. script.found[r].key # "old" => stored' = stored /\ stored[here].key \in {"plain", "new"}
      BY <1>2, <1>5, <2>1, <2>2 DEF RotateRecord, Secret
    <3> QED
      BY <2>2, <3>1, <3>2 DEF ReadByNew
  <2>3. CASE v # here
    <3>1. Passed(v)
      BY <1>0, <1>1, <2>3 DEF Passed
    <3>2. ReadByNew(v)
      BY <1>1, <2>1, <3>1 DEF RotationInv, RunIsThorough
    <3> QED
      BY <1>7, <3>2
  <2> QED
    BY <2>2, <2>3
<1>11. VerdictIsTrue'
  BY <1>1, <1>7 DEF RotationInv, VerdictIsTrue
<1> QED
  BY <1>8, <1>9, <1>10, <1>11

\* The other steps of the script and the operator's leave the values as they are.
LEMMA ScriptStep ==
  ASSUME RotationInv, StartRotation \/ SelectField \/ NextField \/ EndRotation \/ RotationDies \/ SwitchKey
  PROVE  /\ Untouched' /\ SnapshotFresh' /\ RunIsThorough' /\ VerdictIsTrue'
<1>0. /\ script.field \in {1, 2} /\ Len(ROTATED_FIELDS) = 2
      /\ script \in [step : {"off", "select", "rotate"}, field : {1, 2},
                     found : [SecretRows -> Secret], todo : SUBSET SecretRows, failed : BOOLEAN]
      /\ \A v \in Values : v = <<v[1], v[2]>> /\ v[2] \in SecretRows
      /\ \A v \in Values : Rotated(v) <=> v[1] = ROTATED_FIELDS[1] \/ v[1] = ROTATED_FIELDS[2]
  BY RotationFields DEF RotationInv
<1>1. stored' = stored /\ saved' = saved
  BY DEF StartRotation, SelectField, NextField, EndRotation, RotationDies, SwitchKey
<1>2. Untouched'
  BY <1>1 DEF RotationInv, Untouched
<1>3. \A v \in Values : ReadByNew(v)' = ReadByNew(v)
  BY <1>1 DEF ReadByNew
<1>4. NotRunning.step = "off" /\ NotRunning.field = 1
  BY DEF NotRunning
<1>5. CASE StartRotation
  <2>1. script'.step = "select" /\ script'.field = 1 /\ verdict' = "none" /\ serviceKey' = "old"
    BY <1>5 DEF StartRotation, NotRunning
  <2> QED
    BY <1>2, <2>1 DEF SnapshotFresh, RunIsThorough, Passed, VerdictIsTrue
<1>6. CASE SelectField
  <2>1. /\ script.step = "select" /\ script'.step = "rotate" /\ script'.todo = SecretRows
        /\ script'.field = script.field /\ script'.failed = script.failed /\ Field' = Field
        /\ script'.found = [r \in SecretRows |-> stored[<<Field, r>>]]
        /\ verdict' = verdict /\ serviceKey' = serviceKey
    BY <1>0, <1>6 DEF SelectField, Field
  <2>2. SnapshotFresh'
    BY <1>1, <2>1 DEF SnapshotFresh
  <2>3. \A v \in Values : Passed(v)' => Passed(v)
    BY <1>0, <2>1 DEF Passed
  <2> QED
    BY <1>1, <1>2, <1>3, <2>1, <2>2, <2>3 DEF RotationInv, RunIsThorough, VerdictIsTrue
<1>7. CASE NextField
  <2>1. /\ script.step = "rotate" /\ script.todo = {} /\ script'.step = "select" /\ script'.field = script.field + 1
        /\ script'.failed = script.failed /\ verdict' = verdict /\ serviceKey' = serviceKey
    BY <1>0, <1>7 DEF NextField
  <2>2. \A v \in Values : Passed(v)' => Passed(v)
    BY <1>0, <2>1 DEF Passed, Field
  <2> QED
    BY <1>1, <1>2, <1>3, <2>1, <2>2 DEF RotationInv, SnapshotFresh, RunIsThorough, VerdictIsTrue
<1>8. CASE EndRotation
  <2>1. /\ script.step = "rotate" /\ script.todo = {} /\ script.field = 2 /\ script'.step = "off" /\ serviceKey' = serviceKey
        /\ verdict' = IF script.failed THEN "INCOMPLETE" ELSE "Completed"
    BY <1>0, <1>4, <1>8 DEF EndRotation
  <2>2. \A v \in Values : Rotated(v) => Passed(v)
    BY <1>0, <2>1 DEF Passed, Field
  <2>3. ~script.failed => \A v \in Values \ saved : Rotated(v) => ReadByNew(v)
    BY <2>1, <2>2 DEF RotationInv, RunIsThorough
  <2>4. VerdictIsTrue'
    BY <1>1, <1>3, <2>1, <2>3 DEF RotationInv, VerdictIsTrue, Rotated
  <2> QED
    BY <1>2, <2>1, <2>4 DEF SnapshotFresh, RunIsThorough
<1>9. CASE RotationDies
  <2>1. script'.step = "off" /\ verdict' = verdict /\ serviceKey' = serviceKey
    BY <1>4, <1>9 DEF RotationDies
  <2> QED
    BY <1>1, <1>2, <1>3, <2>1 DEF RotationInv, SnapshotFresh, RunIsThorough, VerdictIsTrue, Rotated
<1>10. CASE SwitchKey
  <2>1. script.step = "off" /\ script' = script /\ verdict = "Completed" /\ verdict' = verdict
    BY <1>10 DEF SwitchKey
  <2> QED
    BY <1>1, <1>2, <1>3, <2>1 DEF RotationInv, SnapshotFresh, RunIsThorough, VerdictIsTrue, Rotated
<1> QED
  BY <1>5, <1>6, <1>7, <1>8, <1>9, <1>10

\* What a service saves is no longer among the values promised.
LEMMA SaveStep ==
  ASSUME RotationInv, NEW w \in Values, SaveValue(w)
  PROVE  /\ Untouched' /\ SnapshotFresh' /\ RunIsThorough' /\ VerdictIsTrue'
<1>1. /\ saved' = saved \cup {w} /\ UNCHANGED <<script, serviceKey, verdict>> /\ Field' = Field
      /\ stored \in [Values -> Secret] /\ stored' = [stored EXCEPT ![w] = [key |-> serviceKey, content |-> saves + 1]]
  BY DEF SaveValue, Field, RotationInv, RotationTypeOK
<1>2. \A v \in Values \ saved' : v \notin saved /\ stored'[v] = stored[v]
  BY <1>1
<1>3. Untouched'
  BY <1>2 DEF RotationInv, Untouched
<1>4. SnapshotFresh'
  <2> SUFFICES ASSUME script.step = "rotate", NEW x \in script.todo, <<Field, x>> \notin saved'
               PROVE  script.found[x] = stored'[<<Field, x>>]
    BY <1>1 DEF SnapshotFresh
  <2>1. <<Field, x>> \in Values
    BY RotationFields DEF RotationInv
  <2> QED
    BY <1>2, <2>1 DEF RotationInv, SnapshotFresh
<1>5. \A v \in Values : (Passed(v)' <=> Passed(v)) /\ (v \notin saved' => ReadByNew(v)' = ReadByNew(v))
  BY <1>1, <1>2 DEF Passed, ReadByNew
<1> QED
  BY <1>1, <1>2, <1>3, <1>4, <1>5 DEF RotationInv, RunIsThorough, VerdictIsTrue, Rotated

\* It holds in every reachable state.
LEMMA RotationInvariant == RotationSpec => []RotationInv
<1>1. ASSUME RotationInit
      PROVE  RotationInv
  <2>1. script = NotRunning /\ script.step = "off" /\ serviceKey = "old" /\ verdict = "none" /\ saved = {}
    BY <1>1 DEF RotationInit, NotRunning
  <2>2. PICK x \in Values, key \in {"old", "plain", "neither"} :
               stored = [w \in Values |-> [key |-> IF w = x THEN key ELSE "old", content |-> 0]]
    BY <1>1 DEF RotationInit
  <2>3. stored \in [Values -> Secret] /\ Untouched
    BY <2>2, RotationBounds DEF Secret, Untouched
  <2>4. NotRunning \in [step : {"off", "select", "rotate"}, field : {1, 2}, found : [SecretRows -> Secret],
                        todo : SUBSET SecretRows, failed : BOOLEAN]
    BY RunTypes
  <2>5. DOMAIN ROTATED_FIELDS = {1, 2}
    BY DEF ROTATED_FIELDS
  <2>6. RotationTypeOK
    BY <1>1, <2>1, <2>3, <2>4, <2>5, RotationBounds DEF RotationInit, RotationTypeOK
  <2> QED
    BY <2>1, <2>3, <2>6 DEF RotationInv, SnapshotFresh, RunIsThorough, VerdictIsTrue
<1>2. ASSUME RotationInv, [RotationNext]_rotationVars
      PROVE  RotationInv'
  <2>1. RotationTypeOK'
    BY <1>2, RotationTypeStep DEF RotationInv
  <2>2. CASE UNCHANGED rotationVars
    BY <1>2, <2>1, <2>2 DEF rotationVars, RotationInv, Untouched, SnapshotFresh, RunIsThorough, VerdictIsTrue,
                            Passed, ReadByNew, Field, Rotated
  <2> QED
    BY <1>2, <2>1, <2>2, RotateStep, ScriptStep, SaveStep DEF RotationNext, RotationInv
<1> QED
  BY <1>1, <1>2, PTL DEF RotationSpec

\* The values, the key, the script and what it said have their types.
THEOREM RotationTypes == RotationSpec => []RotationTypeOK
<1>1. RotationInv => RotationTypeOK
  BY DEF RotationInv
<1> QED
  BY <1>1, RotationInvariant, PTL

\* However often the script died, failed on a record and ran again: a value that
\* no service saved meanwhile has its content, and once the services have the
\* new key they read it, if it is of the script's fields.
THEOREM RotationHolds == RotationSpec => []RotationKeepsValues
<1>1. RotationInv => RotationKeepsValues
  BY DEF RotationInv, Untouched, VerdictIsTrue, ReadByNew, RotationKeepsValues, Readable
<1> QED
  BY <1>1, RotationInvariant, PTL
=============================================================================
