---------------------------- MODULE EngineProofs ----------------------------
(***************************************************************************)
(* What is proved of the metering of usage, of the counters of requests    *)
(* and failed sign-ins, of the caches of the guard and of the request of a *)
(* webhook, for every value of their constants: any number of replicas,    *)
(* clients and requests, and any limits and times to live.                 *)
(***************************************************************************)
EXTENDS MCLive, FiniteSetTheorems, SequenceTheorems, TLAPS

-----------------------------------------------------------------------------
(* The metering of usage *)


\* Only the holder of the global lock runs the cron.
OneRunner == \A r \in Replicas : pc[r] \in CronSteps => globalLock = r

\* The two sync keys come and go together.
SyncPaired == sync = NoKey <=> syncBatch = NoKey

\* Every batch id in use was handed out.
IdsBelowNext ==
  /\ batch # NoKey => batch < nextId
  /\ syncBatch # NoKey => syncBatch < nextId
  /\ \A billed \in ledger : billed.batch < nextId

\* What processSyncKey has read is still what the sync keys hold.
LocalsFresh ==
  \A r \in Replicas :
    /\ pc[r] = "getBatch" => rUsage[r] = Amount(sync)
    /\ pc[r] = "delEmpty" => Amount(sync) = 0
    /\ pc[r] \in {"tx", "ack", "reclaim", "drop"} \cup CopiedSteps =>
         sync # NoKey /\ rUsage[r] = sync /\ rBatch[r] = syncBatch
    /\ pc[r] = "ack" => Billed(syncBatch)

\* The bucket and the sync keys share a batch id only inside a reclaim.
BatchesApart ==
  (batch # NoKey /\ batch = syncBatch) => \E r \in Replicas : pc[r] \in CopiedSteps

\* The batch of the bucket is not in the ledger, the one of the sync keys is
\* there with its own amount or not at all, and only one not there is reclaimed.
LedgerMatches ==
  orgExists =>
    /\ batch # NoKey => ~Billed(batch)
    /\ (sync # NoKey /\ Billed(syncBatch)) => [batch |-> syncBatch, amount |-> sync] \in ledger
    /\ \A r \in Replicas : pc[r] \in {"reclaim"} \cup CopiedSteps => ~Billed(syncBatch)

IInv ==
  /\ TypeOK
  /\ OneRunner
  /\ SyncPaired
  /\ IdsBelowNext
  /\ LocalsFresh
  /\ BatchesApart
  /\ LedgerMatches
  /\ Conservation

-----------------------------------------------------------------------------

\* A replica enters the database transaction only with a batch id (without
\* this the ledger could receive a row that has none), and drops the keys only
\* of an organization that is gone.
TypeInv ==
  /\ TypeOK
  /\ \A r \in Replicas : /\ pc[r] = "tx" => rBatch[r] # NoKey
                         /\ pc[r] = "drop" => ~orgExists

\* The types are kept by every step (all handlers of the module).
LEMMA TypeStep ==
  ASSUME TypeInv, [Next]_vars
  PROVE  TypeInv'
<1> USE WeightsAssumption, BalanceAssumption, BoundAssumption, NoKeyAssumption
<1> USE DEF TypeInv, TypeOK, redisVars, dbVars, lockVars, replicaVars, Amount, Goto, Fault,
            Steps, CronSteps, LockedSteps, CopiedSteps
<1>1. ASSUME NEW cost \in Weights, NEW cached \in Limits, NEW isSync \in BOOLEAN,
             GuardCharge(cost, cached, isSync)
      PROVE  TypeInv'
  BY <1>1 DEF GuardCharge, GuardBatch, Refused
<1>2. ASSUME NEW d \in Deliveries,
             DeliverySetBatch(d) \/ DeliveryCharge(d) \/ DeliveryAbort(d)
      PROVE  TypeInv'
  BY <1>2 DEF DeliverySetBatch, DeliveryCharge, DeliveryAbort
<1>3. ASSUME NEW r \in Replicas, CronStep(r) \/ FaultStep(r) \/ ShutdownFlush(r) \/ Restart(r)
      PROVE  TypeInv'
  <2>1. CASE StartCron(r)
    BY <2>1 DEF StartCron
  <2>2. CASE Rescue(r)
    BY <2>2 DEF Rescue
  <2>3. CASE Scan(r)
    BY <2>3 DEF Scan
  <2>4. CASE Finish(r)
    BY <2>4 DEF Finish
  <2>5. CASE Lock(r)
    BY <2>5 DEF Lock
  <2>6. CASE GetSync(r)
    BY <2>6 DEF GetSync
  <2>7. CASE GetBatch(r)
    BY <2>7 DEF GetBatch
  <2>8. CASE DelEmpty(r)
    BY <2>8 DEF DelEmpty, Return
  <2>9. CASE TxApply(r)
    BY <2>9 DEF TxApply, ApplyBatch, Larger, Billed
  <2>10. CASE TxReplay(r)
    BY <2>10 DEF TxReplay, SameRow
  <2>11. CASE TxOrgMissing(r)
    BY <2>11 DEF TxOrgMissing
  <2>12. CASE Ack(r)
    BY <2>12 DEF Ack, Return
  <2>13. CASE Drop(r)
    BY <2>13 DEF Drop, Return
  <2>14. CASE ReclaimUsage(r)
    BY <2>14 DEF ReclaimUsage
  <2>15. CASE ReclaimBatch(r)
    BY <2>15 DEF ReclaimBatch
  <2>16. CASE ReclaimDel(r)
    BY <2>16 DEF ReclaimDel, Return
  <2>17. CASE TxFail(r)
    BY <2>17 DEF TxFail
  <2>18. CASE TxAckLost(r)
    BY <2>18 DEF TxAckLost, ApplyBatch, Larger, Billed
  <2>19. CASE AckFail(r)
    BY <2>19 DEF AckFail, Return
  <2>20. CASE Crash(r)
    BY <2>20 DEF Crash
  <2>21. CASE ShutdownFlush(r)
    BY <2>21 DEF ShutdownFlush
  <2>22. CASE Restart(r)
    BY <2>22 DEF Restart
  <2> QED
    BY <1>3, <2>1, <2>2, <2>3, <2>4, <2>5, <2>6, <2>7, <2>8, <2>9, <2>10, <2>11, <2>12, <2>13, <2>14, <2>15, <2>16, <2>17, <2>18, <2>19, <2>20, <2>21, <2>22 DEF CronStep, FaultStep
<1>4. CASE LoseGlobalLock
  BY <1>4 DEF LoseGlobalLock
<1>5. CASE DeleteOrg
  <2>1. usage' \in Nat \cup {NoKey}
    BY <1>5 DEF DeleteOrg
  <2>2. orgExists' = FALSE
    BY <1>5, Zenon DEF DeleteOrg
  <2>3. faults' \in [allowed : SUBSET FaultKinds, left : Nat]
    BY <1>5 DEF DeleteOrg
  <2>4. UNCHANGED <<batch, sync, syncBatch, nextId, ledger, quotaBalance, quotaUsed, globalLock,
                    orgLock, pc, resume, rUsage, rBatch, delivery, requests, charged>>
    BY <1>5 DEF DeleteOrg
  <2> QED
    BY <2>1, <2>2, <2>3, <2>4
<1>6. CASE CollectOrphans
  BY <1>6 DEF CollectOrphans
<1>7. CASE UNCHANGED vars
  BY <1>7 DEF vars
<1> QED
  BY <1>1, <1>2, <1>3, <1>4, <1>5, <1>6, <1>7 DEF Next

\* The initial state has its type.
LEMMA TypeInit == Init => TypeInv
  BY WeightsAssumption, BalanceAssumption, BoundAssumption, NoKeyAssumption
     DEF Init, TypeInv, TypeOK, Steps, CronSteps

\* The type invariant holds in every reachable state, whatever faults happen.
THEOREM TypeCorrect == Spec => []TypeOK
<1>1. Init => TypeInv
  BY TypeInit
<1>2. TypeInv /\ [Next]_vars => TypeInv'
  BY TypeStep
<1>3. TypeInv => TypeOK
  BY DEF TypeInv
<1> QED
  BY <1>1, <1>2, <1>3, PTL DEF Spec

-----------------------------------------------------------------------------

\* The invariant survives every step under the faults that count no unit twice.
LEMMA SafeStep ==
  ASSUME SafeFaults, IInv, TypeOK', [Next]_vars
  PROVE  IInv'
<1> USE WeightsAssumption, BalanceAssumption, BoundAssumption, NoKeyAssumption
<1> USE DEF IInv, TypeOK, OneRunner, SyncPaired, IdsBelowNext, LocalsFresh, BatchesApart, LedgerMatches,
            Conservation, Unbilled, Moving, Billed, SafeFaults, Rebills, LocksLost,
            redisVars, dbVars, lockVars, replicaVars, Amount, Goto, Fault,
            Steps, CronSteps, LockedSteps, CopiedSteps
<1>1. ASSUME NEW cost \in Weights, NEW cached \in Limits, NEW isSync \in BOOLEAN,
             GuardCharge(cost, cached, isSync)
      PROVE  IInv'
  BY <1>1 DEF GuardCharge, GuardBatch, Refused
<1>2. ASSUME NEW d \in Deliveries,
             DeliverySetBatch(d) \/ DeliveryCharge(d) \/ DeliveryAbort(d)
      PROVE  IInv'
  <2>1. CASE DeliverySetBatch(d)
    BY <2>1 DEF DeliverySetBatch
  <2>2. CASE DeliveryCharge(d)
    BY <2>2 DEF DeliveryCharge
  <2>3. CASE DeliveryAbort(d)
    BY <2>3, SMTT(30) DEF DeliveryAbort
  <2> QED
    BY <1>2, <2>1, <2>2, <2>3
<1>3. ASSUME NEW r \in Replicas, CronStep(r) \/ FaultStep(r) \/ ShutdownFlush(r) \/ Restart(r)
      PROVE  IInv'
  <2>1. CASE StartCron(r)
    BY <2>1 DEF StartCron
  <2>2. CASE Rescue(r)
    BY <2>2 DEF Rescue
  <2>3. CASE Scan(r)
    <3>1. CASE CanMove
      <4>1. \A q \in Replicas : q # r => pc[q] \notin CronSteps
        BY <2>3 DEF Scan
      <4>2. OneRunner' /\ SyncPaired' /\ IdsBelowNext' /\ BatchesApart'
        BY <2>3, <3>1 DEF Scan, CanMove
      <4>3. LocalsFresh'
        BY <2>3, <3>1, <4>1 DEF Scan, CanMove
      <4>4. LedgerMatches'
        BY <2>3, <3>1, <4>1 DEF Scan, CanMove
      <4>5. Conservation'
        BY <2>3, <3>1, <4>1 DEF Scan, CanMove
      <4> QED
        BY <4>2, <4>3, <4>4, <4>5
    <3>2. CASE ~CanMove
      BY <2>3, <3>2 DEF Scan
    <3> QED
      BY <3>1, <3>2
  <2>4. CASE Finish(r)
    BY <2>4 DEF Finish
  <2>5. CASE Lock(r)
    BY <2>5 DEF Lock
  <2>6. CASE GetSync(r)
    BY <2>6 DEF GetSync
  <2>7. CASE GetBatch(r)
    BY <2>7 DEF GetBatch
  <2>8. CASE DelEmpty(r)
    BY <2>8 DEF DelEmpty, Return
  <2>9. CASE TxApply(r)
    BY <2>9 DEF TxApply, ApplyBatch
  <2>10. CASE TxReplay(r)
    BY <2>10 DEF TxReplay, SameRow
  <2>11. CASE TxOrgMissing(r)
    BY <2>11 DEF TxOrgMissing
  <2>12. CASE Ack(r)
    BY <2>12 DEF Ack, Return
  <2>13. CASE Drop(r)
    BY <2>13 DEF Drop, Return
  <2>14. CASE ReclaimUsage(r)
    BY <2>14 DEF ReclaimUsage
  <2>15. CASE ReclaimBatch(r)
    BY <2>15 DEF ReclaimBatch
  <2>16. CASE ReclaimDel(r)
    BY <2>16 DEF ReclaimDel, Return
  <2>17. CASE TxFail(r)
    BY <2>17 DEF TxFail
  <2>18. CASE TxAckLost(r)
    BY <2>18 DEF TxAckLost, ApplyBatch
  <2>19. CASE AckFail(r)
    BY <2>19 DEF AckFail, Return
  <2>20. CASE Crash(r)
    BY <2>20 DEF Crash
  <2>21. CASE ShutdownFlush(r)
    BY <2>21 DEF ShutdownFlush
  <2>22. CASE Restart(r)
    BY <2>22 DEF Restart
  <2> QED
    BY <1>3, <2>1, <2>2, <2>3, <2>4, <2>5, <2>6, <2>7, <2>8, <2>9, <2>10, <2>11, <2>12, <2>13, <2>14, <2>15, <2>16, <2>17, <2>18, <2>19, <2>20, <2>21, <2>22 DEF CronStep, FaultStep
<1>4. CASE LoseGlobalLock
  BY <1>4 DEF LoseGlobalLock
<1>5. CASE DeleteOrg
  BY <1>5 DEF DeleteOrg
<1>6. CASE CollectOrphans
  BY <1>6 DEF CollectOrphans
<1>7. CASE UNCHANGED vars
  BY <1>7 DEF vars
<1> HIDE DEF IInv
<1> QED
  BY <1>1, <1>2, <1>3, <1>4, <1>5, <1>6, <1>7 DEF Next

\* It holds in the initial state.
LEMMA SafeInit == Init => IInv
  BY TypeInit, NoKeyAssumption
     DEF Init, IInv, TypeInv, OneRunner, SyncPaired, IdsBelowNext, LocalsFresh, BatchesApart, LedgerMatches,
         Conservation, Unbilled, Moving, Billed, Amount, CronSteps, LockedSteps, CopiedSteps

\* The faults a behaviour may have are chosen at its start.
LEMMA AllowedStep ==
  ASSUME TypeOK, [Next]_vars
  PROVE  faults'.allowed = faults.allowed
  BY DEF TypeOK, Fault, Next, CronStep, FaultStep, vars, redisVars, dbVars, lockVars, replicaVars,
     GuardCharge, DeliverySetBatch, DeliveryCharge, DeliveryAbort, StartCron, Rescue, Scan, Finish,
     Lock, GetSync, GetBatch, DelEmpty, TxApply, TxReplay, TxOrgMissing, TxFail, TxAckLost, Ack, AckFail,
     Drop, ReclaimUsage, ReclaimBatch, ReclaimDel, Crash, ShutdownFlush, Restart, LoseGlobalLock,
     DeleteOrg, CollectOrphans

\* The plan of a behaviour does not change, so neither does whether its faults
\* are of those.
LEMMA SafeFaultsStep ==
  ASSUME TypeOK, [Next]_vars
  PROVE  SafeFaults' <=> SafeFaults
  BY AllowedStep DEF SafeFaults, Rebills, LocksLost

\* So it holds in every state of such a behaviour.
LEMMA SafeInvariant == Spec => [](SafeFaults => IInv)
<1>1. Init => (SafeFaults => IInv)
  BY SafeInit
<1>2. (SafeFaults => IInv) /\ TypeOK /\ TypeOK' /\ [Next]_vars => (SafeFaults => IInv)'
  BY SafeStep, SafeFaultsStep
<1> QED
  BY <1>1, <1>2, TypeCorrect, PTL DEF Spec

\* No unit is lost or billed twice, whatever requests, deliveries, crashes
\* outside the reclaim, failed transactions of new batches and failed
\* acknowledgements occur, for any number of replicas.
THEOREM ConservationHolds == Spec => []Conservation
<1>1. (SafeFaults => IInv) => Conservation
  BY DEF IInv, SafeFaults, Conservation
<1> QED
  BY <1>1, SafeInvariant, PTL

\* The balance of the organization row follows what was billed, under every fault.
THEOREM BalanceFollows == Spec => []BalanceFollowsBilling
<1>1. Init => BalanceFollowsBilling
  BY BalanceAssumption DEF Init, BalanceFollowsBilling, Larger
<1>2. ASSUME TypeOK, BalanceFollowsBilling, [Next]_vars
      PROVE  BalanceFollowsBilling'
  <2>1. ASSUME NEW r \in Replicas, ApplyBatch(r)
        PROVE  BalanceFollowsBilling'
    <3>1. rUsage[r] \in Nat /\ quotaUsed \in Nat /\ quotaBalance \in Int
      BY <1>2 DEF TypeOK
    <3> QED
      BY <1>2, <2>1, <3>1, BalanceAssumption DEF ApplyBatch, BalanceFollowsBilling, Larger
  <2>2. CASE UNCHANGED <<quotaBalance, quotaUsed>>
    BY <1>2, <2>2 DEF BalanceFollowsBilling
  <2>3. (\E r \in Replicas : ApplyBatch(r)) \/ UNCHANGED <<quotaBalance, quotaUsed>>
    BY <1>2 DEF Next, CronStep, FaultStep, vars, redisVars, dbVars, lockVars, replicaVars,
       GuardCharge, DeliverySetBatch, DeliveryCharge, DeliveryAbort, StartCron, Rescue, Scan, Finish,
       Lock, GetSync, GetBatch, DelEmpty, TxApply, TxReplay, TxOrgMissing, TxFail, TxAckLost, Ack, AckFail,
       Drop, ReclaimUsage, ReclaimBatch, ReclaimDel, Crash, ShutdownFlush, Restart, LoseGlobalLock,
       DeleteOrg, CollectOrphans
  <2> QED
    BY <2>1, <2>2, <2>3
<1> QED
  BY <1>1, <1>2, TypeCorrect, PTL DEF Spec

\* A bucket that holds units keeps its batch id until both move together,
\* under every fault but the deletion of the organization.
THEOREM BatchKept == Spec => BatchKeepsItsUnits
<1>1. ASSUME TypeInv, [Next]_vars, Amount(usage) > 0, batch # NoKey, orgExists, batch' # batch
      PROVE  usage' = NoKey /\ batch' = NoKey /\ sync' = usage /\ syncBatch' = batch
  <2>1. \E r \in Replicas : Scan(r) /\ CanMove
    <3> USE <1>1 DEF redisVars
    <3>1. ~ \E cost \in Weights, cached \in Limits, isSync \in BOOLEAN : GuardCharge(cost, cached, isSync)
      BY DEF GuardCharge, GuardBatch
    <3>2. ~ \E d \in Deliveries : DeliverySetBatch(d) \/ DeliveryCharge(d) \/ DeliveryAbort(d)
      BY DEF DeliverySetBatch, DeliveryCharge, DeliveryAbort
    <3>3. \A r \in Replicas : ~Drop(r)
      BY DEF Drop, TypeInv
    <3>4. \A r \in Replicas : ~(FaultStep(r) \/ ShutdownFlush(r) \/ Restart(r))
      BY DEF FaultStep, TxFail, TxAckLost, AckFail, Crash, ShutdownFlush, Restart
    <3>5. ASSUME NEW r \in Replicas, CronStep(r)
          PROVE  Scan(r) /\ CanMove
      BY <3>3, <3>5 DEF CronStep, StartCron, Rescue, Scan, Finish, Lock, GetSync, GetBatch, DelEmpty,
         TxApply, TxReplay, TxOrgMissing, Ack, ReclaimUsage, ReclaimBatch, ReclaimDel
    <3>6. ~(LoseGlobalLock \/ DeleteOrg \/ CollectOrphans \/ UNCHANGED vars)
      BY DEF LoseGlobalLock, DeleteOrg, CollectOrphans, vars
    <3> QED
      BY <3>1, <3>2, <3>4, <3>5, <3>6 DEF Next
  <2> QED
    BY <2>1 DEF Scan
<1>2. TypeInv /\ [Next]_vars =>
        [ (Amount(usage) > 0 /\ batch # NoKey /\ orgExists)
          => \/ batch' = batch
             \/ usage' = NoKey /\ batch' = NoKey /\ sync' = usage /\ syncBatch' = batch ]_vars
  BY <1>1
<1> QED
  BY <1>2, TypeInit, TypeStep, PTL DEF Spec, BatchKeepsItsUnits

-----------------------------------------------------------------------------
(* The metering implements UsageBilling *)

\* What a step does to the visible amounts while the organization exists.
Charges(w) == Unbilled' = Unbilled + w /\ quotaUsed' = quotaUsed
Bills(n) == n <= Unbilled /\ Unbilled' = Unbilled - n /\ quotaUsed' = quotaUsed + n
Silent == Unbilled' = Unbilled /\ quotaUsed' = quotaUsed
Visible ==
  \/ \E w \in Weights \cup {WebhookWeight} : Charges(w)
  \/ \E n \in 1..Unbilled : Bills(n)
  \/ Silent

\* What is not billed yet is a number of units.
LEMMA UnbilledType ==
  ASSUME TypeOK
  PROVE  Unbilled \in Nat
  BY NoKeyAssumption DEF TypeOK, Unbilled, Moving, Amount

\* So it is after a step.
LEMMA UnbilledTypeNext ==
  ASSUME TypeOK'
  PROVE  Unbilled' \in Nat
<1>1. usage' \in Nat \cup {NoKey} /\ sync' \in Nat \cup {NoKey}
  BY DEF TypeOK
<1>2. Amount(usage') \in Nat /\ Amount(sync') \in Nat
  BY <1>1, NoKeyAssumption DEF Amount
<1>3. Moving' \in {0, Amount(sync')}
  BY DEF Moving, Amount
<1>4. Unbilled' = Amount(usage') + Moving'
  BY DEF Unbilled, Amount
<1> QED
  BY <1>2, <1>3, <1>4

\* A step charges, bills or leaves what UsageBilling sees.
LEMMA VisibleStep ==
  ASSUME SafeFaults, IInv, IInv', [Next]_vars, orgExists, orgExists'
  PROVE  Visible
<1> USE WeightsAssumption, NoKeyAssumption
<1> USE DEF IInv, TypeOK, OneRunner, SyncPaired, IdsBelowNext, LocalsFresh, BatchesApart, LedgerMatches,
            Unbilled, Moving, Billed, SafeFaults, Rebills, LocksLost, Charges, Bills, Silent,
            redisVars, dbVars, lockVars, replicaVars, Amount, Goto, Fault,
            CronSteps, LockedSteps, CopiedSteps
<1>1. ASSUME NEW cost \in Weights, NEW cached \in Limits, NEW isSync \in BOOLEAN,
             GuardCharge(cost, cached, isSync)
      PROVE  Visible
  <2>1. Charges(cost) \/ Silent
    BY <1>1 DEF GuardCharge
  <2> QED
    BY <2>1 DEF Visible
<1>2. ASSUME NEW d \in Deliveries,
             DeliverySetBatch(d) \/ DeliveryCharge(d) \/ DeliveryAbort(d)
      PROVE  Visible
  <2>1. CASE DeliverySetBatch(d)
    BY <2>1 DEF DeliverySetBatch, Visible
  <2>2. CASE DeliveryCharge(d)
    <3>1. Charges(WebhookWeight)
      BY <2>2 DEF DeliveryCharge
    <3> QED
      BY <3>1 DEF Visible
  <2>3. CASE DeliveryAbort(d)
    BY <2>3 DEF DeliveryAbort, Visible
  <2> QED
    BY <1>2, <2>1, <2>2, <2>3
<1>3. ASSUME NEW r \in Replicas, CronStep(r) \/ FaultStep(r) \/ ShutdownFlush(r) \/ Restart(r)
      PROVE  Visible
  <2>1. CASE Scan(r)
    <3>1. CASE CanMove
      <4>1. ~Billed(batch) /\ \A q \in Replicas : q # r => pc[q] \notin CronSteps
        BY <2>1, <3>1 DEF Scan, CanMove
      <4>2. Unbilled = usage /\ Unbilled' = usage
        BY <2>1, <3>1, <4>1 DEF Scan, CanMove
      <4> QED
        BY <2>1, <4>2 DEF Scan, Visible
    <3>2. CASE ~CanMove
      BY <2>1, <3>2 DEF Scan, Visible
    <3> QED
      BY <3>1, <3>2
  <2>2. CASE TxApply(r)
    <3>1. \A q \in Replicas : pc[q] \notin CopiedSteps /\ pc'[q] \notin CopiedSteps
      BY <2>2 DEF TxApply
    <3>2. Moving = rUsage[r] /\ Moving' = 0
      BY <2>2, <3>1 DEF TxApply, ApplyBatch
    <3>3. Bills(rUsage[r]) /\ rUsage[r] \in Nat
      BY <2>2, <3>2 DEF TxApply, ApplyBatch
    <3>4. rUsage[r] = 0 => Silent
      BY <2>2, <3>2 DEF TxApply, ApplyBatch
    <3>5. rUsage[r] # 0 => rUsage[r] \in 1..Unbilled
      BY <3>3, UnbilledType
    <3> HIDE DEF Bills, Silent, Unbilled
    <3> QED
      BY <3>3, <3>4, <3>5 DEF Visible
  <2>3. CASE StartCron(r)
    BY <2>3 DEF Visible, StartCron
  <2>4. CASE Rescue(r)
    BY <2>4 DEF Visible, Rescue
  <2>5. CASE Finish(r)
    BY <2>5 DEF Visible, Finish
  <2>6. CASE Lock(r)
    BY <2>6 DEF Visible, Lock
  <2>7. CASE GetSync(r)
    BY <2>7 DEF Visible, GetSync
  <2>8. CASE GetBatch(r)
    BY <2>8 DEF Visible, GetBatch
  <2>9. CASE DelEmpty(r)
    BY <2>9 DEF Visible, DelEmpty, Return
  <2>10. CASE TxReplay(r)
    BY <2>10 DEF Visible, TxReplay, SameRow
  <2>11. CASE TxOrgMissing(r)
    BY <2>11 DEF Visible, TxOrgMissing
  <2>12. CASE Ack(r)
    BY <2>12 DEF Visible, Ack, Return
  <2>13. CASE AckFail(r)
    BY <2>13 DEF Visible, AckFail, Return
  <2>14. CASE Drop(r)
    BY <2>14 DEF Visible, Drop, Return
  <2>15. CASE ReclaimUsage(r)
    BY <2>15 DEF Visible, ReclaimUsage
  <2>16. CASE ReclaimBatch(r)
    BY <2>16 DEF Visible, ReclaimBatch
  <2>17. CASE ReclaimDel(r)
    BY <2>17 DEF Visible, ReclaimDel, Return
  <2>18. CASE TxFail(r)
    BY <2>18 DEF Visible, TxFail
  <2>19. CASE TxAckLost(r)
    BY <2>19 DEF Visible, TxAckLost, ApplyBatch
  <2>20. CASE Crash(r)
    BY <2>20 DEF Visible, Crash
  <2>21. CASE ShutdownFlush(r)
    BY <2>21 DEF Visible, ShutdownFlush
  <2>22. CASE Restart(r)
    BY <2>22 DEF Visible, Restart
  <2> QED
    BY <1>3, <2>1, <2>2, <2>3, <2>4, <2>5, <2>6, <2>7, <2>8, <2>9, <2>10, <2>11, <2>12, <2>13, <2>14, <2>15, <2>16, <2>17, <2>18, <2>19, <2>20, <2>21, <2>22 DEF CronStep, FaultStep
<1>4. CASE LoseGlobalLock
  BY <1>4 DEF LoseGlobalLock
<1>5. CASE DeleteOrg
  BY <1>5 DEF DeleteOrg
<1>6. CASE CollectOrphans
  BY <1>6 DEF CollectOrphans
<1>7. CASE UNCHANGED vars
  BY <1>7 DEF vars, Visible
<1> HIDE DEF IInv
<1> QED
  BY <1>1, <1>2, <1>3, <1>4, <1>5, <1>6, <1>7 DEF Next

\* Nothing brings a deleted organization back, and only an existing one is billed.
LEMMA OrgStep ==
  ASSUME TypeOK, [Next]_vars
  PROVE  /\ orgExists' => orgExists
         /\ ~orgExists' => quotaUsed' = quotaUsed
  BY DEF TypeOK, Next, CronStep, FaultStep, vars, redisVars, dbVars, lockVars, replicaVars, ApplyBatch,
     GuardCharge, DeliverySetBatch, DeliveryCharge, DeliveryAbort, StartCron, Rescue, Scan, Finish,
     Lock, GetSync, GetBatch, DelEmpty, TxApply, TxReplay, TxOrgMissing, TxFail, TxAckLost, Ack, AckFail,
     Drop, ReclaimUsage, ReclaimBatch, ReclaimDel, Crash, ShutdownFlush, Restart, LoseGlobalLock,
     DeleteOrg, CollectOrphans

\* The metering implements its abstract specification: every step charges,
\* bills each unit once, closes the organization, or is not visible.
THEOREM Refinement == Spec => ImplementsBilling
<1>1. Init => Billing!Init
  BY NoKeyAssumption DEF Init, Billing!Init, Unbilled, Moving, Amount, CopiedSteps
<1>2. ASSUME SafeFaults, IInv, IInv', [Next]_vars
      PROVE  [Billing!Next]_(Billing!vars)
  <2>1. TypeOK /\ TypeOK' /\ orgExists \in BOOLEAN /\ orgExists' \in BOOLEAN
    BY <1>2 DEF IInv, TypeOK
  <2>2. CASE orgExists /\ orgExists'
    <3>1. Visible
      BY <1>2, <2>2, VisibleStep
    <3>2. orgExists' = orgExists
      BY <2>1, <2>2
    <3> QED
      BY <2>2, <3>1, <3>2
         DEF Visible, Charges, Bills, Silent, Billing!Next, Billing!Charge, Billing!Bill, Billing!vars
  <2>3. CASE ~orgExists'
    <3>1. Unbilled' \in Nat
      BY <2>1, UnbilledTypeNext
    <3>2. quotaUsed' = quotaUsed
      BY <1>2, <2>1, <2>3, OrgStep
    <3>3. orgExists' = FALSE
      BY <2>1, <2>3
    <3> HIDE DEF Unbilled
    <3> QED
      BY <2>1, <3>1, <3>2, <3>3 DEF Billing!Next, Billing!Close, Billing!Forget
  <2> QED
    BY <1>2, <2>1, <2>2, <2>3, OrgStep
<1>3. ASSUME SafeFaults => IInv, (SafeFaults => IInv)', TypeOK, [Next]_vars
      PROVE  [SafeFaults => [Billing!Next]_(Billing!vars)]_vars
  BY <1>2, <1>3, SafeFaultsStep
<1> QED
  BY <1>1, <1>3, SafeInvariant, TypeCorrect, PTL DEF Spec, ImplementsBilling

-----------------------------------------------------------------------------
(* Nothing is lost, even when a reclaim is cut or repeated *)

\* The amount billed before under a batch id, 0 if none was.
BilledBefore(id, n) == IF Billed(id) THEN [batch |-> id, amount |-> n] \in ledger ELSE n = 0

\* The ledger has one row for a batch.
OneRow == \A x, y \in ledger : x.batch = y.batch => x = y

\* What processSyncKey has read, while one replica at a time runs the cron.
LocalsMatch ==
  \A r \in Replicas :
    /\ pc[r] = "getBatch" => rUsage[r] = Amount(sync)
    /\ pc[r] = "delEmpty" => Amount(sync) = 0
    /\ pc[r] \in {"tx", "ack", "reclaim", "drop"} \cup CopiedSteps =>
         sync # NoKey /\ rUsage[r] = sync /\ rBatch[r] = syncBatch
    /\ pc[r] = "ack" => [batch |-> syncBatch, amount |-> sync] \in ledger

\* The shape of a state in which the global lock was never lost, whatever was
\* reclaimed: a batch may be in the bucket, the sync keys and the ledger at once.
Shape == TypeInv /\ OneRunner /\ SyncPaired /\ IdsBelowNext /\ OneRow /\ LocalsMatch

\* The copies of a batch that is billed already are surplus: without them the
\* bucket, the sync keys and the bill still cover what was charged ...
Held(b, s) ==
  /\ b <= Amount(usage) /\ s <= Amount(sync)
  /\ charged + b + s <= quotaUsed + Amount(usage) + Amount(sync)
\* ... so does the bucket alone once a reclaim has copied the sync keys to it ...
HeldCopied(b, s) ==
  \A r \in Replicas :
    /\ pc[r] \in CopiedSteps => Amount(sync) <= Amount(usage) /\ charged + b <= quotaUsed + Amount(usage)
    /\ pc[r] = "reclaimBatch" => charged + b + s <= quotaUsed + Amount(usage)
\* ... and when an unbilled batch is left in both places by a reclaim cut in the middle.
HeldTwice ==
  (batch # NoKey /\ batch = syncBatch /\ ~Billed(batch)) =>
     Amount(sync) <= Amount(usage) /\ charged <= quotaUsed + Amount(usage)

Kept ==
  /\ HeldTwice
  /\ \A b, s \in Nat :
       (BilledBefore(batch, b) /\ BilledBefore(syncBatch, s)) => Held(b, s) /\ HeldCopied(b, s)

\* The holder of the global lock, the keys and its copies fit together after any
\* step, while that lock outlives the cron.
LEMMA ShapeStep ==
  ASSUME ~LocksLost, Shape, [Next]_vars
  PROVE  Shape'
<1> USE WeightsAssumption, BalanceAssumption, BoundAssumption, NoKeyAssumption
<1>0. TypeInv'
  BY TypeStep DEF Shape
<1> HIDE DEF TypeInv
<1> SUFFICES OneRunner' /\ SyncPaired' /\ IdsBelowNext' /\ OneRow' /\ LocalsMatch'
  BY <1>0 DEF Shape
<1>a. TypeInv /\ TypeOK /\ TypeOK'
  BY <1>0 DEF Shape, TypeInv
<1> USE <1>a
<1> USE DEF Shape, TypeOK, OneRunner, SyncPaired, IdsBelowNext, OneRow, LocalsMatch, Billed, LocksLost,
            redisVars, dbVars, lockVars, replicaVars, Amount, Goto, Fault,
            Steps, CronSteps, LockedSteps, CopiedSteps
<1>1. ASSUME NEW cost \in Weights, NEW cached \in Limits, NEW isSync \in BOOLEAN,
             GuardCharge(cost, cached, isSync)
      PROVE  OneRunner' /\ SyncPaired' /\ IdsBelowNext' /\ OneRow' /\ LocalsMatch'
  BY <1>1 DEF GuardCharge, GuardBatch, Refused
<1>2. ASSUME NEW d \in Deliveries,
             DeliverySetBatch(d) \/ DeliveryCharge(d) \/ DeliveryAbort(d)
      PROVE  OneRunner' /\ SyncPaired' /\ IdsBelowNext' /\ OneRow' /\ LocalsMatch'
  <2>1. CASE DeliverySetBatch(d)
    BY <2>1 DEF DeliverySetBatch
  <2>2. CASE DeliveryCharge(d)
    BY <2>2 DEF DeliveryCharge
  <2>3. CASE DeliveryAbort(d)
    BY <2>3 DEF DeliveryAbort
  <2> QED
    BY <1>2, <2>1, <2>2, <2>3
<1>3. ASSUME NEW r \in Replicas, CronStep(r) \/ FaultStep(r) \/ ShutdownFlush(r) \/ Restart(r)
      PROVE  OneRunner' /\ SyncPaired' /\ IdsBelowNext' /\ OneRow' /\ LocalsMatch'
  <2>1. CASE StartCron(r)
    BY <2>1 DEF StartCron
  <2>2. CASE Rescue(r)
    BY <2>2 DEF Rescue
  <2>3. CASE Scan(r)
    BY <2>3 DEF Scan
  <2>4. CASE Finish(r)
    BY <2>4 DEF Finish
  <2>5. CASE Lock(r)
    BY <2>5 DEF Lock
  <2>6. CASE GetSync(r)
    BY <2>6 DEF GetSync
  <2>7. CASE GetBatch(r)
    BY <2>7 DEF GetBatch
  <2>8. CASE DelEmpty(r)
    BY <2>8 DEF DelEmpty, Return
  <2>9. CASE TxApply(r)
    BY <2>9 DEF TxApply, ApplyBatch
  <2>10. CASE TxReplay(r)
    BY <2>10 DEF TxReplay, SameRow
  <2>11. CASE TxOrgMissing(r)
    BY <2>11 DEF TxOrgMissing
  <2>12. CASE Ack(r)
    BY <2>12 DEF Ack, Return
  <2>13. CASE Drop(r)
    BY <2>13 DEF Drop, Return
  <2>14. CASE ReclaimUsage(r)
    BY <2>14 DEF ReclaimUsage
  <2>15. CASE ReclaimBatch(r)
    BY <2>15 DEF ReclaimBatch
  <2>16. CASE ReclaimDel(r)
    BY <2>16 DEF ReclaimDel, Return
  <2>17. CASE TxFail(r)
    BY <2>17 DEF TxFail
  <2>18. CASE TxAckLost(r)
    BY <2>18 DEF TxAckLost, ApplyBatch
  <2>19. CASE AckFail(r)
    BY <2>19 DEF AckFail, Return
  <2>20. CASE Crash(r)
    BY <2>20 DEF Crash
  <2>21. CASE ShutdownFlush(r)
    BY <2>21 DEF ShutdownFlush
  <2>22. CASE Restart(r)
    BY <2>22 DEF Restart
  <2> QED
    BY <1>3, <2>1, <2>2, <2>3, <2>4, <2>5, <2>6, <2>7, <2>8, <2>9, <2>10, <2>11, <2>12, <2>13, <2>14, <2>15, <2>16, <2>17, <2>18, <2>19, <2>20, <2>21, <2>22 DEF CronStep, FaultStep
<1>4. CASE LoseGlobalLock
  BY <1>4 DEF LoseGlobalLock
<1>5. CASE DeleteOrg
  BY <1>5 DEF DeleteOrg
<1>6. CASE CollectOrphans
  BY <1>6 DEF CollectOrphans
<1>7. CASE UNCHANGED vars
  BY <1>7 DEF vars
<1> QED
  BY <1>1, <1>2, <1>3, <1>4, <1>5, <1>6, <1>7 DEF Next

\* Every batch has an amount billed before, be it none.
LEMMA BeforeExists ==
  ASSUME TypeOK, NEW id
  PROVE  \E n \in Nat : BilledBefore(id, n)
  BY DEF TypeOK, BilledBefore, Billed

\* A batch is written to the ledger: what the sync keys hold is billed once more.
LEMMA ApplyKeeps ==
  ASSUME Shape, Shape', ~LocksLost, orgExists, Kept, NEW r \in Replicas, pc[r] = "tx", ApplyBatch(r),
         UNCHANGED <<usage, batch, sync, syncBatch, charged>>,
         \A q \in Replicas : pc'[q] \notin CopiedSteps
  PROVE  Kept'
<1> USE NoKeyAssumption
<1>1. /\ TypeOK /\ TypeOK' /\ sync \in Nat /\ rUsage[r] = sync /\ rBatch[r] = syncBatch /\ syncBatch \in Nat
      /\ ~Billed(syncBatch)
  BY DEF Shape, TypeInv, TypeOK, LocalsMatch, ApplyBatch
<1>2. ledger' = ledger \cup {[batch |-> syncBatch, amount |-> sync]} /\ quotaUsed' = quotaUsed + sync
  BY <1>1 DEF ApplyBatch
<1>3. Amount(usage) \in Nat /\ Amount(sync) = sync /\ charged \in Nat /\ quotaUsed \in Nat
      /\ Amount(usage)' = Amount(usage) /\ Amount(sync)' = sync
  BY <1>1 DEF TypeOK, Amount
<1>4. \A b \in Nat : BilledBefore(batch, b) => Held(b, 0)
  <2>1. BilledBefore(syncBatch, 0)
    BY <1>1 DEF BilledBefore
  <2> QED
    BY <2>1 DEF Kept
<1>5. HeldTwice'
  <2>1. (batch # NoKey /\ batch = syncBatch) => Billed(batch)'
    <3>1. [batch |-> syncBatch, amount |-> sync] \in ledger' /\ batch' = batch
      BY <1>2
    <3> QED
      BY <3>1 DEF Billed
  <2> QED
    BY <2>1 DEF HeldTwice
<1>6. ASSUME NEW b \in Nat, NEW s \in Nat, BilledBefore(batch, b)', BilledBefore(syncBatch, s)'
      PROVE  Held(b, s)' /\ HeldCopied(b, s)'
  <2>1. s = sync
    BY <1>1, <1>2, <1>6 DEF BilledBefore, Billed
  <2>2. CASE batch = syncBatch
    <3>1. b = sync
      BY <1>1, <1>2, <1>6, <2>2 DEF BilledBefore, Billed
    <3>2. sync <= Amount(usage) /\ charged <= quotaUsed + Amount(usage)
      BY <1>1, <1>3, <2>2 DEF Kept, HeldTwice
    <3> QED
      BY <1>1, <1>2, <1>3, <2>1, <3>1, <3>2 DEF Held, HeldCopied, CopiedSteps
  <2>3. CASE batch # syncBatch
    <3>1. BilledBefore(batch, b)
      BY <1>2, <1>6, <2>3 DEF BilledBefore, Billed
    <3>2. Held(b, 0)
      BY <3>1, <1>4
    <3> QED
      BY <1>1, <1>2, <1>3, <2>1, <3>2 DEF Held, HeldCopied, CopiedSteps
  <2> QED
    BY <2>2, <2>3
<1> QED
  BY <1>5, <1>6 DEF Kept

\* Units are charged, and the bucket keeps its batch, loses it or opens a new one.
LEMMA OpenKeeps ==
  ASSUME Shape, Shape', Kept, NEW c \in Nat, charged' = charged + c, Amount(usage)' = Amount(usage) + c,
         UNCHANGED <<sync, syncBatch, ledger, quotaUsed, pc>>, batch' \in {batch, NoKey, nextId}
  PROVE  Kept'
<1> USE NoKeyAssumption
<1>1. /\ TypeOK /\ Amount(usage) \in Nat /\ Amount(sync) \in Nat /\ charged \in Nat /\ quotaUsed \in Nat
      /\ nextId \in Nat /\ Amount(sync)' = Amount(sync)
  BY DEF Shape, TypeInv, TypeOK, Amount
<1>2. ~Billed(NoKey) /\ ~Billed(nextId) /\ (syncBatch # NoKey => syncBatch # nextId)
  BY <1>1 DEF Shape, TypeOK, IdsBelowNext, Billed
<1>3. \A id, n : (BilledBefore(id, n)' <=> BilledBefore(id, n)) /\ (Billed(id)' <=> Billed(id))
  BY DEF BilledBefore, Billed
<1>4. HeldTwice'
  <2>1. (batch' # NoKey /\ batch' = syncBatch') => batch' = batch
    BY <1>2
  <2> QED
    BY <1>1, <1>3, <2>1 DEF Kept, HeldTwice, Billed
<1>5. ASSUME NEW b \in Nat, NEW s \in Nat, BilledBefore(batch, b)', BilledBefore(syncBatch, s)'
      PROVE  Held(b, s)' /\ HeldCopied(b, s)'
  <2>1. PICK n \in Nat : BilledBefore(batch, n)
    BY <1>1, BeforeExists
  <2>2. BilledBefore(syncBatch, s)
    BY <1>5 DEF BilledBefore, Billed
  <2>3. BilledBefore(batch, b) \/ b = 0
    BY <1>2, <1>5 DEF BilledBefore, Billed
  <2>4. \E m \in Nat : b <= m /\ Held(m, s) /\ HeldCopied(m, s)
    BY <2>1, <2>2, <2>3 DEF Kept
  <2> QED
    BY <1>1, <2>4 DEF Held, HeldCopied
<1> QED
  BY <1>4, <1>5 DEF Kept

\* No unit leaves the keys, the copies or the ledger, while the global lock
\* outlives the cron.
LEMMA KeptStep ==
  ASSUME ~LocksLost, Shape, Shape', orgExists', orgExists, Kept, [Next]_vars
  PROVE  Kept'
<1> USE WeightsAssumption, NoKeyAssumption
<1> USE DEF Shape, TypeInv, TypeOK, OneRunner, SyncPaired, IdsBelowNext, OneRow, LocalsMatch, Billed, LocksLost,
            BilledBefore, Held, HeldCopied, HeldTwice, Kept,
            redisVars, dbVars, lockVars, replicaVars, Amount, Goto, Fault,
            CronSteps, LockedSteps, CopiedSteps
<1>1. ASSUME NEW cost \in Weights, NEW cached \in Limits, NEW isSync \in BOOLEAN,
             GuardCharge(cost, cached, isSync)
      PROVE  Kept'
  <2>1. \E c \in Nat : charged' = charged + c /\ Amount(usage)' = Amount(usage) + c
    BY <1>1 DEF GuardCharge
  <2>2. UNCHANGED <<sync, syncBatch, ledger, quotaUsed, pc>> /\ batch' \in {batch, NoKey, nextId}
    BY <1>1 DEF GuardCharge, GuardBatch
  <2> QED
    BY <2>1, <2>2, OpenKeeps
<1>2. ASSUME NEW d \in Deliveries,
             DeliverySetBatch(d) \/ DeliveryCharge(d) \/ DeliveryAbort(d)
      PROVE  Kept'
  <2>1. \E c \in Nat : charged' = charged + c /\ Amount(usage)' = Amount(usage) + c
    <3>1. \/ charged' = charged + 0 /\ Amount(usage)' = Amount(usage) + 0
          \/ charged' = charged + WebhookWeight /\ Amount(usage)' = Amount(usage) + WebhookWeight
      BY <1>2 DEF DeliverySetBatch, DeliveryCharge, DeliveryAbort
    <3> QED
      BY <3>1
  <2>2. UNCHANGED <<sync, syncBatch, ledger, quotaUsed, pc>> /\ batch' \in {batch, NoKey, nextId}
    BY <1>2 DEF DeliverySetBatch, DeliveryCharge, DeliveryAbort
  <2> QED
    BY <2>1, <2>2, OpenKeeps
<1>3. ASSUME NEW r \in Replicas, CronStep(r) \/ FaultStep(r) \/ ShutdownFlush(r) \/ Restart(r)
      PROVE  Kept'
  <2>1. CASE StartCron(r)
    BY <2>1 DEF StartCron
  <2>2. CASE Rescue(r)
    BY <2>2 DEF Rescue
  <2>3. CASE Scan(r)
    <3>1. CASE CanMove
      <4>1. \A q \in Replicas : pc'[q] \notin CopiedSteps
        BY <2>3, <3>1 DEF Scan, CanMove
      <4>2. /\ sync = NoKey /\ ~Billed(NoKey) /\ usage \in Nat
            /\ sync' = usage /\ usage' = NoKey /\ syncBatch' = batch /\ batch' = NoKey
            /\ UNCHANGED <<ledger, quotaUsed, charged>>
        BY <2>3, <3>1 DEF Scan, CanMove
      <4>3. ASSUME NEW b \in Nat, NEW s \in Nat, BilledBefore(batch, b)', BilledBefore(syncBatch, s)'
            PROVE  Held(b, s)'
        <5>1. b = 0 /\ BilledBefore(batch, s) /\ BilledBefore(syncBatch, 0)
          BY <3>1, <4>2, <4>3 DEF CanMove
        <5>2. Held(s, 0)
          BY <5>1
        <5> QED
          BY <4>2, <5>1, <5>2
      <4> QED
        BY <4>1, <4>2, <4>3
    <3>2. CASE ~CanMove
      BY <2>3, <3>2 DEF Scan
    <3> QED
      BY <3>1, <3>2
  <2>4. CASE Finish(r)
    BY <2>4 DEF Finish
  <2>5. CASE Lock(r)
    BY <2>5 DEF Lock
  <2>6. CASE GetSync(r)
    BY <2>6 DEF GetSync
  <2>7. CASE GetBatch(r)
    BY <2>7 DEF GetBatch
  <2>8. CASE DelEmpty(r)
    BY <2>8 DEF DelEmpty, Return
  <2>9. CASE TxApply(r)
    BY <2>9, ApplyKeeps, ZenonT(30) DEF TxApply
  <2>10. CASE TxReplay(r)
    BY <2>10 DEF TxReplay, SameRow
  <2>11. CASE TxOrgMissing(r)
    BY <2>11 DEF TxOrgMissing
  <2>12. CASE Ack(r)
    BY <2>12 DEF Ack, Return
  <2>13. CASE Drop(r)
    BY <2>13 DEF Drop, Return
  <2>14. CASE ReclaimUsage(r)
    BY <2>14 DEF ReclaimUsage
  <2>15. CASE ReclaimBatch(r)
    BY <2>15 DEF ReclaimBatch
  <2>16. CASE ReclaimDel(r)
    BY <2>16 DEF ReclaimDel, Return
  <2>17. CASE TxFail(r)
    BY <2>17 DEF TxFail
  <2>18. CASE TxAckLost(r)
    BY <2>18, ApplyKeeps DEF TxAckLost
  <2>19. CASE AckFail(r)
    BY <2>19 DEF AckFail, Return
  <2>20. CASE Crash(r)
    BY <2>20 DEF Crash
  <2>21. CASE ShutdownFlush(r)
    BY <2>21 DEF ShutdownFlush
  <2>22. CASE Restart(r)
    BY <2>22 DEF Restart
  <2> QED
    BY <1>3, <2>1, <2>2, <2>3, <2>4, <2>5, <2>6, <2>7, <2>8, <2>9, <2>10, <2>11, <2>12, <2>13, <2>14, <2>15, <2>16, <2>17, <2>18, <2>19, <2>20, <2>21, <2>22 DEF CronStep, FaultStep
<1>4. CASE LoseGlobalLock
  BY <1>4 DEF LoseGlobalLock
<1>5. CASE DeleteOrg
  BY <1>5 DEF DeleteOrg
<1>6. CASE CollectOrphans
  BY <1>6 DEF CollectOrphans
<1>7. CASE UNCHANGED vars
  BY <1>7 DEF vars
<1> HIDE DEF Kept, Shape
<1> QED
  BY <1>1, <1>2, <1>3, <1>4, <1>5, <1>6, <1>7 DEF Next

\* Both hold in the initial state.
LEMMA ShapeInit == Init => Shape /\ Kept
<1> SUFFICES ASSUME Init
             PROVE  Shape /\ Kept
  OBVIOUS
<1>1. Shape
  BY TypeInit DEF Init, Shape, OneRunner, SyncPaired, IdsBelowNext, OneRow, LocalsMatch,
     CronSteps, LockedSteps, CopiedSteps
<1>2. \A id, n : BilledBefore(id, n) => n = 0
  BY DEF Init, BilledBefore, Billed
<1> QED
  BY <1>1, <1>2 DEF Init, Kept, HeldTwice, Held, HeldCopied, Amount, CopiedSteps

\* So they hold in every state of a behaviour in which the global lock outlives
\* the cron.
LEMMA KeptInvariant == Spec => [](~LocksLost => Shape /\ (orgExists => Kept))
<1>1. Init => (~LocksLost => Shape /\ (orgExists => Kept))
  BY ShapeInit
<1>2. ASSUME ~LocksLost => Shape /\ (orgExists => Kept), TypeOK, [Next]_vars
      PROVE  (~LocksLost => Shape /\ (orgExists => Kept))'
  <2>1. LocksLost' <=> LocksLost
    BY <1>2, AllowedStep DEF LocksLost
  <2> QED
    BY <1>2, <2>1, ShapeStep, KeptStep, OrgStep
<1> QED
  BY <1>1, <1>2, TypeCorrect, PTL DEF Spec

\* No unit of an organization that exists disappears, even when a reclaim is
\* cut in the middle or a commit is taken for a failure, as long as the global
\* lock outlives the cron.
THEOREM NothingLost == Spec => []NoUsageLost
<1>1. ASSUME TypeOK, ~LocksLost => Shape /\ (orgExists => Kept)
      PROVE  NoUsageLost
  <2> SUFFICES ASSUME orgExists, ~LocksLost
               PROVE  charged <= quotaUsed + Amount(usage) + Amount(sync)
    BY DEF NoUsageLost
  <2>1. /\ charged \in Nat /\ quotaUsed \in Nat /\ Amount(usage) \in Nat /\ Amount(sync) \in Nat
    BY <1>1, NoKeyAssumption DEF TypeOK, Amount
  <2>2. PICK b \in Nat : BilledBefore(batch, b)
    BY <1>1, BeforeExists
  <2>3. PICK s \in Nat : BilledBefore(syncBatch, s)
    BY <1>1, BeforeExists
  <2>4. Held(b, s)
    BY <1>1, <2>2, <2>3 DEF Kept
  <2> QED
    BY <2>1, <2>4 DEF Held
<1> QED
  BY <1>1, KeptInvariant, TypeCorrect, PTL

-----------------------------------------------------------------------------
(* Nothing is billed twice, even when the global lock expires *)

\* Only the holder of the organization's lock is inside processSyncKey.
HoldsLock == \A r \in Replicas : pc[r] \in LockedSteps => orgLock = r

\* What processSyncKey has read under that lock: a cron without the global lock
\* may move a new bucket to sync keys that it found empty.
LocalsLocked ==
  \A r \in Replicas :
    /\ pc[r] = "getBatch" => rUsage[r] \in {0, Amount(sync)}
    /\ pc[r] \in {"tx", "ack", "reclaim", "drop"} \cup CopiedSteps =>
         sync # NoKey /\ rUsage[r] = sync /\ rBatch[r] = syncBatch
    /\ pc[r] = "ack" => Billed(syncBatch)

BilledAtMost == /\ quotaUsed <= charged
                /\ orgExists => quotaUsed + Unbilled <= charged

LockInv ==
  /\ TypeInv
  /\ HoldsLock
  /\ SyncPaired
  /\ IdsBelowNext
  /\ LocalsLocked
  /\ BatchesApart
  /\ LedgerMatches
  /\ BilledAtMost

\* Without replays and cut reclaims the invariant of the organization's lock
\* survives every step, also those of a cron that has lost the global one.
LEMMA LockedStep ==
  ASSUME ~Rebills, LockInv, TypeInv', [Next]_vars
  PROVE  LockInv'
<1> USE WeightsAssumption, BalanceAssumption, BoundAssumption, NoKeyAssumption
<1> USE DEF LockInv, TypeInv, TypeOK, HoldsLock, SyncPaired, IdsBelowNext, LocalsLocked, BatchesApart, LedgerMatches,
            BilledAtMost, Unbilled, Moving, Billed, Rebills,
            redisVars, dbVars, lockVars, replicaVars, Amount, Goto, Fault,
            Steps, CronSteps, LockedSteps, CopiedSteps
<1>1. ASSUME NEW cost \in Weights, NEW cached \in Limits, NEW isSync \in BOOLEAN,
             GuardCharge(cost, cached, isSync)
      PROVE  LockInv'
  BY <1>1 DEF GuardCharge, GuardBatch, Refused
<1>2. ASSUME NEW d \in Deliveries,
             DeliverySetBatch(d) \/ DeliveryCharge(d) \/ DeliveryAbort(d)
      PROVE  LockInv'
  <2>1. CASE DeliverySetBatch(d)
    BY <2>1 DEF DeliverySetBatch
  <2>2. CASE DeliveryCharge(d)
    BY <2>2 DEF DeliveryCharge
  <2>3. CASE DeliveryAbort(d)
    BY <2>3, SMTT(30) DEF DeliveryAbort
  <2> QED
    BY <1>2, <2>1, <2>2, <2>3
<1>3. ASSUME NEW r \in Replicas, CronStep(r) \/ FaultStep(r) \/ ShutdownFlush(r) \/ Restart(r)
      PROVE  LockInv'
  <2>1. CASE StartCron(r)
    BY <2>1 DEF StartCron
  <2>2. CASE Rescue(r)
    BY <2>2 DEF Rescue
  <2>3. CASE Scan(r)
    <3>1. CASE CanMove
      <4>1. \A q \in Replicas : pc[q] \notin {"tx", "ack", "reclaim", "drop"} \cup CopiedSteps
        BY <3>1 DEF CanMove
      <4>2. TypeInv' /\ HoldsLock' /\ SyncPaired' /\ IdsBelowNext' /\ BatchesApart'
        BY <2>3, <3>1 DEF Scan, CanMove
      <4>3. LocalsLocked'
        BY <2>3, <3>1, <4>1 DEF Scan, CanMove
      <4>4. LedgerMatches'
        BY <2>3, <3>1, <4>1 DEF Scan, CanMove
      <4>5. BilledAtMost'
        BY <2>3, <3>1, <4>1 DEF Scan, CanMove
      <4> QED
        BY <4>2, <4>3, <4>4, <4>5
    <3>2. CASE ~CanMove
      BY <2>3, <3>2 DEF Scan
    <3> QED
      BY <3>1, <3>2
  <2>4. CASE Finish(r)
    BY <2>4 DEF Finish
  <2>5. CASE Lock(r)
    BY <2>5 DEF Lock
  <2>6. CASE GetSync(r)
    BY <2>6 DEF GetSync
  <2>7. CASE GetBatch(r)
    BY <2>7 DEF GetBatch
  <2>8. CASE DelEmpty(r)
    BY <2>8 DEF DelEmpty, Return
  <2>9. CASE TxApply(r)
    BY <2>9 DEF TxApply, ApplyBatch
  <2>10. CASE TxReplay(r)
    BY <2>10 DEF TxReplay, SameRow
  <2>11. CASE TxOrgMissing(r)
    BY <2>11 DEF TxOrgMissing
  <2>12. CASE Ack(r)
    BY <2>12 DEF Ack, Return
  <2>13. CASE Drop(r)
    BY <2>13 DEF Drop, Return
  <2>14. CASE ReclaimUsage(r)
    BY <2>14 DEF ReclaimUsage
  <2>15. CASE ReclaimBatch(r)
    BY <2>15 DEF ReclaimBatch
  <2>16. CASE ReclaimDel(r)
    BY <2>16 DEF ReclaimDel, Return
  <2>17. CASE TxFail(r)
    BY <2>17 DEF TxFail
  <2>18. CASE TxAckLost(r)
    BY <2>18 DEF TxAckLost, ApplyBatch
  <2>19. CASE AckFail(r)
    BY <2>19 DEF AckFail, Return
  <2>20. CASE Crash(r)
    BY <2>20 DEF Crash
  <2>21. CASE ShutdownFlush(r)
    BY <2>21 DEF ShutdownFlush
  <2>22. CASE Restart(r)
    BY <2>22 DEF Restart
  <2> QED
    BY <1>3, <2>1, <2>2, <2>3, <2>4, <2>5, <2>6, <2>7, <2>8, <2>9, <2>10, <2>11, <2>12, <2>13, <2>14, <2>15, <2>16, <2>17, <2>18, <2>19, <2>20, <2>21, <2>22 DEF CronStep, FaultStep
<1>4. CASE LoseGlobalLock
  BY <1>4 DEF LoseGlobalLock
<1>5. CASE DeleteOrg
  BY <1>5 DEF DeleteOrg
<1>6. CASE CollectOrphans
  BY <1>6 DEF CollectOrphans
<1>7. CASE UNCHANGED vars
  BY <1>7 DEF vars
<1> HIDE DEF LockInv
<1> QED
  BY <1>1, <1>2, <1>3, <1>4, <1>5, <1>6, <1>7 DEF Next

\* It holds in the initial state.
LEMMA LockedInit == Init => LockInv
  BY TypeInit, NoKeyAssumption
     DEF Init, LockInv, TypeInv, HoldsLock, SyncPaired, IdsBelowNext, LocalsLocked, BatchesApart, LedgerMatches,
         BilledAtMost, Unbilled, Moving, Billed, Amount, CronSteps, LockedSteps, CopiedSteps

\* No unit is billed twice, even when the global lock expires under a cron that
\* goes on and a second one runs beside it: the lock of the organization and the
\* batch ids of the ledger suffice, as long as no reclaim is cut in the middle
\* and no commit is taken for a failure.
THEOREM NeverOverBilledHolds == Spec => []NeverOverBilled
<1>1. Init => TypeInv /\ (~Rebills => LockInv)
  BY TypeInit, LockedInit
<1>2. ASSUME TypeInv, ~Rebills => LockInv, [Next]_vars
      PROVE  TypeInv' /\ (~Rebills => LockInv)'
  <2>1. Rebills' <=> Rebills
    BY <1>2, AllowedStep DEF Rebills, TypeInv
  <2> QED
    BY <1>2, <2>1, TypeStep, LockedStep
<1>3. (~Rebills => LockInv) => NeverOverBilled
  BY DEF LockInv, BilledAtMost, NeverOverBilled
<1> QED
  BY <1>1, <1>2, <1>3, PTL DEF Spec

-----------------------------------------------------------------------------
(* The counters of requests and of failed sign-ins *)

At(steps) == {i \in Clients : client[i] \in steps}
Rated == At({"rateIncr"})
Due == At({"rateIncr", "rateExpire", "read", "compare", "loginIncr"})
Past == At({"loginIncr", "clear"})
Comparing == At({"compare"})
First == At({"rateExpire"})

\* A request raises each counter once at most.
TriesCounted ==
  /\ count["rate"] + Cardinality(Rated) <= tries
  /\ count["login"] + Cardinality(Due) <= tries

\* A compared password is counted, still to be counted, to be cleared, or lost.
GuessesCounted ==
  checked["login"] <= count["login"] + Cardinality(Past) + failures

\* Each request that is about to compare a password adds one guess.
GuessesToCome ==
  checked["login"] + Cardinality(Comparing) <= Limit - 1 + Cardinality(Clients) + failures

\* The first request of a window is let through once the window has its end, and
\* no window ends before.
FirstOfWindow ==
  /\ expires["rate"] => count["rate"] > 0
  /\ \A i \in First :
       /\ count["rate"] > 0 /\ ~expires["rate"]
       /\ checked["rate"] < count["rate"] /\ checked["rate"] < Limit
       /\ \A j \in First : j = i
LetThrough == checked["rate"] <= count["rate"] /\ checked["rate"] <= Limit

LimitTyped ==
  /\ count \in [Counters -> Nat] /\ expires \in [Counters -> BOOLEAN] /\ checked \in [Counters -> Nat]
  /\ client \in [Clients -> ClientSteps]
  /\ tries \in 0..MaxTries /\ failures \in 0..MaxLost
  /\ neverEnds \subseteq Counters

LimitInv == LimitTyped /\ TriesCounted /\ GuessesCounted /\ GuessesToCome /\ FirstOfWindow /\ LetThrough

\* One more element makes a set larger by one at most.
LEMMA OneMore ==
  ASSUME NEW A, NEW B, IsFiniteSet(B), NEW x, A \subseteq B \cup {x}
  PROVE  Cardinality(A) <= Cardinality(B) + 1
<1>1. IsFiniteSet(B \cup {x}) /\ Cardinality(B \cup {x}) = IF x \in B THEN Cardinality(B) ELSE Cardinality(B) + 1
  BY FS_AddElement
<1>2. IsFiniteSet(A) /\ Cardinality(A) <= Cardinality(B \cup {x})
  BY <1>1, FS_Subset
<1>3. Cardinality(A) \in Nat /\ Cardinality(B) \in Nat
  BY <1>2, FS_CardinalityType
<1> QED
  BY <1>1, <1>2, <1>3

\* One element less makes it smaller by one.
LEMMA OneLess ==
  ASSUME NEW A, NEW B, IsFiniteSet(B), NEW x \in B, A \subseteq B \ {x}
  PROVE  Cardinality(A) + 1 <= Cardinality(B)
<1>1. IsFiniteSet(B \ {x}) /\ Cardinality(B \ {x}) = Cardinality(B) - 1
  BY FS_RemoveElement
<1>2. IsFiniteSet(A) /\ Cardinality(A) <= Cardinality(B \ {x})
  BY <1>1, FS_Subset
<1>3. Cardinality(A) \in Nat /\ Cardinality(B) \in Nat
  BY <1>2, FS_CardinalityType
<1> QED
  BY <1>1, <1>2, <1>3

\* A client that moves: how many are at some steps afterwards.
LEMMA Moved ==
  ASSUME LimitTyped, NEW i \in Clients, NEW to \in ClientSteps, client' = [client EXCEPT ![i] = to], NEW steps
  PROVE  /\ Cardinality(At(steps)) \in Nat /\ Cardinality(At(steps)') \in Nat
         /\ Cardinality(At(steps)') <= Cardinality(At(steps)) + 1
         /\ client[i] \in steps \/ to \notin steps => Cardinality(At(steps)') <= Cardinality(At(steps))
         /\ client[i] \in steps /\ to \notin steps => Cardinality(At(steps)') + 1 <= Cardinality(At(steps))
         /\ Cardinality(At(steps)) <= Cardinality(At(steps)') + 1
         /\ client[i] \notin steps \/ to \in steps => Cardinality(At(steps)) <= Cardinality(At(steps)')
         /\ client[i] \notin steps /\ to \in steps => Cardinality(At(steps)) + 1 <= Cardinality(At(steps)')
         /\ client' \in [Clients -> ClientSteps] /\ client'[i] = to /\ \A j \in Clients \ {i} : client'[j] = client[j]
<1>1. client' \in [Clients -> ClientSteps] /\ client'[i] = to /\ \A j \in Clients \ {i} : client'[j] = client[j]
  BY DEF LimitTyped
<1> DEFINE A == At(steps)
           B == At(steps)'
<1>2. A \in SUBSET Clients /\ B \in SUBSET Clients /\ (client[i] \in steps => i \in A) /\ (to \in steps => i \in B)
  BY <1>1 DEF At
<1>3. /\ B \subseteq A \cup {i}
      /\ client[i] \in steps \/ to \notin steps => B \subseteq A
      /\ to \notin steps => B \subseteq A \ {i}
      /\ A \subseteq B \cup {i}
      /\ client[i] \notin steps \/ to \in steps => A \subseteq B
      /\ client[i] \notin steps => A \subseteq B \ {i}
  BY <1>1 DEF At
<1> HIDE DEF A, B
<1>4. IsFiniteSet(Clients)
  BY LimitAssumption
<1>5. IsFiniteSet(A) /\ IsFiniteSet(B) /\ Cardinality(A) \in Nat /\ Cardinality(B) \in Nat
  BY <1>2, <1>4, FS_Subset, FS_CardinalityType
<1>6. Cardinality(B) <= Cardinality(A) + 1 /\ Cardinality(A) <= Cardinality(B) + 1
  BY <1>3, <1>5, OneMore
<1>7. /\ B \subseteq A => Cardinality(B) <= Cardinality(A)
      /\ A \subseteq B => Cardinality(A) <= Cardinality(B)
  BY <1>5, FS_Subset
<1>8. ASSUME i \in A, B \subseteq A \ {i}
      PROVE  Cardinality(B) + 1 <= Cardinality(A)
  BY <1>5, <1>8, OneLess
<1>9. ASSUME i \in B, A \subseteq B \ {i}
      PROVE  Cardinality(A) + 1 <= Cardinality(B)
  BY <1>5, <1>9, OneLess
<1> QED
  BY <1>1, <1>2, <1>3, <1>5, <1>6, <1>7, <1>8, <1>9 DEF A, B

\* What one client's step does to who is where.
LEMMA ClientMoves ==
  ASSUME LimitTyped, NEW i \in Clients, NEW to \in ClientSteps, client' = [client EXCEPT ![i] = to]
  PROVE  /\ client' \in [Clients -> ClientSteps] /\ client'[i] = to /\ \A j \in Clients \ {i} : client'[j] = client[j]
         /\ Cardinality(Clients) \in Nat
         /\ Cardinality(Rated) \in Nat /\ Cardinality(Rated') \in Nat /\ Cardinality(Due) \in Nat /\ Cardinality(Due') \in Nat
         /\ Cardinality(Past) \in Nat /\ Cardinality(Past') \in Nat
         /\ Cardinality(Comparing) \in Nat /\ Cardinality(Comparing') \in Nat
         /\ Cardinality(Rated') <= Cardinality(Rated) + 1 /\ Cardinality(Due') <= Cardinality(Due) + 1
         /\ Cardinality(Past) <= Cardinality(Past') + 1 /\ Cardinality(Comparing') <= Cardinality(Comparing) + 1
         /\ to # "rateIncr" =>
              /\ Cardinality(Rated') <= Cardinality(Rated)
              /\ client[i] = "rateIncr" => Cardinality(Rated') + 1 <= Cardinality(Rated)
         /\ client[i] \in {"rateIncr", "rateExpire", "read", "compare", "loginIncr"}
              \/ to \notin {"rateIncr", "rateExpire", "read", "compare", "loginIncr"} => Cardinality(Due') <= Cardinality(Due)
         /\ client[i] = "loginIncr" /\ to \in {"loginExpire", "idle"} => Cardinality(Due') + 1 <= Cardinality(Due)
         /\ client[i] \notin {"loginIncr", "clear"} =>
              /\ Cardinality(Past) <= Cardinality(Past')
              /\ to \in {"loginIncr", "clear"} => Cardinality(Past) + 1 <= Cardinality(Past')
         /\ to # "compare" =>
              /\ Cardinality(Comparing') <= Cardinality(Comparing)
              /\ client[i] = "compare" => Cardinality(Comparing') + 1 <= Cardinality(Comparing)
         /\ Cardinality(Past') + Cardinality(Comparing') <= Cardinality(Clients)
<1>1. client' \in [Clients -> ClientSteps] /\ client'[i] = to /\ \A j \in Clients \ {i} : client'[j] = client[j]
  BY Moved
<1>2. Cardinality(Clients) \in Nat
  BY LimitAssumption, FS_CardinalityType
<1>3. /\ Cardinality(Rated) \in Nat /\ Cardinality(Rated') \in Nat /\ Cardinality(Rated') <= Cardinality(Rated) + 1
      /\ to # "rateIncr" =>
              /\ Cardinality(Rated') <= Cardinality(Rated)
              /\ client[i] = "rateIncr" => Cardinality(Rated') + 1 <= Cardinality(Rated)
  BY Moved DEF Rated
<1>4. /\ Cardinality(Due) \in Nat /\ Cardinality(Due') \in Nat /\ Cardinality(Due') <= Cardinality(Due) + 1
      /\ client[i] \in {"rateIncr", "rateExpire", "read", "compare", "loginIncr"}
           \/ to \notin {"rateIncr", "rateExpire", "read", "compare", "loginIncr"} => Cardinality(Due') <= Cardinality(Due)
      /\ client[i] = "loginIncr" /\ to \in {"loginExpire", "idle"} => Cardinality(Due') + 1 <= Cardinality(Due)
  BY Moved DEF Due
<1>5. /\ Cardinality(Past) \in Nat /\ Cardinality(Past') \in Nat /\ Cardinality(Past) <= Cardinality(Past') + 1
      /\ client[i] \notin {"loginIncr", "clear"} =>
              /\ Cardinality(Past) <= Cardinality(Past')
              /\ to \in {"loginIncr", "clear"} => Cardinality(Past) + 1 <= Cardinality(Past')
  BY Moved DEF Past
<1>6. /\ Cardinality(Comparing) \in Nat /\ Cardinality(Comparing') \in Nat
      /\ Cardinality(Comparing') <= Cardinality(Comparing) + 1
      /\ to # "compare" =>
              /\ Cardinality(Comparing') <= Cardinality(Comparing)
              /\ client[i] = "compare" => Cardinality(Comparing') + 1 <= Cardinality(Comparing)
  BY Moved DEF Comparing
<1>7. Cardinality(Past') + Cardinality(Comparing') <= Cardinality(Clients)
  <2> DEFINE W == {x \in Clients : client'[x] \in {"loginIncr", "clear"}}
             C == {x \in Clients : client'[x] \in {"compare"}}
  <2>1. W \in SUBSET Clients /\ C \in SUBSET Clients /\ W \cap C = {} /\ Past' = W /\ Comparing' = C
    BY DEF At, Past, Comparing
  <2> HIDE DEF W, C
  <2>2. IsFiniteSet(Clients) /\ IsFiniteSet(W) /\ IsFiniteSet(C)
    BY <2>1, LimitAssumption, FS_Subset
  <2>3. Cardinality(W \cup C) = Cardinality(W) + Cardinality(C) - Cardinality(W \cap C)
    BY <2>2, FS_Union
  <2>4. Cardinality(W \cup C) <= Cardinality(Clients) /\ Cardinality(W \cap C) = 0
    BY <2>1, <2>2, LimitAssumption, FS_Subset, FS_EmptySet
  <2>5. Cardinality(W) \in Nat /\ Cardinality(C) \in Nat
    BY <2>2, FS_CardinalityType
  <2> QED
    BY <1>2, <2>1, <2>3, <2>4, <2>5
<1> QED
  BY <1>1, <1>2, <1>3, <1>4, <1>5, <1>6, <1>7

\* How many are where, before a step and after it.
Sizes ==
  /\ Cardinality(Clients) \in Nat
  /\ Cardinality(Rated) \in Nat /\ Cardinality(Rated') \in Nat /\ Cardinality(Due) \in Nat /\ Cardinality(Due') \in Nat
  /\ Cardinality(Past) \in Nat /\ Cardinality(Past') \in Nat
  /\ Cardinality(Comparing) \in Nat /\ Cardinality(Comparing') \in Nat
  /\ Cardinality(Past) <= Cardinality(Past') + 1 /\ Cardinality(Comparing') <= Cardinality(Comparing) + 1
  /\ Cardinality(Past') + Cardinality(Comparing') <= Cardinality(Clients)

\* The numbers of the invariant, before and after a step.
LEMMA Numbers ==
  ASSUME LimitTyped
  PROVE  /\ count["rate"] \in Nat /\ count["login"] \in Nat /\ checked["rate"] \in Nat /\ checked["login"] \in Nat
         /\ tries \in Nat /\ failures \in Nat /\ tries <= MaxTries /\ failures <= MaxLost
         /\ Limit \in Nat /\ Limit >= 1 /\ MaxTries \in Nat /\ MaxLost \in Nat
         /\ "rate" \in Counters /\ "login" \in Counters /\ \A c \in Counters : c = "rate" \/ c = "login"
         /\ expires["rate"] \in BOOLEAN
  BY LimitAssumption DEF LimitTyped, Counters

NumberTypes ==
  /\ count["rate"] \in Nat /\ count["login"] \in Nat /\ checked["rate"] \in Nat /\ checked["login"] \in Nat
  /\ tries \in Nat /\ failures \in Nat /\ Limit \in Nat /\ Limit >= 1

\* One counter goes up by one, or back to zero.
LEMMA CounterWritten ==
  ASSUME NEW f, f \in [Counters -> Nat], NEW c \in Counters, NEW n \in Nat, NEW g, g = [f EXCEPT ![c] = n]
  PROVE  g \in [Counters -> Nat] /\ g[c] = n /\ \A d \in Counters \ {c} : g[d] = f[d]
  OBVIOUS

\* A request, and what withRateLimit does with it.
LEMMA RateStep ==
  ASSUME LimitInv, NEW i \in Clients, Request(i) \/ RateIncr(i) \/ RateExpire(i)
  PROVE  LimitInv'
<1>0. /\ LimitTyped /\ TriesCounted /\ GuessesCounted /\ GuessesToCome /\ FirstOfWindow /\ LetThrough
      /\ client \in [Clients -> ClientSteps] /\ count \in [Counters -> Nat] /\ checked \in [Counters -> Nat]
      /\ expires \in [Counters -> BOOLEAN]
  BY DEF LimitInv, LimitTyped
<1>9. TriesCounted /\ GuessesCounted /\ GuessesToCome /\ NumberTypes
  BY <1>0, Numbers DEF NumberTypes
<1>1. CASE Request(i)
  <2>1. /\ client[i] = "idle" /\ client' = [client EXCEPT ![i] = "rateIncr"] /\ tries < MaxTries /\ tries' = tries + 1
        /\ UNCHANGED <<count, expires, failures, checked, neverEnds>>
    BY <1>1 DEF Request, ClientGoes
  <2>2. "rateIncr" \in ClientSteps
    BY DEF ClientSteps
  <2>3. LimitTyped'
    BY <1>0, <2>1, <2>2, ClientMoves, Numbers DEF LimitTyped
  <2>20. Sizes
    BY <1>0, <2>1, <2>2, ClientMoves DEF Sizes
  <2>21. /\ Cardinality(Rated') <= Cardinality(Rated) + 1 /\ Cardinality(Due') <= Cardinality(Due) + 1
         /\ Cardinality(Past) <= Cardinality(Past') /\ Cardinality(Comparing') <= Cardinality(Comparing)
    BY <1>0, <2>1, <2>2, ClientMoves
  <2>22. count' = count /\ checked' = checked /\ tries' = tries + 1 /\ failures' = failures
    BY <2>1
  <2>4. TriesCounted' /\ GuessesCounted' /\ GuessesToCome'
    BY <1>9, <2>20, <2>21, <2>22 DEF NumberTypes, Sizes, TriesCounted, GuessesCounted, GuessesToCome
  <2>5. First' \subseteq First
    BY <1>0, <2>1, <2>2, ClientMoves DEF First, At
  <2> QED
    BY <1>0, <2>1, <2>3, <2>4, <2>5 DEF LimitInv, FirstOfWindow, LetThrough
<1>2. CASE RateIncr(i)
  <2>1. PICK to \in {"idle", "read", "rateExpire"} :
          /\ client[i] = "rateIncr" /\ client' = [client EXCEPT ![i] = to]
          /\ UNCHANGED <<expires, tries, failures, neverEnds>>
          /\ count' = [count EXCEPT !["rate"] = count["rate"] + 1]
          /\ \/ count["rate"] = 0 /\ to = "rateExpire" /\ checked' = checked
             \/ count["rate"] # 0 /\ count["rate"] + 1 > Limit /\ to = "idle" /\ checked' = checked
             \/ /\ count["rate"] # 0 /\ ~(count["rate"] + 1 > Limit) /\ to \in {"idle", "read"}
                /\ checked' = [checked EXCEPT !["rate"] = checked["rate"] + 1]
    BY <1>2 DEF RateIncr, ClientGoes, Served, Checked
  <2>2. to \in ClientSteps
    BY DEF ClientSteps
  <2>3. count' \in [Counters -> Nat] /\ count'["rate"] = count["rate"] + 1 /\ count'["login"] = count["login"]
    BY <1>0, <2>1, CounterWritten, Numbers
  <2>4. /\ checked' \in [Counters -> Nat] /\ checked'["login"] = checked["login"]
        /\ checked'["rate"] = checked["rate"] \/ checked'["rate"] = checked["rate"] + 1
        /\ count["rate"] # 0 /\ ~(count["rate"] + 1 > Limit) => checked'["rate"] = checked["rate"] + 1
        /\ count["rate"] = 0 \/ count["rate"] + 1 > Limit => checked'["rate"] = checked["rate"]
    BY <1>0, <2>1, CounterWritten, Numbers
  <2>5. LimitTyped'
    BY <1>0, <2>1, <2>2, <2>3, <2>4, ClientMoves DEF LimitTyped
  <2>20. Sizes
    BY <1>0, <2>1, <2>2, ClientMoves DEF Sizes
  <2>21. /\ Cardinality(Rated') + 1 <= Cardinality(Rated) /\ Cardinality(Due') <= Cardinality(Due)
         /\ Cardinality(Past) <= Cardinality(Past') /\ Cardinality(Comparing') <= Cardinality(Comparing)
    BY <1>0, <2>1, <2>2, ClientMoves
  <2>22. count'["rate"] = count["rate"] + 1 /\ count'["login"] = count["login"] /\ checked'["login"] = checked["login"] /\ tries' = tries /\ failures' = failures
    BY <2>1, <2>3, <2>4
  <2>6. TriesCounted' /\ GuessesCounted' /\ GuessesToCome'
    BY <1>9, <2>20, <2>21, <2>22 DEF NumberTypes, Sizes, TriesCounted, GuessesCounted, GuessesToCome
  <2>7. LetThrough'
    BY <1>0, <2>3, <2>4, Numbers DEF LetThrough
  <2>8. FirstOfWindow'
    <3>1. CASE count["rate"] = 0
      <4>1. First = {} /\ checked["rate"] = 0 /\ to = "rateExpire"
        BY <1>0, <2>1, <3>1, Numbers DEF FirstOfWindow, LetThrough
      <4>2. First' \subseteq {i}
        BY <1>0, <2>1, <2>2, <4>1, ClientMoves DEF First, At
      <4>3. ~expires["rate"]
        BY <1>0, <3>1, Numbers DEF FirstOfWindow
      <4>4. count'["rate"] = 1 /\ checked'["rate"] = 0 /\ ~expires'["rate"] /\ Limit >= 1
        BY <1>0, <2>1, <2>3, <2>4, <3>1, <4>1, <4>3, Numbers
      <4> QED
        BY <4>2, <4>4, <1>0, Numbers DEF FirstOfWindow
    <3>2. CASE count["rate"] # 0
      <4>1. First' \subseteq First
        BY <1>0, <2>1, <2>2, <3>2, ClientMoves DEF First, At
      <4> QED
        BY <1>0, <2>1, <2>3, <2>4, <3>2, <4>1, Numbers DEF FirstOfWindow
    <3> QED
      BY <3>1, <3>2
  <2> QED
    BY <2>5, <2>6, <2>7, <2>8 DEF LimitInv
<1>3. CASE RateExpire(i)
  <2>1. PICK to \in {"idle", "read"} :
          /\ client[i] = "rateExpire" /\ client' = [client EXCEPT ![i] = to]
          /\ UNCHANGED <<count, tries, failures, neverEnds>>
          /\ expires' = [expires EXCEPT !["rate"] = count["rate"] > 0]
          /\ checked' = [checked EXCEPT !["rate"] = checked["rate"] + 1]
    BY <1>3 DEF RateExpire, ClientGoes, Served, Checked
  <2>2. to \in ClientSteps
    BY DEF ClientSteps
  <2>3. /\ checked' \in [Counters -> Nat] /\ checked'["login"] = checked["login"]
        /\ checked'["rate"] = checked["rate"] + 1
    BY <1>0, <2>1, CounterWritten, Numbers
  <2>4. i \in First /\ count["rate"] > 0 /\ checked["rate"] < count["rate"] /\ checked["rate"] < Limit /\ First \subseteq {i}
    BY <1>0, <2>1 DEF First, At, FirstOfWindow
  <2>5. expires' \in [Counters -> BOOLEAN]
    <3>1. (count["rate"] > 0) \in BOOLEAN
      BY <2>4
    <3> QED
      BY <1>0, <2>1, <3>1
  <2>6. LimitTyped'
    BY <1>0, <2>1, <2>2, <2>3, <2>5, ClientMoves DEF LimitTyped
  <2>20. Sizes
    BY <1>0, <2>1, <2>2, ClientMoves DEF Sizes
  <2>21. /\ Cardinality(Rated') <= Cardinality(Rated) /\ Cardinality(Due') <= Cardinality(Due)
         /\ Cardinality(Past) <= Cardinality(Past') /\ Cardinality(Comparing') <= Cardinality(Comparing)
    BY <1>0, <2>1, <2>2, ClientMoves
  <2>22. count' = count /\ checked'["login"] = checked["login"] /\ tries' = tries /\ failures' = failures
    BY <2>1, <2>3
  <2>7. TriesCounted' /\ GuessesCounted' /\ GuessesToCome'
    BY <1>9, <2>20, <2>21, <2>22 DEF NumberTypes, Sizes, TriesCounted, GuessesCounted, GuessesToCome
  <2>8. LetThrough'
    BY <1>0, <2>1, <2>3, <2>4, Numbers DEF LetThrough
  <2>9. First' = {}
    BY <1>0, <2>1, <2>2, <2>4, ClientMoves DEF First, At
  <2> QED
    BY <2>1, <2>4, <2>6, <2>7, <2>8, <2>9 DEF LimitInv, FirstOfWindow
<1> QED
  BY <1>1, <1>2, <1>3

\* The counter of failed sign-ins does not touch that of the requests.
LEMMA RateKept ==
  ASSUME LimitInv, LimitTyped', NEW i \in Clients, NEW to \in ClientSteps \ {"rateExpire"}, client' = [client EXCEPT ![i] = to],
         count'["rate"] = count["rate"], checked'["rate"] = checked["rate"], expires'["rate"] = expires["rate"]
  PROVE  FirstOfWindow' /\ LetThrough'
<1>1. First' \subseteq First
  BY ClientMoves DEF First, At, LimitInv
<1> QED
  BY <1>1 DEF LimitInv, FirstOfWindow, LetThrough

\* The steps of a sign-in.
LEMMA LoginStep ==
  ASSUME LimitInv, NEW i \in Clients,
         ReadAttempts(i) \/ Compare(i) \/ LoginIncr(i) \/ LoginExpire(i) \/ Clear(i)
  PROVE  LimitInv'
<1>0. /\ LimitTyped /\ TriesCounted /\ GuessesCounted /\ GuessesToCome /\ FirstOfWindow /\ LetThrough
      /\ client \in [Clients -> ClientSteps] /\ count \in [Counters -> Nat] /\ checked \in [Counters -> Nat]
      /\ expires \in [Counters -> BOOLEAN] /\ neverEnds \subseteq Counters
  BY DEF LimitInv, LimitTyped
<1>9. TriesCounted /\ GuessesCounted /\ GuessesToCome /\ NumberTypes
  BY <1>0, Numbers DEF NumberTypes
<1>1. CASE ReadAttempts(i)
  <2>1. PICK to \in {"idle", "compare"} :
          /\ client[i] = "read" /\ client' = [client EXCEPT ![i] = to] /\ (to = "compare" => count["login"] < Limit)
          /\ UNCHANGED <<count, expires, tries, failures, checked, neverEnds>>
    <3>1. client[i] = "read" /\ client' = [client EXCEPT ![i] = IF count["login"] >= Limit THEN "idle" ELSE "compare"]
      BY <1>1 DEF ReadAttempts, ClientGoes
    <3>2. UNCHANGED <<count, expires, tries, failures, checked, neverEnds>>
      BY <1>1 DEF ReadAttempts
    <3>3. CASE count["login"] >= Limit
      BY <3>1, <3>2, <3>3
    <3>4. CASE ~(count["login"] >= Limit)
      BY <1>0, <3>1, <3>2, <3>4, Numbers
    <3> QED
      BY <3>3, <3>4
  <2>2. to \in ClientSteps \ {"rateExpire"}
    BY DEF ClientSteps
  <2>3. LimitTyped'
    BY <1>0, <2>1, <2>2, ClientMoves DEF LimitTyped
  <2>20. Sizes
    BY <1>0, <2>1, <2>2, ClientMoves DEF Sizes
  <2>21. /\ Cardinality(Rated') <= Cardinality(Rated) /\ Cardinality(Due') <= Cardinality(Due)
         /\ Cardinality(Past) <= Cardinality(Past') /\ (to = "idle" => Cardinality(Comparing') <= Cardinality(Comparing))
    BY <1>0, <2>1, <2>2, ClientMoves
  <2>22. count' = count /\ checked' = checked /\ tries' = tries /\ failures' = failures /\ to \in {"idle", "compare"} /\ (to = "compare" => count["login"] < Limit)
    BY <2>1
  <2>4. TriesCounted' /\ GuessesCounted' /\ GuessesToCome'
    BY <1>9, <2>20, <2>21, <2>22 DEF NumberTypes, Sizes, TriesCounted, GuessesCounted, GuessesToCome
  <2> QED
    BY <2>1, <2>2, <2>3, <2>4, RateKept DEF LimitInv
<1>2. CASE Compare(i)
  <2>1. PICK to \in {"loginIncr", "clear"} :
          /\ client[i] = "compare" /\ client' = [client EXCEPT ![i] = to]
          /\ checked' = [checked EXCEPT !["login"] = checked["login"] + 1]
          /\ UNCHANGED <<count, expires, tries, failures, neverEnds>>
    BY <1>2 DEF Compare, ClientGoes, Checked
  <2>2. to \in ClientSteps \ {"rateExpire"}
    BY DEF ClientSteps
  <2>3. checked' \in [Counters -> Nat] /\ checked'["login"] = checked["login"] + 1 /\ checked'["rate"] = checked["rate"]
    BY <1>0, <2>1, CounterWritten, Numbers
  <2>4. LimitTyped'
    BY <1>0, <2>1, <2>2, <2>3, ClientMoves DEF LimitTyped
  <2>20. Sizes
    BY <1>0, <2>1, <2>2, ClientMoves DEF Sizes
  <2>21. /\ Cardinality(Rated') <= Cardinality(Rated) /\ Cardinality(Due') <= Cardinality(Due)
         /\ Cardinality(Past) + 1 <= Cardinality(Past') /\ Cardinality(Comparing') + 1 <= Cardinality(Comparing)
    BY <1>0, <2>1, <2>2, ClientMoves
  <2>22. count' = count /\ checked'["login"] = checked["login"] + 1 /\ tries' = tries /\ failures' = failures
    BY <2>1, <2>3
  <2>6. TriesCounted' /\ GuessesCounted' /\ GuessesToCome'
    BY <1>9, <2>20, <2>21, <2>22 DEF NumberTypes, Sizes, TriesCounted, GuessesCounted, GuessesToCome
  <2> QED
    BY <2>1, <2>2, <2>3, <2>4, <2>6, RateKept DEF LimitInv
<1>3. CASE LoginIncr(i)
  <2>1. PICK to \in {"loginExpire", "idle"} :
          /\ client[i] = "loginIncr" /\ client' = [client EXCEPT ![i] = to]
          /\ count' = [count EXCEPT !["login"] = count["login"] + 1]
          /\ UNCHANGED <<expires, tries, failures, checked, neverEnds>>
    BY <1>3 DEF LoginIncr, ClientGoes
  <2>2. to \in ClientSteps \ {"rateExpire"}
    BY DEF ClientSteps
  <2>3. count' \in [Counters -> Nat] /\ count'["login"] = count["login"] + 1 /\ count'["rate"] = count["rate"]
    BY <1>0, <2>1, CounterWritten, Numbers
  <2>4. LimitTyped'
    BY <1>0, <2>1, <2>2, <2>3, ClientMoves DEF LimitTyped
  <2>20. Sizes
    BY <1>0, <2>1, <2>2, ClientMoves DEF Sizes
  <2>21. /\ Cardinality(Rated') <= Cardinality(Rated) /\ Cardinality(Due') + 1 <= Cardinality(Due)
         /\ Cardinality(Past) <= Cardinality(Past') + 1 /\ Cardinality(Comparing') <= Cardinality(Comparing)
    BY <1>0, <2>1, <2>2, ClientMoves
  <2>22. count'["rate"] = count["rate"] /\ count'["login"] = count["login"] + 1 /\ checked' = checked /\ tries' = tries /\ failures' = failures
    BY <2>1, <2>3
  <2>5. TriesCounted' /\ GuessesCounted' /\ GuessesToCome'
    BY <1>9, <2>20, <2>21, <2>22 DEF NumberTypes, Sizes, TriesCounted, GuessesCounted, GuessesToCome
  <2> QED
    BY <2>1, <2>2, <2>3, <2>4, <2>5, RateKept DEF LimitInv
<1>4. CASE LoginExpire(i)
  <2>1. /\ client[i] = "loginExpire" /\ client' = [client EXCEPT ![i] = "idle"]
        /\ expires' = [expires EXCEPT !["login"] = count["login"] > 0]
        /\ UNCHANGED <<count, tries, failures, checked, neverEnds>>
    BY <1>4 DEF LoginExpire, ClientGoes
  <2>2. "idle" \in ClientSteps \ {"rateExpire"}
    BY DEF ClientSteps
  <2>3. expires' \in [Counters -> BOOLEAN] /\ expires'["rate"] = expires["rate"]
    BY <1>0, <2>1, Numbers
  <2>4. LimitTyped'
    BY <1>0, <2>1, <2>2, <2>3, ClientMoves DEF LimitTyped
  <2>20. Sizes
    BY <1>0, <2>1, <2>2, ClientMoves DEF Sizes
  <2>21. /\ Cardinality(Rated') <= Cardinality(Rated) /\ Cardinality(Due') <= Cardinality(Due)
         /\ Cardinality(Past) <= Cardinality(Past') /\ Cardinality(Comparing') <= Cardinality(Comparing)
    BY <1>0, <2>1, <2>2, ClientMoves
  <2>22. count' = count /\ checked' = checked /\ tries' = tries /\ failures' = failures
    BY <2>1
  <2>5. TriesCounted' /\ GuessesCounted' /\ GuessesToCome'
    BY <1>9, <2>20, <2>21, <2>22 DEF NumberTypes, Sizes, TriesCounted, GuessesCounted, GuessesToCome
  <2> QED
    BY <2>1, <2>2, <2>3, <2>4, <2>5, RateKept DEF LimitInv
<1>5. CASE Clear(i)
  <2>1. /\ client[i] = "clear" /\ client' = [client EXCEPT ![i] = "idle"]
        /\ count' = [count EXCEPT !["login"] = 0] /\ expires' = [expires EXCEPT !["login"] = FALSE]
        /\ checked' = [checked EXCEPT !["login"] = 0] /\ neverEnds' = neverEnds \ {"login"}
        /\ UNCHANGED <<tries, failures>>
    BY <1>5 DEF Clear, ClientGoes, Reset
  <2>2. "idle" \in ClientSteps \ {"rateExpire"} /\ 0 \in Nat
    BY DEF ClientSteps
  <2>3. /\ expires' \in [Counters -> BOOLEAN] /\ expires'["rate"] = expires["rate"]
        /\ count' \in [Counters -> Nat] /\ count'["login"] = 0 /\ count'["rate"] = count["rate"]
        /\ checked' \in [Counters -> Nat] /\ checked'["login"] = 0 /\ checked'["rate"] = checked["rate"]
    BY <1>0, <2>1, <2>2, Numbers, CounterWritten
  <2>4. LimitTyped'
    BY <1>0, <2>1, <2>2, <2>3, ClientMoves DEF LimitTyped
  <2>20. Sizes
    BY <1>0, <2>1, <2>2, ClientMoves DEF Sizes
  <2>21. /\ Cardinality(Rated') <= Cardinality(Rated) /\ Cardinality(Due') <= Cardinality(Due)
         /\ Cardinality(Comparing') <= Cardinality(Comparing)
    BY <1>0, <2>1, <2>2, ClientMoves
  <2>22. count'["rate"] = count["rate"] /\ count'["login"] = 0 /\ checked'["login"] = 0 /\ tries' = tries /\ failures' = failures
    BY <2>1, <2>3
  <2>5. TriesCounted' /\ GuessesCounted' /\ GuessesToCome'
    BY <1>9, <2>20, <2>21, <2>22 DEF NumberTypes, Sizes, TriesCounted, GuessesCounted, GuessesToCome
  <2> QED
    BY <2>1, <2>2, <2>3, <2>4, <2>5, RateKept DEF LimitInv
<1> QED
  BY <1>1, <1>2, <1>3, <1>4, <1>5

\* A request that dies takes its guess with it: it counts among the failures.
LEMMA LostStep ==
  ASSUME LimitInv, NEW i \in Clients, ClientFails(i)
  PROVE  LimitInv'
<1>0. /\ LimitTyped /\ TriesCounted /\ GuessesCounted /\ GuessesToCome /\ FirstOfWindow /\ LetThrough
      /\ client \in [Clients -> ClientSteps] /\ neverEnds \subseteq Counters
  BY DEF LimitInv, LimitTyped
<1>1. /\ client' = [client EXCEPT ![i] = "idle"] /\ failures < MaxLost /\ failures' = failures + 1
      /\ UNCHANGED <<count, expires, tries, checked>>
  BY DEF ClientFails, ClientGoes
<1>2. "idle" \in ClientSteps \ {"rateExpire"}
  BY DEF ClientSteps
<1>3. neverEnds' \subseteq Counters
  <2>1. neverEnds' = neverEnds \cup {"login"} \/ neverEnds' = neverEnds \cup {"rate"} \/ neverEnds' = neverEnds \cup {}
    BY DEF ClientFails
  <2> QED
    BY <1>0, <2>1 DEF Counters
<1>4. LimitTyped'
  BY <1>0, <1>1, <1>2, <1>3, ClientMoves, Numbers DEF LimitTyped
<1>5. Sizes
  BY <1>0, <1>1, <1>2, ClientMoves DEF Sizes
<1>7. /\ Cardinality(Rated') <= Cardinality(Rated) /\ Cardinality(Due') <= Cardinality(Due)
      /\ Cardinality(Past) <= Cardinality(Past') + 1 /\ Cardinality(Comparing') <= Cardinality(Comparing)
  BY <1>0, <1>1, <1>2, ClientMoves
<1>6. TriesCounted' /\ GuessesCounted' /\ GuessesToCome'
  BY <1>0, <1>1, <1>5, <1>7, Numbers DEF Sizes, TriesCounted, GuessesCounted, GuessesToCome
<1> QED
  BY <1>1, <1>2, <1>4, <1>6, RateKept DEF LimitInv

\* A counter whose time is over starts again.
LEMMA WindowStep ==
  ASSUME LimitInv, NEW c \in Counters, Expire(c)
  PROVE  LimitInv'
<1>0. /\ LimitTyped /\ TriesCounted /\ GuessesCounted /\ GuessesToCome /\ FirstOfWindow /\ LetThrough
      /\ client \in [Clients -> ClientSteps] /\ count \in [Counters -> Nat] /\ checked \in [Counters -> Nat]
      /\ expires \in [Counters -> BOOLEAN] /\ neverEnds \subseteq Counters
  BY DEF LimitInv, LimitTyped
<1>1. /\ count' = [count EXCEPT ![c] = 0] /\ expires' = [expires EXCEPT ![c] = FALSE]
      /\ checked' = [checked EXCEPT ![c] = 0] /\ neverEnds' = neverEnds \ {c}
      /\ UNCHANGED <<client, tries, failures>> /\ expires[c]
  BY DEF Expire, Reset
<1>2. /\ expires' \in [Counters -> BOOLEAN] /\ expires'[c] = FALSE /\ \A d \in Counters \ {c} : expires'[d] = expires[d]
      /\ count' \in [Counters -> Nat] /\ count'[c] = 0 /\ \A d \in Counters \ {c} : count'[d] = count[d]
      /\ checked' \in [Counters -> Nat] /\ checked'[c] = 0 /\ \A d \in Counters \ {c} : checked'[d] = checked[d]
  BY <1>0, <1>1
<1>3. LimitTyped'
  BY <1>0, <1>1, <1>2 DEF LimitTyped
<1>4. Rated' = Rated /\ Due' = Due /\ Past' = Past /\ Comparing' = Comparing /\ First' = First
  BY <1>1 DEF At, Rated, Due, Past, Comparing, First
<1>5. /\ Cardinality(Rated) \in Nat /\ Cardinality(Due) \in Nat /\ Cardinality(Past) \in Nat
      /\ Cardinality(Comparing) \in Nat /\ Cardinality(Comparing) <= Cardinality(Clients) /\ Cardinality(Clients) \in Nat
  <2>1. /\ IsFiniteSet(Clients) /\ Rated \in SUBSET Clients /\ Due \in SUBSET Clients /\ Past \in SUBSET Clients
        /\ Comparing \in SUBSET Clients
    BY LimitAssumption DEF At, Rated, Due, Past, Comparing
  <2> QED
    BY <2>1, FS_Subset, FS_CardinalityType
<1>6. TriesCounted' /\ GuessesCounted' /\ GuessesToCome'
  BY <1>0, <1>1, <1>2, <1>4, <1>5, Numbers DEF TriesCounted, GuessesCounted, GuessesToCome, Counters
<1>7. CASE c = "rate"
  <2>1. First = {}
    BY <1>0, <1>1, <1>7 DEF FirstOfWindow
  <2> QED
    BY <1>2, <1>3, <1>4, <1>6, <1>7, <2>1, Numbers, <1>0 DEF LimitInv, FirstOfWindow, LetThrough
<1>8. CASE c # "rate"
  <2>1. count'["rate"] = count["rate"] /\ checked'["rate"] = checked["rate"] /\ expires'["rate"] = expires["rate"]
    BY <1>0, <1>2, <1>8, Numbers
  <2> QED
    BY <1>0, <1>3, <1>4, <1>6, <2>1 DEF LimitInv, FirstOfWindow, LetThrough
<1> QED
  BY <1>7, <1>8

\* It holds in every reachable state.
LEMMA LimitInvariant == LimitSpec => []LimitInv
<1>1. ASSUME LimitInit
      PROVE  LimitInv
  <2>1. /\ count = [c \in Counters |-> 0] /\ expires = [c \in Counters |-> FALSE] /\ client = [i \in Clients |-> "idle"]
        /\ tries = 0 /\ failures = 0 /\ checked = [c \in Counters |-> 0] /\ neverEnds = {}
    BY <1>1 DEF LimitInit
  <2>2. LimitTyped
    BY <2>1, LimitAssumption DEF LimitTyped, ClientSteps
  <2>3. Rated = {} /\ Due = {} /\ Past = {} /\ Comparing = {} /\ First = {}
    BY <2>1 DEF At, Rated, Due, Past, Comparing, First
  <2>4. count["rate"] = 0 /\ count["login"] = 0 /\ checked["rate"] = 0 /\ checked["login"] = 0 /\ ~expires["rate"]
    BY <2>1 DEF Counters
  <2>5. Cardinality({}) = 0 /\ Cardinality(Clients) \in Nat
    BY LimitAssumption, FS_EmptySet, FS_CardinalityType
  <2> QED
    BY <2>1, <2>2, <2>3, <2>4, <2>5, Numbers
       DEF LimitInv, TriesCounted, GuessesCounted, GuessesToCome, FirstOfWindow, LetThrough
<1>2. ASSUME LimitInv, [LimitNext]_limitVars
      PROVE  LimitInv'
  <2>1. CASE UNCHANGED limitVars
    <3>1. UNCHANGED <<count, expires, client, tries, failures, checked, neverEnds>>
      BY <2>1 DEF limitVars
    <3>2. Rated' = Rated /\ Due' = Due /\ Past' = Past /\ Comparing' = Comparing /\ First' = First
      BY <3>1 DEF At, Rated, Due, Past, Comparing, First
    <3> QED
      BY <1>2, <3>1, <3>2 DEF LimitInv, LimitTyped, TriesCounted, GuessesCounted, GuessesToCome, FirstOfWindow, LetThrough
  <2> QED
    BY <1>2, <2>1, RateStep, LoginStep, LostStep, WindowStep DEF LimitNext, ClientStep
<1> QED
  BY <1>1, <1>2, PTL DEF LimitSpec

\* The counters, the requests and what was lost have their types, and no counter
\* is higher than the requests that were made.
THEOREM LimitTypes == LimitSpec => []LimitTypeOK
<1>1. ASSUME LimitInv
      PROVE  LimitTypeOK
  <2>1. LimitTyped /\ TriesCounted
    BY <1>1 DEF LimitInv
  <2>2. Cardinality(Rated) \in Nat /\ Cardinality(Due) \in Nat
    <3>1. IsFiniteSet(Clients) /\ Rated \in SUBSET Clients /\ Due \in SUBSET Clients
      BY LimitAssumption DEF At, Rated, Due
    <3> QED
      BY <3>1, FS_Subset, FS_CardinalityType
  <2>3. count["rate"] \in 0..MaxTries /\ count["login"] \in 0..MaxTries
    BY <2>1, <2>2, Numbers DEF TriesCounted
  <2>4. count \in [Counters -> 0..MaxTries]
    BY <2>1, <2>3 DEF LimitTyped, Counters
  <2> QED
    BY <2>1, <2>4 DEF LimitTyped, LimitTypeOK
<1> QED
  BY <1>1, LimitInvariant, PTL

\* However many sign-ins are between the read of the counter and its increment,
\* no more passwords are compared in a window than the limit, the other requests
\* under way and those that died; and never more requests are let through than
\* the limit.
THEOREM GuessesHold == LimitSpec => []GuessesBounded
<1>1. ASSUME LimitInv
      PROVE  GuessesBounded
  <2>1. LimitTyped /\ GuessesToCome /\ LetThrough
    BY <1>1 DEF LimitInv
  <2>2. Cardinality(Comparing) \in Nat /\ Cardinality(Clients) \in Nat
    <3>1. IsFiniteSet(Clients) /\ Comparing \in SUBSET Clients
      BY LimitAssumption DEF At, Comparing
    <3> QED
      BY <3>1, FS_Subset, FS_CardinalityType
  <2> QED
    BY <2>1, <2>2, Numbers DEF GuessesToCome, LetThrough, GuessesBounded
<1> QED
  BY <1>1, LimitInvariant, PTL
-----------------------------------------------------------------------------
(* The caches of the guard *)

Rows == [key : 1..MaxKey, active : BOOLEAN, open : BOOLEAN, live : BOOLEAN]
GuardSteps == {"idle", "read", "fill", "decide", "readLimit", "fillLimit"}
Fresh == {e \in Entry : e.ttl}

StoresTyped ==
  /\ row \in Rows /\ changes \in 0..MaxChanges /\ balance \in 0..changes
  /\ meta \in [Lookups -> Fresh \cup {Absent}]
  /\ limit \in LimitEntry \cup {Absent}
  /\ missed \subseteq Lookups

InGuardTyped ==
  /\ guard \in [Guards -> [at : GuardSteps, lookup : Lookups, app : Fresh \cup {Absent}, limit : 0..MaxChanges \cup {Absent}]]
  /\ \A g \in Guards : /\ guard[g].at \in {"fill", "decide"} => guard[g].app # Absent
                       /\ guard[g].at = "fillLimit" => guard[g].limit # Absent

ChangesTyped ==
  /\ syncs \subseteq [dels : SUBSET Lookups, limit : 0..balance \cup {Absent}]
  /\ change \in [at : {"idle", "commit", "drop"}, row : Rows \cup {Absent}, dels : SUBSET Lookups, old : Lookups \cup {Absent}]

\* A change drops what the database will say otherwise, but for the old key of
\* a roll, which the route drops afterwards.
ChangeReaches ==
  /\ change.at = "commit" =>
       /\ change.row \in Rows
       /\ \A l \in Lookups \ change.dels : l = change.old \/ Truth(change.row, l) = Truth(row, l)
  /\ change.at = "drop" => change.old # Absent

Explained(l) == \/ l \in missed
                \/ \E s \in syncs : l \in s.dels
                \/ change.at = "drop" /\ change.old = l

GuardInv == StoresTyped /\ InGuardTyped /\ ChangesTyped /\ ChangeReaches /\ StaleEntryExplained

\* An entry that expires is stale if it is not what the row deserves.
LEMMA StaleIs ==
  ASSUME NEW r \in Rows, NEW l \in Lookups, NEW e \in Fresh \cup {Absent}
  PROVE  e # Absent /\ (~Found(r, l) \/ [e EXCEPT !.ttl = TRUE] # Truth(r, l)) <=> e # Absent /\ e # Truth(r, l)
<1>1. CASE e = Absent
  BY <1>1
<1>2. CASE e # Absent
  <2>1. e \in Entry /\ e.ttl = TRUE
    BY <1>2 DEF Fresh, Entry
  <2>2. [e EXCEPT !.ttl = TRUE] = e
    BY <2>1 DEF Entry
  <2>3. CASE Found(r, l)
    BY <1>2, <2>2, <2>3
  <2>4. CASE ~Found(r, l)
    BY <1>2, <2>4 DEF Truth
  <2> QED
    BY <2>3, <2>4
<1> QED
  BY <1>1, <1>2

\* So the invariant explains every entry that is not what its row deserves.
LEMMA StaleNow ==
  ASSUME StoresTyped, StaleEntryExplained
  PROVE  \A l \in Lookups : meta[l] = Absent \/ meta[l] = Truth(row, l) \/ Explained(l)
<1>1. ASSUME NEW l \in Lookups, meta[l] # Absent, meta[l] # Truth(row, l)
      PROVE  Explained(l)
  <2>1. meta[l] \in Fresh \cup {Absent} /\ row \in Rows
    BY DEF StoresTyped
  <2>2. Stale(l)
    BY <1>1, <2>1, StaleIs DEF Stale
  <2> QED
    BY <2>2 DEF StaleEntryExplained, Explained
<1> QED
  BY <1>1

\* And it is enough to explain these after a step.
LEMMA StaleNext ==
  ASSUME StoresTyped', \A l \in Lookups : (meta[l] = Absent \/ meta[l] = Truth(row, l) \/ Explained(l))'
  PROVE  StaleEntryExplained'
<1>1. ASSUME NEW l \in Lookups, Stale(l)'
      PROVE  Explained(l)'
  <2>1. meta'[l] \in Fresh \cup {Absent} /\ row' \in Rows
    BY DEF StoresTyped
  <2>2. meta'[l] # Absent /\ meta'[l] # Truth(row', l)
    BY <1>1, <2>1, StaleIs DEF Stale
  <2>3. Truth(row, l)' = Truth(row', l)
    BY DEF Truth, Found
  <2> QED
    BY <2>2, <2>3
<1> QED
  BY <1>1 DEF StaleEntryExplained, Explained

\* What the row deserves is an entry that expires, or none.
LEMMA TruthTyped ==
  ASSUME NEW r \in Rows, NEW l
  PROVE  Truth(r, l) \in Fresh \cup {Absent}
<1>1. r.active \in BOOLEAN /\ r.open \in BOOLEAN
  BY DEF Rows
<1>2. [active |-> r.active, open |-> r.open, ttl |-> TRUE] \in Fresh
  BY <1>1 DEF Fresh, Entry
<1> QED
  BY <1>2 DEF Truth

\* A step of one request in the guard.
LEMMA OneGuard ==
  ASSUME InGuardTyped, NEW g \in Guards, NEW record, Guarded(g, record),
         record \in [at : GuardSteps, lookup : Lookups, app : Fresh \cup {Absent}, limit : 0..MaxChanges \cup {Absent}],
         record.at \in {"fill", "decide"} => record.app # Absent, record.at = "fillLimit" => record.limit # Absent
  PROVE  InGuardTyped'
<1>1. /\ guard' \in [Guards -> [at : GuardSteps, lookup : Lookups, app : Fresh \cup {Absent}, limit : 0..MaxChanges \cup {Absent}]]
      /\ guard'[g] = record /\ \A h \in Guards \ {g} : guard'[h] = guard[h]
  BY DEF InGuardTyped, Guarded
<1>2. ASSUME NEW h \in Guards
      PROVE  /\ guard'[h].at \in {"fill", "decide"} => guard'[h].app # Absent
             /\ guard'[h].at = "fillLimit" => guard'[h].limit # Absent
  <2>1. CASE h = g
    BY <1>1, <2>1
  <2>2. CASE h # g
    BY <1>1, <2>2 DEF InGuardTyped
  <2> QED
    BY <2>1, <2>2
<1> QED
  BY <1>1, <1>2 DEF InGuardTyped

\* A request that is not in the guard, and one in it.
LEMMA GuardRecords ==
  ASSUME StoresTyped, InGuardTyped, NEW g \in Guards
  PROVE  /\ NoGuard \in [at : {"idle"}, lookup : Lookups, app : {Absent}, limit : {Absent}]
         /\ [NoGuard EXCEPT !.at = "readLimit"] \in [at : {"readLimit"}, lookup : Lookups, app : {Absent}, limit : {Absent}]
         /\ [NoGuard EXCEPT !.at = "fillLimit", !.limit = balance]
              \in [at : {"fillLimit"}, lookup : Lookups, app : {Absent}, limit : 0..MaxChanges]
         /\ guard[g] \in [at : GuardSteps, lookup : Lookups, app : Fresh \cup {Absent}, limit : 0..MaxChanges \cup {Absent}]
         /\ balance # Absent /\ Absent \notin Fresh
<1>1. PublicKey \in Lookups /\ balance \in 0..MaxChanges
  BY GuardAssumption DEF PublicKey, Lookups, StoresTyped
<1>2. balance # Absent /\ Absent \notin Fresh
  BY <1>1, AbsentAssumption, GuardAssumption DEF Fresh
<1>3. NoGuard \in [at : {"idle"}, lookup : Lookups, app : {Absent}, limit : {Absent}]
  BY <1>1 DEF NoGuard
<1>4. [NoGuard EXCEPT !.at = "fillLimit", !.limit = balance]
        \in [at : {"fillLimit"}, lookup : Lookups, app : {Absent}, limit : 0..MaxChanges]
  <2>1. ASSUME NEW T, balance \in T
        PROVE  [NoGuard EXCEPT !.at = "fillLimit", !.limit = balance]
                 \in [at : {"fillLimit"}, lookup : {PublicKey}, app : {Absent}, limit : T]
    BY <2>1 DEF NoGuard
  <2> QED
    BY <1>1, <2>1
<1> QED
  BY <1>1, <1>2, <1>3, <1>4 DEF InGuardTyped

\* A step of a request that leaves the stores alone.
LEMMA SideStep ==
  ASSUME GuardInv, InGuardTyped', UNCHANGED <<database, meta, limit, dashboard, missed>>
  PROVE  GuardInv'
<1>1. StoresTyped'
  BY DEF GuardInv, StoresTyped, database, dashboard
<1>2. ChangesTyped' /\ ChangeReaches'
  BY DEF GuardInv, ChangesTyped, ChangeReaches, database, dashboard, Truth, Found
<1>3. StaleEntryExplained'
  BY DEF GuardInv, StaleEntryExplained, Stale, Truth, Found, database, dashboard
<1> QED
  BY <1>1, <1>2, <1>3 DEF GuardInv

\* The requests in the guard.
LEMMA GuardSide ==
  ASSUME GuardInv, NEW g \in Guards, GuardStep(g) \/ GuardFails(g) \/ \E l \in Lookups : LookUp(g, l)
  PROVE  GuardInv'
<1>0. StoresTyped /\ InGuardTyped /\ ChangesTyped /\ ChangeReaches /\ StaleEntryExplained
  BY DEF GuardInv
<1>1. PICK record : record = guard[g]
  OBVIOUS
<1>2. /\ record \in [at : GuardSteps, lookup : Lookups, app : Fresh \cup {Absent}, limit : 0..MaxChanges \cup {Absent}]
      /\ record.at \in {"fill", "decide"} => record.app # Absent
      /\ record.at = "fillLimit" => record.limit # Absent
  BY <1>0, <1>1, GuardRecords DEF InGuardTyped
<1>3. /\ NoGuard \in [at : {"idle"}, lookup : Lookups, app : {Absent}, limit : {Absent}]
      /\ [NoGuard EXCEPT !.at = "readLimit"] \in [at : {"readLimit"}, lookup : Lookups, app : {Absent}, limit : {Absent}]
      /\ [NoGuard EXCEPT !.at = "fillLimit", !.limit = balance]
           \in [at : {"fillLimit"}, lookup : Lookups, app : {Absent}, limit : 0..MaxChanges]
      /\ balance # Absent /\ Absent \notin 0..MaxChanges
  BY <1>0, GuardRecords, AbsentAssumption, GuardAssumption
<1>4. ASSUME NEW l \in Lookups, LookUp(g, l)
      PROVE  GuardInv'
  <2>1. PICK seen \in Fresh \cup {Absent} : seen = meta[l]
    BY <1>0 DEF StoresTyped
  <2>2. Guarded(g, [at |-> IF seen = Absent THEN "read" ELSE "decide", lookup |-> l, app |-> seen, limit |-> Absent])
    BY <1>4, <2>1 DEF LookUp
  <2>3. InGuardTyped'
    BY <1>0, <2>1, <2>2, OneGuard DEF GuardSteps
  <2> QED
    BY <1>4, <2>3, SideStep DEF LookUp
<1>5. CASE ReadApp(g)
  <2>1. PICK found \in Fresh \cup {Absent} : found = Truth(row, guard[g].lookup)
    BY <1>0, TruthTyped DEF StoresTyped
  <2>2. Guarded(g, IF found = Absent THEN NoGuard ELSE [record EXCEPT !.at = "fill", !.app = found])
    BY <1>1, <1>5, <2>1 DEF ReadApp
  <2>3. CASE found = Absent
    BY <1>0, <1>3, <1>5, <2>2, <2>3, OneGuard, SideStep DEF GuardSteps, ReadApp
  <2>4. CASE found # Absent
    <3>1. [record EXCEPT !.at = "fill", !.app = found]
             \in [at : {"fill"}, lookup : Lookups, app : Fresh, limit : 0..MaxChanges \cup {Absent}]
      BY <1>2, <2>4
    <3>2. InGuardTyped'
      BY <1>0, <2>2, <2>4, <3>1, OneGuard DEF GuardSteps
    <3> QED
      BY <1>5, <3>2, SideStep DEF ReadApp
  <2> QED
    BY <2>3, <2>4
<1>6. CASE FillApp(g)
  <2>1. PICK l \in Lookups : l = record.lookup
    BY <1>2
  <2>2. PICK seen \in Fresh : seen = record.app
    BY <1>1, <1>2, <1>6 DEF FillApp
  <2>3. /\ meta' = [meta EXCEPT ![l] = seen]
        /\ missed' = IF seen = Truth(row, l) THEN missed ELSE missed \cup {l}
        /\ Guarded(g, [record EXCEPT !.at = "decide"])
        /\ UNCHANGED <<database, limit, dashboard>> /\ record.at = "fill"
    BY <1>0, <1>1, <1>6, <2>1, <2>2 DEF FillApp, Advance, Guarded, InGuardTyped
  <2>4. StoresTyped'
    BY <1>0, <2>3 DEF StoresTyped, database, dashboard
  <2>5. InGuardTyped'
    <3>1. /\ [record EXCEPT !.at = "decide"]
                \in [at : {"decide"}, lookup : Lookups, app : Fresh \cup {Absent}, limit : 0..MaxChanges \cup {Absent}]
          /\ [record EXCEPT !.at = "decide"].app = record.app
      BY <1>2
    <3> QED
      BY <1>0, <1>2, <2>3, <3>1, OneGuard DEF GuardSteps
  <2>6. ChangesTyped' /\ ChangeReaches'
    BY <1>0, <2>3 DEF ChangesTyped, ChangeReaches, database, dashboard, Truth, Found
  <2>7. StaleEntryExplained'
    <3>1. ASSUME NEW k \in Lookups
          PROVE  (meta[k] = Absent \/ meta[k] = Truth(row, k) \/ Explained(k))'
      <4>1. row' = row /\ change' = change /\ syncs' = syncs /\ Truth(row, k)' = Truth(row, k)
        BY <2>3 DEF database, dashboard, Truth, Found
      <4>2. CASE k = l
        BY <1>0, <2>3, <4>1, <4>2 DEF StoresTyped, Explained
      <4>3. CASE k # l
        BY <1>0, <2>3, <4>1, <4>3, StaleNow DEF StoresTyped, Explained
      <4> QED
        BY <4>2, <4>3
    <3> QED
      BY <2>4, <3>1, StaleNext
  <2> QED
    BY <2>4, <2>5, <2>6, <2>7 DEF GuardInv
<1>7. CASE Decide(g)
  <2>1. InGuardTyped'
    BY <1>0, <1>3, <1>7, OneGuard DEF Decide, GuardSteps
  <2> QED
    BY <1>7, <2>1, SideStep DEF Decide
<1>8. CASE ReadLimit(g)
  <2>1. InGuardTyped'
    BY <1>0, <1>3, <1>8, OneGuard DEF ReadLimit, GuardSteps
  <2> QED
    BY <1>8, <2>1, SideStep DEF ReadLimit
<1>9. CASE FillLimit(g)
  <2>1. InGuardTyped'
    BY <1>0, <1>3, <1>9, OneGuard DEF FillLimit, GuardSteps
  <2>2. limit' \in LimitEntry
    BY <1>1, <1>2, <1>9 DEF FillLimit, LimitEntry
  <2>3. StoresTyped'
    BY <1>0, <1>9, <2>2 DEF FillLimit, StoresTyped, database, dashboard
  <2>4. ChangesTyped' /\ ChangeReaches' /\ StaleEntryExplained'
    BY <1>0, <1>9 DEF FillLimit, ChangesTyped, ChangeReaches, database, dashboard, Truth, Found, StaleEntryExplained, Stale
  <2> QED
    BY <2>1, <2>3, <2>4 DEF GuardInv
<1>10. CASE GuardFails(g)
  <2>1. InGuardTyped'
    BY <1>0, <1>3, <1>10, OneGuard DEF GuardFails, GuardSteps
  <2> QED
    BY <1>10, <2>1, SideStep DEF GuardFails
<1> QED
  BY <1>4, <1>5, <1>6, <1>7, <1>8, <1>9, <1>10 DEF GuardStep

\* A change begins: its hooks will drop what the database will say otherwise.
LEMMA BeginStep ==
  ASSUME GuardInv, NEW newRow \in Rows, NEW told \in [dels : SUBSET Lookups, limit : 0..balance \cup {Absent}],
         NEW old \in Lookups \cup {Absent}, Begin(newRow, told, old), limit' \in LimitEntry \cup {Absent},
         \A l \in Lookups \ told.dels : l = old \/ Truth(newRow, l) = Truth(row, l)
  PROVE  GuardInv'
<1>0. StoresTyped /\ InGuardTyped /\ ChangesTyped /\ ChangeReaches /\ StaleEntryExplained
  BY DEF GuardInv
<1>1. /\ row' = row /\ balance' = balance /\ meta' = meta /\ guard' = guard /\ missed' = missed
      /\ change.at = "idle" /\ changes' = changes + 1 /\ changes < MaxChanges
      /\ change' = [at |-> "commit", row |-> newRow, dels |-> told.dels, old |-> old]
      /\ syncs' = syncs \cup {told}
  BY DEF Begin, database
<1>2. changes' \in 0..MaxChanges /\ balance' \in 0..changes'
  BY <1>0, <1>1, GuardAssumption DEF StoresTyped
<1>3. StoresTyped'
  BY <1>0, <1>1, <1>2 DEF StoresTyped
<1>4. InGuardTyped'
  BY <1>0, <1>1 DEF InGuardTyped
<1>5. ChangesTyped'
  BY <1>0, <1>1 DEF ChangesTyped
<1>6. ChangeReaches'
  BY <1>1 DEF ChangeReaches, Truth, Found
<1>7. StaleEntryExplained'
  <2>1. ASSUME NEW l \in Lookups
        PROVE  (meta[l] = Absent \/ meta[l] = Truth(row, l) \/ Explained(l))'
    <3>1. Truth(row, l)' = Truth(row, l)
      BY <1>1 DEF Truth, Found
    <3>2. Explained(l) => Explained(l)'
      BY <1>1 DEF Explained
    <3> QED
      BY <1>0, <1>1, <3>1, <3>2, StaleNow
  <2> QED
    BY <1>3, <2>1, StaleNext
<1> QED
  BY <1>3, <1>4, <1>5, <1>6, <1>7 DEF GuardInv

\* The changes, with what each of them invalidates.
LEMMA DashboardSide ==
  ASSUME GuardInv, RollKey \/ RemoveApp \/ \E on \in BOOLEAN : EditApp(on) \/ EditOrganization(on)
  PROVE  GuardInv'
<1>0. /\ row \in Rows /\ balance \in 0..changes /\ changes \in 0..MaxChanges /\ limit \in LimitEntry \cup {Absent}
      /\ row.key \in 1..MaxKey /\ 0 \in Lookups /\ row.key \in Lookups /\ balance \in 0..balance
  BY GuardAssumption DEF GuardInv, StoresTyped, Rows, Lookups, PublicKey
<1>1. ASSUME NEW on \in BOOLEAN, EditApp(on)
      PROVE  GuardInv'
  <2>1. [row EXCEPT !.active = on] \in Rows
    BY <1>0 DEF Rows
  <2>2. [dels |-> {PublicKey, row.key}, limit |-> balance] \in [dels : SUBSET Lookups, limit : 0..balance \cup {Absent}]
    BY <1>0 DEF PublicKey
  <2>3. ASSUME NEW l \in Lookups \ {PublicKey, row.key}
        PROVE  Truth([row EXCEPT !.active = on], l) = Truth(row, l)
    BY <1>0, <2>3 DEF Truth, Found, Rows
  <2> QED
    BY <1>0, <1>1, <2>1, <2>2, <2>3, BeginStep DEF EditApp
<1>2. CASE RollKey
  <2>0. row.key + 1 \in 1..MaxKey /\ row.key + 1 \in Lookups
    <3>1. row.key < MaxKey
      BY <1>2 DEF RollKey
    <3> QED
      BY <1>0, <3>1, GuardAssumption DEF Lookups, PublicKey
  <2>1. /\ [row EXCEPT !.key = @ + 1] \in Rows /\ [row EXCEPT !.key = @ + 1].key = row.key + 1
        /\ [row EXCEPT !.key = @ + 1].live = row.live /\ row.key + 1 \in Lookups
    BY <1>0, <2>0 DEF Rows
  <2>2. [dels |-> {PublicKey, row.key + 1}, limit |-> balance]
           \in [dels : SUBSET Lookups, limit : 0..balance \cup {Absent}]
    BY <1>0, <2>1 DEF PublicKey
  <2>3. ASSUME NEW l \in Lookups \ {PublicKey, row.key + 1}
        PROVE  l = row.key \/ Truth([row EXCEPT !.key = @ + 1], l) = Truth(row, l)
    BY <1>0, <2>1, <2>3 DEF Truth, Found
  <2> QED
    BY <1>0, <1>2, <2>1, <2>2, <2>3, BeginStep DEF RollKey
<1>3. CASE RemoveApp
  <2>1. [row EXCEPT !.live = FALSE] \in Rows
    BY <1>0 DEF Rows
  <2>2. [dels |-> {PublicKey, row.key}, limit |-> Absent] \in [dels : SUBSET Lookups, limit : 0..balance \cup {Absent}]
    BY <1>0 DEF PublicKey
  <2>3. ASSUME NEW l \in Lookups \ {PublicKey, row.key}
        PROVE  Truth([row EXCEPT !.live = FALSE], l) = Truth(row, l)
    BY <1>0, <2>3 DEF Truth, Found, Rows
  <2>4. /\ Begin([row EXCEPT !.live = FALSE], [dels |-> {PublicKey, row.key}, limit |-> Absent], Absent)
        /\ limit' \in LimitEntry \cup {Absent} /\ Absent \in Lookups \cup {Absent}
    BY <1>0, <1>3 DEF RemoveApp
  <2>5. PICK told \in [dels : SUBSET Lookups, limit : 0..balance \cup {Absent}] :
           told = [dels |-> {PublicKey, row.key}, limit |-> Absent]
    BY <2>2
  <2>6. PICK newRow \in Rows : newRow = [row EXCEPT !.live = FALSE]
    BY <2>1
  <2>7. \A l \in Lookups \ told.dels : Truth(newRow, l) = Truth(row, l)
    BY <2>3, <2>5, <2>6
  <2>8. Begin(newRow, told, Absent)
    BY <2>4, <2>5, <2>6
  <2> QED
    BY <2>4, <2>7, <2>8, BeginStep
<1>4. ASSUME NEW open \in BOOLEAN, EditOrganization(open)
      PROVE  GuardInv'
  <2> DEFINE reached == IF row.live THEN {PublicKey, row.key} ELSE {}
  <2>1. [row EXCEPT !.open = open] \in Rows
    BY <1>0 DEF Rows
  <2>2. [dels |-> reached, limit |-> Absent] \in [dels : SUBSET Lookups, limit : 0..balance \cup {Absent}]
    BY <1>0 DEF PublicKey
  <2>3. ASSUME NEW l \in Lookups \ reached
        PROVE  Truth([row EXCEPT !.open = open], l) = Truth(row, l)
    BY <1>0, <2>3 DEF Truth, Found, Rows
  <2>4. balance \in 0..MaxChanges
    BY <1>0, GuardAssumption
  <2>5. limit' \in LimitEntry \cup {Absent}
    <3>1. [balance |-> balance, ttl |-> TRUE] \in LimitEntry
      BY <2>4 DEF LimitEntry
    <3> QED
      BY <1>0, <1>4, <3>1 DEF EditOrganization
  <2> QED
    BY <1>4, <2>1, <2>2, <2>3, <2>5, BeginStep DEF EditOrganization
<1> QED
  BY <1>1, <1>2, <1>3, <1>4

\* A change is committed, and the route of a roll drops the old key.
LEMMA CommitSide ==
  ASSUME GuardInv, Commit \/ \E fails \in BOOLEAN : DropOldKey(fails)
  PROVE  GuardInv'
<1>0. StoresTyped /\ InGuardTyped /\ ChangesTyped /\ ChangeReaches /\ StaleEntryExplained
  BY DEF GuardInv
<1>1. Absent \notin Lookups
  BY AbsentAssumption, GuardAssumption DEF Lookups, PublicKey
<1>2. NoChange \in [at : {"idle"}, row : {Absent}, dels : SUBSET Lookups, old : {Absent}]
  BY DEF NoChange
<1>3. CASE Commit
  <2>1. /\ change.at = "commit" /\ row' = change.row /\ change.row \in Rows
        /\ change' = IF change.old = Absent THEN NoChange ELSE [change EXCEPT !.at = "drop"]
        /\ balance' = balance /\ meta' = meta /\ limit' = limit /\ guard' = guard /\ syncs' = syncs /\ changes' = changes
    BY <1>0, <1>3 DEF Commit, ChangeReaches
  <2>0. /\ missed' \subseteq Lookups /\ missed \subseteq missed'
        /\ \A l \in Lookups : meta[l] \notin {Absent, Truth(change.row, l)} /\ l \in change.dels =>
                               (\E s \in syncs : l \in s.dels) \/ l \in missed'
    <3> DEFINE lost == {l \in Lookups : /\ meta[l] \notin {Absent, Truth(change.row, l)}
                                        /\ l \in change.dels
                                        /\ \A s \in syncs : l \notin s.dels}
    <3>1. missed' = missed \cup lost
      BY <1>3 DEF Commit
    <3>2. missed \subseteq Lookups /\ lost \subseteq Lookups
      BY <1>0 DEF StoresTyped
    <3>3. \A l \in Lookups : meta[l] \notin {Absent, Truth(change.row, l)} /\ l \in change.dels =>
                             (\E s \in syncs : l \in s.dels) \/ l \in lost
      OBVIOUS
    <3> HIDE DEF lost
    <3> QED
      BY <3>1, <3>2, <3>3
  <2>2. StoresTyped'
    BY <1>0, <2>1, <2>0 DEF StoresTyped
  <2>3. InGuardTyped'
    BY <1>0, <2>1 DEF InGuardTyped
  <2>4. /\ change' \in [at : {"idle", "commit", "drop"}, row : Rows \cup {Absent}, dels : SUBSET Lookups, old : Lookups \cup {Absent}]
        /\ change'.at = "idle" \/ (change'.at = "drop" /\ change'.old = change.old /\ change.old # Absent)
        /\ change.old # Absent => change'.at = "drop"
    <3>1. CASE change.old = Absent
      <4>1. change' = NoChange
        BY <2>1, <3>1
      <4>2. /\ NoChange \in [at : {"idle", "commit", "drop"}, row : Rows \cup {Absent}, dels : SUBSET Lookups, old : Lookups \cup {Absent}]
            /\ NoChange.at = "idle"
        BY DEF NoChange
      <4>3. change' \in [at : {"idle", "commit", "drop"}, row : Rows \cup {Absent}, dels : SUBSET Lookups, old : Lookups \cup {Absent}]
        BY ONLY <4>1, <4>2
      <4>4. change'.at = "idle"
        BY ONLY <4>1, <4>2
      <4> QED
        BY ONLY <3>1, <4>3, <4>4
    <3>2. CASE change.old # Absent
      BY <1>0, <2>1, <3>2 DEF ChangesTyped
    <3> QED
      BY <3>1, <3>2
  <2>5. ChangesTyped'
    BY <1>0, <2>1, <2>4 DEF ChangesTyped
  <2>6. ChangeReaches'
    BY <2>4 DEF ChangeReaches
  <2>7. StaleEntryExplained'
    <3>1. ASSUME NEW l \in Lookups
          PROVE  (meta[l] = Absent \/ meta[l] = Truth(row, l) \/ Explained(l))'
      <4>1. Truth(row, l)' = Truth(change.row, l)
        BY <2>1 DEF Truth, Found
      <4>2. CASE meta[l] \in {Absent, Truth(change.row, l)}
        BY <2>1, <4>1, <4>2
      <4>3. CASE meta[l] \notin {Absent, Truth(change.row, l)} /\ l \in change.dels
        <5>1. (\E s \in syncs : l \in s.dels) \/ l \in missed'
          BY <2>0, <4>3
        <5> QED
          BY <2>1, <5>1 DEF Explained
      <4>4. CASE meta[l] \notin {Absent, Truth(change.row, l)} /\ l \notin change.dels /\ l = change.old
        BY <1>1, <2>4, <4>4 DEF Explained
      <4>5. CASE meta[l] \notin {Absent, Truth(change.row, l)} /\ l \notin change.dels /\ l # change.old
        <5>1. Truth(change.row, l) = Truth(row, l)
          BY <1>0, <2>1, <4>5 DEF ChangeReaches
        <5>2. Explained(l) /\ change.at # "drop"
          BY <1>0, <2>1, <4>5, <5>1, StaleNow
        <5>3. l \in missed \/ \E s \in syncs : l \in s.dels
          BY <5>2 DEF Explained
        <5>4. l \in missed' \/ \E s \in syncs' : l \in s.dels
          BY <2>1, <2>0, <5>3
        <5> QED
          BY <5>4 DEF Explained
      <4> QED
        BY <4>2, <4>3, <4>4, <4>5
    <3> QED
      BY <2>2, <3>1, StaleNext
  <2> QED
    BY <2>2, <2>3, <2>5, <2>6, <2>7 DEF GuardInv
<1>4. ASSUME NEW fails \in BOOLEAN, DropOldKey(fails)
      PROVE  GuardInv'
  <2>1. /\ change.at = "drop" /\ change.old \in Lookups
        /\ meta' = IF fails THEN meta ELSE [meta EXCEPT ![change.old] = Absent]
        /\ missed' = IF fails THEN missed \cup {change.old} ELSE missed
        /\ row' = row /\ balance' = balance /\ limit' = limit /\ guard' = guard /\ syncs' = syncs /\ changes' = changes
        /\ change' = NoChange
    BY <1>0, <1>4 DEF DropOldKey, ChangeReaches, ChangesTyped, database
  <2>2. StoresTyped'
    BY <1>0, <2>1 DEF StoresTyped
  <2>3. InGuardTyped' /\ ChangesTyped' /\ ChangeReaches'
    BY <1>0, <1>2, <2>1 DEF InGuardTyped, ChangesTyped, ChangeReaches
  <2>4. StaleEntryExplained'
    <3>1. ASSUME NEW l \in Lookups
          PROVE  (meta[l] = Absent \/ meta[l] = Truth(row, l) \/ Explained(l))'
      <4>1. Truth(row, l)' = Truth(row, l)
        BY <2>1 DEF Truth, Found
      <4>2. CASE l = change.old
        BY <1>0, <2>1, <4>2 DEF StoresTyped, Explained
      <4>3. CASE l # change.old
        <5>1. Explained(l) => Explained(l)'
          BY <2>1, <4>3 DEF Explained
        <5>2. meta'[l] = meta[l]
          BY <1>0, <2>1, <4>3 DEF StoresTyped
        <5> QED
          BY <1>0, <4>1, <5>1, <5>2, StaleNow
      <4> QED
        BY <4>2, <4>3
    <3> QED
      BY <2>2, <3>1, StaleNext
  <2> QED
    BY <2>2, <2>3, <2>4 DEF GuardInv
<1> QED
  BY <1>3, <1>4

\* The syncs, the cron and the time to live.
LEMMA OtherSide ==
  ASSUME GuardInv,
         \/ \E s \in syncs : RunSync(s) \/ LoseSync(s)
         \/ \E fails \in BOOLEAN : Bill(fails)
         \/ \E l \in Lookups : ExpireMeta(l)
         \/ ExpireLimit
  PROVE  GuardInv'
<1>0. StoresTyped /\ InGuardTyped /\ ChangesTyped /\ ChangeReaches /\ StaleEntryExplained
  BY DEF GuardInv
<1>1. ASSUME NEW s \in syncs, RunSync(s)
      PROVE  GuardInv'
  <2>1. /\ s.dels \subseteq Lookups /\ s.limit \in 0..balance \cup {Absent}
        /\ meta' = [l \in Lookups |-> IF l \in s.dels THEN Absent ELSE meta[l]]
        /\ row' = row /\ balance' = balance /\ guard' = guard /\ change' = change /\ changes' = changes
        /\ missed' = missed /\ syncs' = syncs \ {s}
    BY <1>0, <1>1 DEF RunSync, ChangesTyped, database
  <2>2. limit' \in LimitEntry \cup {Absent}
    <3>1. CASE s.limit = Absent
      BY <1>0, <1>1, <3>1 DEF RunSync, StoresTyped
    <3>2. CASE s.limit # Absent
      <4>1. PICK read \in s.limit..balance : limit' = [balance |-> read, ttl |-> TRUE]
        BY <1>1, <3>2 DEF RunSync
      <4>2. read \in 0..MaxChanges
        BY <1>0, <2>1, <3>2, GuardAssumption DEF StoresTyped
      <4> QED
        BY <4>1, <4>2 DEF LimitEntry
    <3> QED
      BY <3>1, <3>2
  <2>3. StoresTyped'
    BY <1>0, <2>1, <2>2 DEF StoresTyped
  <2>4. InGuardTyped' /\ ChangesTyped' /\ ChangeReaches'
    BY <1>0, <2>1 DEF InGuardTyped, ChangesTyped, ChangeReaches, Truth, Found
  <2>5. StaleEntryExplained'
    <3>1. ASSUME NEW l \in Lookups
          PROVE  (meta[l] = Absent \/ meta[l] = Truth(row, l) \/ Explained(l))'
      <4>1. Truth(row, l)' = Truth(row, l)
        BY <2>1 DEF Truth, Found
      <4>2. CASE l \in s.dels
        BY <2>1, <4>2
      <4>3. CASE l \notin s.dels
        <5>1. Explained(l) => Explained(l)'
          BY <2>1, <4>3 DEF Explained
        <5>2. meta'[l] = meta[l]
          BY <2>1, <4>3
        <5> QED
          BY <1>0, <4>1, <5>1, <5>2, StaleNow
      <4> QED
        BY <4>2, <4>3
    <3> QED
      BY <2>3, <3>1, StaleNext
  <2> QED
    BY <2>3, <2>4, <2>5 DEF GuardInv
<1>2. ASSUME NEW s \in syncs, LoseSync(s)
      PROVE  GuardInv'
  <2>1. /\ s.dels \subseteq Lookups /\ syncs' = syncs \ {s} /\ missed' = missed \cup s.dels
        /\ row' = row /\ balance' = balance /\ meta' = meta /\ limit' = limit
        /\ guard' = guard /\ change' = change /\ changes' = changes
    BY <1>0, <1>2 DEF LoseSync, ChangesTyped, database
  <2>2. StoresTyped' /\ InGuardTyped' /\ ChangesTyped' /\ ChangeReaches'
    BY <1>0, <2>1 DEF StoresTyped, InGuardTyped, ChangesTyped, ChangeReaches, Truth, Found
  <2>3. StaleEntryExplained'
    <3>1. ASSUME NEW l \in Lookups
          PROVE  (meta[l] = Absent \/ meta[l] = Truth(row, l) \/ Explained(l))'
      <4>1. Truth(row, l)' = Truth(row, l)
        BY <2>1 DEF Truth, Found
      <4>2. Explained(l) => Explained(l)'
        BY <2>1 DEF Explained
      <4> QED
        BY <1>0, <2>1, <4>1, <4>2, StaleNow
    <3> QED
      BY <2>2, <3>1, StaleNext
  <2> QED
    BY <2>2, <2>3 DEF GuardInv
<1>3. ASSUME NEW fails \in BOOLEAN, Bill(fails)
      PROVE  GuardInv'
  <2>1. /\ changes' = changes + 1 /\ changes < MaxChanges /\ balance' = balance + 1
        /\ limit' \in {limit, Absent}
        /\ row' = row /\ meta' = meta /\ guard' = guard /\ change' = change /\ syncs' = syncs /\ missed' = missed
    BY <1>3 DEF Bill
  <2>2. changes' \in 0..MaxChanges /\ balance' \in 0..changes' /\ 0..balance \subseteq 0..balance'
    BY <1>0, <2>1, GuardAssumption DEF StoresTyped
  <2>3. StoresTyped'
    BY <1>0, <2>1, <2>2 DEF StoresTyped
  <2>4. ChangesTyped'
    BY <1>0, <2>1, <2>2 DEF ChangesTyped
  <2>5. InGuardTyped' /\ ChangeReaches' /\ StaleEntryExplained'
    BY <1>0, <2>1 DEF InGuardTyped, ChangeReaches, Truth, Found, StaleEntryExplained, Stale
  <2> QED
    BY <2>3, <2>4, <2>5 DEF GuardInv
<1>4. ASSUME NEW k \in Lookups, ExpireMeta(k)
      PROVE  GuardInv'
  <2>1. /\ meta' = [meta EXCEPT ![k] = Absent] /\ missed' = missed \ {k}
        /\ row' = row /\ balance' = balance /\ limit' = limit
        /\ guard' = guard /\ change' = change /\ changes' = changes /\ syncs' = syncs
    BY <1>4 DEF ExpireMeta, database, dashboard
  <2>2. StoresTyped' /\ InGuardTyped' /\ ChangesTyped' /\ ChangeReaches'
    BY <1>0, <2>1 DEF StoresTyped, InGuardTyped, ChangesTyped, ChangeReaches, Truth, Found
  <2>3. StaleEntryExplained'
    <3>1. ASSUME NEW l \in Lookups
          PROVE  (meta[l] = Absent \/ meta[l] = Truth(row, l) \/ Explained(l))'
      <4>1. Truth(row, l)' = Truth(row, l)
        BY <2>1 DEF Truth, Found
      <4>2. CASE l = k
        BY <1>0, <2>1, <4>2 DEF StoresTyped
      <4>3. CASE l # k
        <5>1. Explained(l) => Explained(l)'
          BY <2>1, <4>3 DEF Explained
        <5>2. meta'[l] = meta[l]
          BY <1>0, <2>1, <4>3 DEF StoresTyped
        <5> QED
          BY <1>0, <4>1, <5>1, <5>2, StaleNow
      <4> QED
        BY <4>2, <4>3
    <3> QED
      BY <2>2, <3>1, StaleNext
  <2> QED
    BY <2>2, <2>3 DEF GuardInv
<1>5. CASE ExpireLimit
  <2>1. /\ limit' = Absent /\ row' = row /\ balance' = balance /\ meta' = meta /\ missed' = missed
        /\ guard' = guard /\ change' = change /\ changes' = changes /\ syncs' = syncs
    BY <1>5 DEF ExpireLimit, database, dashboard
  <2> QED
    BY <1>0, <2>1 DEF GuardInv, StoresTyped, InGuardTyped, ChangesTyped, ChangeReaches, Truth, Found, StaleEntryExplained, Stale
<1> QED
  BY <1>1, <1>2, <1>3, <1>4, <1>5

\* Nothing is cached at first.
LEMMA GuardInvInit == GuardInit => GuardInv
<1> SUFFICES ASSUME GuardInit
             PROVE  GuardInv
  OBVIOUS
<1>1. PublicKey \in Lookups /\ 1 \in 1..MaxKey /\ 0 \in 0..MaxChanges
  BY GuardAssumption DEF PublicKey, Lookups
<1>2. StoresTyped
  BY <1>1 DEF GuardInit, StoresTyped, Rows
<1>3. InGuardTyped
  BY <1>1 DEF GuardInit, InGuardTyped, NoGuard, GuardSteps
<1>4. ChangesTyped /\ ChangeReaches
  BY DEF GuardInit, ChangesTyped, ChangeReaches, NoChange
<1>5. StaleEntryExplained
  BY DEF GuardInit, StaleEntryExplained, Stale
<1> QED
  BY <1>2, <1>3, <1>4, <1>5 DEF GuardInv

\* Any step of the guard, the dashboard and Redis.
LEMMA GuardInvStep == GuardInv /\ [GuardNext]_guardVars => GuardInv'
<1> SUFFICES ASSUME GuardInv, [GuardNext]_guardVars
             PROVE  GuardInv'
  OBVIOUS
<1>1. ASSUME NEW g \in Guards, GuardStep(g) \/ GuardFails(g) \/ \E l \in Lookups : LookUp(g, l)
      PROVE  GuardInv'
  BY <1>1, GuardSide
<1>2. CASE RollKey \/ RemoveApp \/ \E on \in BOOLEAN : EditApp(on) \/ EditOrganization(on)
  BY <1>2, DashboardSide
<1>3. CASE Commit \/ \E fails \in BOOLEAN : DropOldKey(fails)
  BY <1>3, CommitSide
<1>4. CASE \/ \E s \in syncs : RunSync(s) \/ LoseSync(s)
           \/ \E fails \in BOOLEAN : Bill(fails)
           \/ \E l \in Lookups : ExpireMeta(l)
           \/ ExpireLimit
  BY <1>4, OtherSide
<1>5. CASE UNCHANGED guardVars
  BY <1>5 DEF GuardInv, guardVars, StoresTyped, InGuardTyped, ChangesTyped, ChangeReaches, Truth, Found, StaleEntryExplained, Stale
<1> QED
  BY <1>1, <1>2, <1>3, <1>4, <1>5 DEF GuardNext

\* GuardTypeOK: the entries, the requests in the guard and the syncs under way
\* keep their form.
THEOREM GuardTypes == GuardSpec => []GuardTypeOK
<1>1. GuardInv => GuardTypeOK
  <2> SUFFICES ASSUME GuardInv
               PROVE  GuardTypeOK
    OBVIOUS
  <2>1. balance \in 0..MaxChanges /\ 0..balance \subseteq 0..MaxChanges
    BY GuardAssumption DEF GuardInv, StoresTyped
  <2> QED
    BY <2>1 DEF GuardInv, StoresTyped, InGuardTyped, ChangesTyped, GuardTypeOK, Rows, Fresh, Sync
<1> QED
  BY <1>1, GuardInvInit, GuardInvStep, PTL DEF GuardSpec

\* StaleEntryExplained: a cached entry that disagrees with the database belongs
\* to a change that is not through with its invalidations, one of them was lost
\* or ran before the commit, or a request had read the row before it.
THEOREM StaleExplained == GuardSpec => []StaleEntryExplained
<1>1. GuardInv => StaleEntryExplained
  BY DEF GuardInv
<1> QED
  BY <1>1, GuardInvInit, GuardInvStep, PTL DEF GuardSpec
-----------------------------------------------------------------------------
(* The request of a delivery *)

\* A hop under way has the timer of its phase armed, and the one of the total;
\* a request has its result when it is done, and never before.
HopTimed ==
  /\ phase \in {"connect", "headers", "body"} => {phase, "total"} \subseteq timers
  /\ response = "none" <=> phase # "done"

\* What was received is one unit above a limit at most, and the request is over then.
WithinLimits == phase # "done" => transferred <= MaxBytes /\ inflated <= MaxBytes

RequestInv == RequestTypeOK /\ WithinLimits /\ HopTimed

\* Nothing is received at first.
LEMMA RequestInitially ==
  ASSUME RequestInit
  PROVE  RequestInv
<1>1. RequestTypeOK
  <2>1. /\ redirects \in 0..MaxRedirects
        /\ transferred \in 0..(MaxBytes + 1) /\ inflated \in 0..(MaxBytes + 1)
    BY RequestBounds DEF RequestInit
  <2>2. phase \in {"idle"} /\ timers \subseteq Timers /\ quiet \in BOOLEAN /\ encoded \in BOOLEAN
    BY DEF RequestInit
  <2> QED
    BY <2>1, <2>2 DEF RequestInit, RequestTypeOK
<1>2. WithinLimits
  BY RequestBounds DEF RequestInit, WithinLimits
<1>3. HopTimed
  BY DEF RequestInit, HopTimed
<1> QED
  BY <1>1, <1>2, <1>3 DEF RequestInv

\* Only chunks count, and one that is too many settles the request.
LEMMA ChunkCounted ==
  ASSUME RequestInv, Chunk
  PROVE  RequestInv'
<1>1. PICK n \in 0..1, m \in 0..1 :
        /\ transferred' = transferred + n /\ inflated' = inflated + m
        /\ quiet' = FALSE
        /\ IF transferred' > MaxBytes \/ inflated' > MaxBytes THEN Settle("error")
           ELSE UNCHANGED <<phase, response, timers>>
  BY DEF Chunk
<1>2. phase = "body" /\ UNCHANGED <<redirects, encoded>>
  BY DEF Chunk
<1>3. /\ transferred' \in 0..(MaxBytes + 1) /\ inflated' \in 0..(MaxBytes + 1)
      /\ (transferred' <= MaxBytes /\ inflated' <= MaxBytes) \/ Settle("error")
  BY <1>1, <1>2, RequestBounds DEF RequestInv, RequestTypeOK, WithinLimits
<1>4. Settle("error") \/ UNCHANGED <<phase, response, timers>>
  BY <1>1
<1>5. RequestTypeOK'
  BY <1>1, <1>2, <1>3, <1>4 DEF RequestInv, RequestTypeOK, Settle
<1>6. WithinLimits' /\ HopTimed'
  BY <1>1, <1>2, <1>3, <1>4 DEF RequestInv, WithinLimits, HopTimed, Settle
<1> QED
  BY <1>5, <1>6 DEF RequestInv

\* A hop arms its timers as it goes from phase to phase, and a redirect disarms all.
LEMMA HopStep ==
  ASSUME RequestInv,
         BeginRequest \/ HostAllowed \/ HostRefused \/ Connected \/ Redirected \/ HeadersReceived
  PROVE  RequestInv'
<1>1. RequestTypeOK'
  <2>1. CASE Redirected
    <3>1. redirects' \in 0..MaxRedirects
      BY <2>1, RequestBounds DEF Redirected, RequestInv, RequestTypeOK
    <3>2. timers' = {} /\ phase' \in {"check", "done"} /\ response' \in {response, "error"}
      BY <2>1 DEF Redirected, Settle
    <3> QED
      BY <2>1, <3>1, <3>2 DEF Redirected, RequestInv, RequestTypeOK, sizes
  <2>2. CASE BeginRequest \/ HostAllowed \/ HostRefused \/ Connected \/ HeadersReceived
    BY <2>2 DEF RequestInv, RequestTypeOK, BeginRequest, HostAllowed, HostRefused, Connected, HeadersReceived, Settle,
       Timers, sizes
  <2> QED
    BY <2>1, <2>2
<1>2. WithinLimits'
  BY DEF RequestInv, WithinLimits, BeginRequest, HostAllowed, HostRefused, Connected, Redirected, HeadersReceived,
     Settle, sizes
<1>3. HopTimed'
  BY DEF RequestInv, HopTimed, BeginRequest, HostAllowed, HostRefused, Connected, Redirected, HeadersReceived,
     Settle
<1> QED
  BY <1>1, <1>2, <1>3 DEF RequestInv

\* A request that ends has its result; one that is over keeps it, whatever still happens.
LEMMA EndStep ==
  ASSUME RequestInv,
         \/ BodyEnds \/ TrailingChunk \/ RequestBreaks \/ FallsQuiet
         \/ \E timer \in Timers : TimerFires(timer)
  PROVE  RequestInv'
<1>1. RequestTypeOK'
  BY DEF RequestInv, RequestTypeOK, BodyEnds, TrailingChunk, RequestBreaks, FallsQuiet, TimerFires, Settle, Timers,
     sizes
<1>2. WithinLimits'
  BY DEF RequestInv, WithinLimits, HopTimed, BodyEnds, TrailingChunk, RequestBreaks, FallsQuiet, TimerFires, Settle,
     sizes
<1>3. HopTimed'
  BY DEF RequestInv, HopTimed, BodyEnds, TrailingChunk, RequestBreaks, FallsQuiet, TimerFires, Settle
<1> QED
  BY <1>1, <1>2, <1>3 DEF RequestInv

\* The invariant of a request.
LEMMA RequestInvariant == RequestSpec => []RequestInv
<1>1. RequestInv /\ [RequestNext]_requestState => RequestInv'
  <2>1. ASSUME RequestInv, UNCHANGED requestState
        PROVE  RequestInv'
    BY <2>1 DEF requestState, RequestInv, RequestTypeOK, WithinLimits, HopTimed
  <2> QED
    BY <2>1, HopStep, ChunkCounted, EndStep DEF RequestNext
<1> QED
  BY <1>1, RequestInitially, PTL DEF RequestSpec

\* Whatever a receiver sends, the sizes exceed a limit by one unit at most, and
\* no more redirects are followed than are allowed.
THEOREM RequestTypes == RequestSpec => []RequestTypeOK
<1>1. RequestInv => RequestTypeOK
  BY DEF RequestInv
<1> QED
  BY <1>1, RequestInvariant, PTL

\* What makeRequest's end rests on (RequestEnds): in every hop, and not only in
\* the first, the timer of the phase and the one of the total are armed, and a
\* request that is over has a result.
THEOREM HopsTimed == RequestSpec => []HopTimed
<1>1. RequestInv => HopTimed
  BY DEF RequestInv
<1> QED
  BY <1>1, RequestInvariant, PTL

-----------------------------------------------------------------------------
(* The components that one run checks together *)

\* The composition in which they are checked adds nothing to what each component
\* does alone, and it is as fair to the guard, the counters and the request as
\* their own specifications ask.
THEOREM LiveIsComponents ==
  LiveSpec => /\ Spec /\ GuardSpec /\ GuardFairness
              /\ LimitSpec /\ LimitFairness /\ RequestSpec
<1>1. LiveInit => Init /\ GuardInit /\ LimitInit /\ RequestInit
  BY DEF LiveInit
<1>2. ASSUME [LiveNext]_liveVars
      PROVE  [Next]_vars /\ [GuardNext]_guardVars /\ [LimitNext]_limitVars /\ [RequestNext]_requestState
  BY <1>2 DEF LiveNext, liveVars
<1> QED
  BY <1>1, <1>2, PTL DEF LiveSpec, Spec, GuardSpec, LimitSpec, RequestSpec

\* CountersTypeOK: whatever requests, resets, faults and answers come in whatever
\* order, the entries of the guard's caches, the counters of attempts and their
\* times to live, and the timers and sizes of a webhook's request keep their types.
THEOREM LiveTyped == LiveSpec => []CountersTypeOK
<1>1. GuardTypeOK /\ LimitTypeOK /\ RequestTypeOK => CountersTypeOK
  BY DEF CountersTypeOK
<1> QED
  BY <1>1, LiveIsComponents, GuardTypes, LimitTypes, RequestTypes, PTL
=============================================================================
