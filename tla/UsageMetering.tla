---------------------------- MODULE UsageMetering ----------------------------
(***************************************************************************)
(* Usage metering of one organization (the Redis keys of different         *)
(* organizations are disjoint): the engine guard and the webhook processor *)
(* charge a Redis bucket, and the sync-usage cron of every server replica  *)
(* moves the bucket to Postgres in batches, each an idempotent ledger row. *)
(*                                                                         *)
(* Abstractions.  A key that does not exist is NoKey.  The cached limit is *)
(* an input of the guard's script.  The 7-day expiry of the keys is left   *)
(* out: the cron runs every 5 minutes.  A lock whose holder died is free   *)
(* at once: its expiry only delays the next run.                           *)
(***************************************************************************)
EXTENDS Integers

CONSTANTS Replicas,        \* server processes that run the cron
          Deliveries,      \* webhook jobs at their first attempt
          Weights,         \* costs of an engine request (0 for a history read)
          WebhookWeight,   \* QUOTA_DEFAULTS.WEBHOOK_DELIVERY_WEIGHT
          Limits,          \* values the cached limit may have
          Grant,           \* quotaBalance the organization starts with
          Overdraft,       \* 10000 in the code: the balance never goes below -Overdraft
          MaxRequests,     \* bound: engine requests in a behaviour
          FaultPlans,      \* sets of kinds of fault: a behaviour has faults of one set
          MaxFaults,       \* bound: faults in a behaviour
          NoKey            \* a Redis key that does not exist, a lock nobody holds

FaultKinds == {"crash", "reclaimCrash", "dbFail", "replayFail", "ackLost", "redisFail",
               "lockLost", "deliveryAbort", "orgDeleted", "shutdown"}

ASSUME WeightsAssumption ==
  /\ Weights \subseteq Nat
  /\ WebhookWeight \in Nat
ASSUME BalanceAssumption ==
  /\ Grant \in Int
  /\ Overdraft \in Nat
  /\ Grant >= -Overdraft
  /\ Limits \subseteq Int
ASSUME BoundAssumption ==
  /\ MaxRequests \in Nat
  /\ MaxFaults \in Nat
  /\ FaultPlans \subseteq SUBSET FaultKinds
ASSUME NoKeyAssumption ==
  /\ NoKey \notin Int
  /\ NoKey \notin Replicas

VARIABLES
  usage, batch,            \* {org}:usage and {org}:usage:batch
  sync, syncBatch,         \* {org}:sync and {org}:sync:batch
  nextId,                  \* the batch ids handed out so far are below it
  ledger,                  \* quota_usage_ledger: a set of [batch, amount] rows
  orgExists, quotaBalance, quotaUsed,      \* the organization row
  globalLock, orgLock,     \* holders of the two Redlock locks
  pc, resume,              \* step of a replica, and where processSyncKey returns to
  rUsage, rBatch,          \* `usage` and `batchId` read by processSyncKey
  delivery,                \* step of a webhook job
  requests, faults,        \* requests so far; faults allowed, and how many are left
  charged                  \* history: units charged and not refused

redisVars == <<usage, batch, sync, syncBatch, nextId>>
dbVars == <<ledger, orgExists, quotaBalance, quotaUsed>>
lockVars == <<globalLock, orgLock>>
replicaVars == <<pc, resume, rUsage, rBatch>>
vars == <<redisVars, dbVars, lockVars, replicaVars, delivery, requests, faults, charged>>

\* parseFloat(value || '0')
Amount(value) == IF value = NoKey THEN 0 ELSE value

Larger(a, b) == IF a >= b THEN a ELSE b

Billed(id) == \E row \in ledger : row.batch = id

\* The steps of processSyncKey, which run under the lock of the organization.
LockedSteps == {"getSync", "getBatch", "delEmpty", "tx", "ack",
                "reclaim", "reclaimBatch", "reclaimDel", "drop"}
\* The reclaim has added the amount to the bucket and still has to delete the sync keys.
CopiedSteps == {"reclaimBatch", "reclaimDel"}
CronSteps == {"rescue", "scan", "lock", "finish"} \cup LockedSteps
Steps == {"idle", "down"} \cup CronSteps

Init ==
  /\ usage = NoKey /\ batch = NoKey
  /\ sync = NoKey /\ syncBatch = NoKey
  /\ nextId = 0
  /\ ledger = {}
  /\ orgExists = TRUE
  /\ quotaBalance = Grant
  /\ quotaUsed = 0
  /\ globalLock = NoKey /\ orgLock = NoKey
  /\ pc = [r \in Replicas |-> "idle"]
  /\ resume = [r \in Replicas |-> "scan"]
  /\ rUsage = [r \in Replicas |-> 0]
  /\ rBatch = [r \in Replicas |-> NoKey]
  /\ delivery = [d \in Deliveries |-> "ready"]
  /\ requests = 0
  /\ faults \in [allowed : FaultPlans, left : {MaxFaults}]
  /\ charged = 0

Fault(kind) ==
  /\ kind \in faults.allowed
  /\ faults.left > 0
  /\ faults' = [faults EXCEPT !.left = @ - 1]

-----------------------------------------------------------------------------
(* Charging *)

\* The script's answer: a call other than a sync is refused beyond the limit.
Refused(cost, limit, isSync) == ~isSync /\ Amount(usage) + cost > limit

\* Mutant: a refused request always deletes the batch key.
GuardBatchUndoAlways(cost, limit, isSync) ==
  IF Refused(cost, limit, isSync) THEN NoKey
  ELSE IF Amount(usage) = 0 /\ batch = NoKey THEN nextId ELSE batch

\* The batch key once the script has run: created with the first unit of a
\* bucket, deleted again when that first unit is refused.
GuardBatch(cost, limit, isSync) ==
  IF Amount(usage) = 0
    THEN IF Refused(cost, limit, isSync) THEN NoKey
         ELSE IF batch = NoKey THEN nextId ELSE batch
    ELSE batch

\* atomicQuotaCheck: one Lua script, so one step.
GuardCharge(cost, limit, isSync) ==
  /\ requests < MaxRequests
  /\ requests' = requests + 1
  /\ batch' = GuardBatch(cost, limit, isSync)
  /\ nextId' = IF Amount(usage) = 0 /\ batch = NoKey THEN nextId + 1 ELSE nextId
  /\ LET cost_ == IF Refused(cost, limit, isSync) THEN 0 ELSE cost
     IN  /\ usage' = Amount(usage) + cost_
         /\ charged' = charged + cost_
  /\ UNCHANGED <<sync, syncBatch, dbVars, lockVars, replicaVars, delivery, faults>>

\* The webhook processor charges with two commands: SET batch NX first ...
DeliverySetBatch(d) ==
  /\ delivery[d] = "ready"
  /\ delivery' = [delivery EXCEPT ![d] = "charging"]
  /\ batch' = IF batch = NoKey THEN nextId ELSE batch
  /\ nextId' = IF batch = NoKey THEN nextId + 1 ELSE nextId
  /\ UNCHANGED <<usage, sync, syncBatch, dbVars, lockVars, replicaVars, requests, faults, charged>>

\* ... INCRBYFLOAT second.
DeliveryCharge(d) ==
  /\ delivery[d] = "charging"
  /\ delivery' = [delivery EXCEPT ![d] = "done"]
  /\ usage' = Amount(usage) + WebhookWeight
  /\ charged' = charged + WebhookWeight
  /\ UNCHANGED <<batch, sync, syncBatch, nextId, dbVars, lockVars, replicaVars, requests, faults>>

\* The command fails (logged, the delivery goes on uncharged), or the worker
\* dies and the job starts again.
DeliveryAbort(d) ==
  /\ Fault("deliveryAbort")
  /\ delivery[d] = "charging"
  /\ \E step \in {"ready", "done"} : delivery' = [delivery EXCEPT ![d] = step]
  /\ UNCHANGED <<redisVars, dbVars, lockVars, replicaVars, requests, charged>>

-----------------------------------------------------------------------------
(* The cron: syncUsageToDb and rescueStalledSyncs *)

Goto(r, step) == pc' = [pc EXCEPT ![r] = step]

StartCron(r) ==
  /\ pc[r] = "idle"
  /\ globalLock = NoKey
  /\ globalLock' = r
  /\ Goto(r, "rescue")
  /\ UNCHANGED <<redisVars, dbVars, orgLock, resume, rUsage, rBatch, delivery, requests, faults, charged>>

\* Mutant: stalled sync keys are not rescued.
RescueNothing(r) ==
  /\ pc[r] = "rescue"
  /\ Goto(r, "scan")
  /\ UNCHANGED <<redisVars, dbVars, lockVars, resume, rUsage, rBatch, delivery, requests, faults, charged>>

\* A sync key left behind by an earlier run is processed first.
Rescue(r) ==
  /\ pc[r] = "rescue"
  /\ Goto(r, IF sync # NoKey THEN "lock" ELSE "scan")
  /\ resume' = [resume EXCEPT ![r] = "scan"]
  /\ UNCHANGED <<redisVars, dbVars, lockVars, rUsage, rBatch, delivery, requests, faults, charged>>

\* The condition of the cron's script.
CanMove == usage # NoKey /\ sync = NoKey /\ batch # NoKey /\ syncBatch = NoKey

\* The bucket and its batch id are renamed to the sync keys in one script.
Scan(r) ==
  /\ pc[r] = "scan"
  /\ IF CanMove
       THEN /\ sync' = usage /\ syncBatch' = batch
            /\ usage' = NoKey /\ batch' = NoKey
            /\ Goto(r, "lock")
            /\ resume' = [resume EXCEPT ![r] = "finish"]
       ELSE /\ Goto(r, "finish")
            /\ UNCHANGED <<usage, batch, sync, syncBatch, resume>>
  /\ UNCHANGED <<nextId, dbVars, lockVars, rUsage, rBatch, delivery, requests, faults, charged>>

Finish(r) ==
  /\ pc[r] = "finish"
  /\ Goto(r, "idle")
  /\ globalLock' = IF globalLock = r THEN NoKey ELSE globalLock
  /\ UNCHANGED <<redisVars, dbVars, orgLock, resume, rUsage, rBatch, delivery, requests, faults, charged>>

-----------------------------------------------------------------------------
(* processSyncKey *)

\* Mutant: processSyncKey runs without the lock of the organization.
LockNothing(r) ==
  /\ pc[r] = "lock"
  /\ Goto(r, "getSync")
  /\ UNCHANGED <<redisVars, dbVars, lockVars, resume, rUsage, rBatch, delivery, requests, faults, charged>>

\* The lock of the organization; a caller that cannot have it skips the batch.
Lock(r) ==
  /\ pc[r] = "lock"
  /\ IF orgLock = NoKey
       THEN orgLock' = r /\ Goto(r, "getSync")
       ELSE UNCHANGED orgLock /\ Goto(r, resume[r])
  /\ UNCHANGED <<redisVars, dbVars, globalLock, resume, rUsage, rBatch, delivery, requests, faults, charged>>

\* The routine under the lock ends: the lock is released, the caller goes on.
Return(r) ==
  /\ Goto(r, resume[r])
  /\ orgLock' = NoKey
  /\ UNCHANGED globalLock

\* Mutant: a sync key that is gone is not read as zero.
GetSyncRaw(r) ==
  /\ pc[r] = "getSync"
  /\ rUsage' = [rUsage EXCEPT ![r] = sync]
  /\ Goto(r, "getBatch")
  /\ UNCHANGED <<redisVars, dbVars, lockVars, resume, rBatch, delivery, requests, faults, charged>>

GetSync(r) ==
  /\ pc[r] = "getSync"
  /\ rUsage' = [rUsage EXCEPT ![r] = Amount(sync)]
  /\ Goto(r, "getBatch")
  /\ UNCHANGED <<redisVars, dbVars, lockVars, resume, rBatch, delivery, requests, faults, charged>>

GetBatch(r) ==
  /\ pc[r] = "getBatch"
  /\ rBatch' = [rBatch EXCEPT ![r] = syncBatch]
  /\ Goto(r, IF rUsage[r] = 0 THEN "delEmpty" ELSE IF syncBatch = NoKey THEN "reclaim" ELSE "tx")
  /\ UNCHANGED <<redisVars, dbVars, lockVars, resume, rUsage, delivery, requests, faults, charged>>

\* Nothing to charge: DEL of both sync keys.
DelEmpty(r) ==
  /\ pc[r] = "delEmpty"
  /\ sync' = NoKey /\ syncBatch' = NoKey
  /\ Return(r)
  /\ UNCHANGED <<usage, batch, nextId, dbVars, resume, rUsage, rBatch, delivery, requests, faults, charged>>

\* Mutant: the balance is not cut at the overdraft floor.
ApplyBatchNoFloor(r) ==
  /\ ~Billed(rBatch[r])
  /\ orgExists
  /\ ledger' = ledger \cup {[batch |-> rBatch[r], amount |-> rUsage[r]]}
  /\ quotaBalance' = quotaBalance - rUsage[r]
  /\ quotaUsed' = quotaUsed + rUsage[r]
  /\ UNCHANGED orgExists

\* One database transaction: the ledger row and the organization row.
ApplyBatch(r) ==
  /\ ~Billed(rBatch[r])
  /\ orgExists
  /\ ledger' = ledger \cup {[batch |-> rBatch[r], amount |-> rUsage[r]]}
  /\ quotaBalance' = Larger(quotaBalance - rUsage[r], -Overdraft)
  /\ quotaUsed' = quotaUsed + rUsage[r]
  /\ UNCHANGED orgExists

TxApply(r) ==
  /\ pc[r] = "tx"
  /\ ApplyBatch(r)
  /\ Goto(r, "ack")
  /\ UNCHANGED <<redisVars, lockVars, resume, rUsage, rBatch, delivery, requests, faults, charged>>

\* Mutant: any row of the batch counts as a replay.
AnyRow(r) == Billed(rBatch[r])

\* The ledger row of the batch is the one this run would write.
SameRow(r) == [batch |-> rBatch[r], amount |-> rUsage[r]] \in ledger

\* The batch was applied by an earlier run: a no-op, or an error when the row differs.
TxReplay(r) ==
  /\ pc[r] = "tx"
  /\ Billed(rBatch[r])
  /\ Goto(r, IF SameRow(r) THEN "ack" ELSE "reclaim")
  /\ UNCHANGED <<redisVars, dbVars, lockVars, resume, rUsage, rBatch, delivery, requests, faults, charged>>

\* The insert fails on the foreign key of the ledger.
TxOrgMissing(r) ==
  /\ pc[r] = "tx"
  /\ ~Billed(rBatch[r])
  /\ ~orgExists
  /\ Goto(r, "drop")
  /\ UNCHANGED <<redisVars, dbVars, lockVars, resume, rUsage, rBatch, delivery, requests, faults, charged>>

\* The transaction fails and is rolled back; a kind of its own when an earlier
\* run has already committed this batch.
TxFail(r) ==
  /\ Fault(IF Billed(rBatch[r]) THEN "replayFail" ELSE "dbFail")
  /\ pc[r] = "tx"
  /\ Goto(r, "reclaim")
  /\ UNCHANGED <<redisVars, dbVars, lockVars, resume, rUsage, rBatch, delivery, requests, charged>>

\* The transaction commits and the connection is lost before the answer:
\* `dbCommitted` stays false.
TxAckLost(r) ==
  /\ Fault("ackLost")
  /\ pc[r] = "tx"
  /\ ApplyBatch(r)
  /\ Goto(r, "reclaim")
  /\ UNCHANGED <<redisVars, lockVars, resume, rUsage, rBatch, delivery, requests, charged>>

\* Committed: the sync keys are deleted (and the cached limit, an input here).
Ack(r) ==
  /\ pc[r] = "ack"
  /\ sync' = NoKey /\ syncBatch' = NoKey
  /\ Return(r)
  /\ UNCHANGED <<usage, batch, nextId, dbVars, resume, rUsage, rBatch, delivery, requests, faults, charged>>

\* Mutant: without `dbCommitted`, a failed acknowledgement is reclaimed.
AckFailReclaims(r) ==
  /\ Fault("redisFail")
  /\ pc[r] = "ack"
  /\ Goto(r, "reclaim")
  /\ UNCHANGED <<redisVars, dbVars, lockVars, resume, rUsage, rBatch, delivery, requests, charged>>

\* Committed, and Redis fails: the keys stay for the next rescue.
AckFail(r) ==
  /\ Fault("redisFail")
  /\ pc[r] = "ack"
  /\ Return(r)
  /\ UNCHANGED <<redisVars, dbVars, resume, rUsage, rBatch, delivery, requests, charged>>

\* The organization is gone: every key of its metering is deleted.
Drop(r) ==
  /\ pc[r] = "drop"
  /\ usage' = NoKey /\ batch' = NoKey
  /\ sync' = NoKey /\ syncBatch' = NoKey
  /\ Return(r)
  /\ UNCHANGED <<nextId, dbVars, resume, rUsage, rBatch, delivery, requests, faults, charged>>

\* Mutant: the reclaim sets the bucket instead of incrementing it.
ReclaimUsageSet(r) ==
  /\ pc[r] = "reclaim"
  /\ usage' = rUsage[r]
  /\ Goto(r, "reclaimBatch")
  /\ UNCHANGED <<batch, sync, syncBatch, nextId, dbVars, lockVars, resume, rUsage, rBatch, delivery, requests, faults, charged>>

\* Reclaim: the amount goes back to the bucket with three commands.
ReclaimUsage(r) ==
  /\ pc[r] = "reclaim"
  /\ usage' = Amount(usage) + rUsage[r]
  /\ Goto(r, "reclaimBatch")
  /\ UNCHANGED <<batch, sync, syncBatch, nextId, dbVars, lockVars, resume, rUsage, rBatch, delivery, requests, faults, charged>>

ReclaimBatch(r) ==
  /\ pc[r] = "reclaimBatch"
  /\ batch' = IF batch # NoKey THEN batch ELSE IF rBatch[r] # NoKey THEN rBatch[r] ELSE nextId
  /\ nextId' = IF rBatch[r] = NoKey THEN nextId + 1 ELSE nextId
  /\ Goto(r, "reclaimDel")
  /\ UNCHANGED <<usage, sync, syncBatch, dbVars, lockVars, resume, rUsage, rBatch, delivery, requests, faults, charged>>

ReclaimDel(r) ==
  /\ pc[r] = "reclaimDel"
  /\ sync' = NoKey /\ syncBatch' = NoKey
  /\ Return(r)
  /\ UNCHANGED <<usage, batch, nextId, dbVars, resume, rUsage, rBatch, delivery, requests, faults, charged>>

-----------------------------------------------------------------------------
(* Shutdown, faults and the deletion of the organization *)

\* syncSingleOrg with the keys in the order it passes them (usage, batch,
\* sync, syncBatch): its script tests that the second is absent and the third
\* present.  Only then does it rename, and the second rename finds no key.
ShutdownFlush(r) ==
  /\ Fault("shutdown")
  /\ pc[r] = "idle"
  /\ Goto(r, "down")
  /\ IF usage # NoKey /\ batch = NoKey /\ sync # NoKey /\ syncBatch = NoKey
       THEN sync' = usage /\ usage' = NoKey
       ELSE UNCHANGED <<sync, usage>>
  /\ UNCHANGED <<batch, syncBatch, nextId, dbVars, lockVars, resume, rUsage, rBatch, delivery, requests, charged>>

Restart(r) ==
  /\ pc[r] = "down"
  /\ Goto(r, "idle")
  /\ UNCHANGED <<redisVars, dbVars, lockVars, resume, rUsage, rBatch, delivery, requests, faults, charged>>

\* A replica dies and starts again; a reclaim cut in the middle is a fault kind of its own.
Crash(r) ==
  /\ pc[r] \in CronSteps
  /\ Fault(IF pc[r] \in CopiedSteps THEN "reclaimCrash" ELSE "crash")
  /\ Goto(r, "idle")
  /\ globalLock' = IF globalLock = r THEN NoKey ELSE globalLock
  /\ orgLock' = IF orgLock = r THEN NoKey ELSE orgLock
  /\ UNCHANGED <<redisVars, dbVars, resume, rUsage, rBatch, delivery, requests, charged>>

\* The global lock expires under its holder, which goes on.
LoseGlobalLock ==
  /\ Fault("lockLost")
  /\ globalLock # NoKey
  /\ globalLock' = NoKey
  /\ UNCHANGED <<redisVars, dbVars, orgLock, replicaVars, delivery, requests, charged>>

\* The dashboard deletes the organization and, unless Redis fails, its usage
\* key.  With a ledger row it cannot: the foreign key would set the row's
\* organization, which is required, to null.
DeleteOrg ==
  /\ Fault("orgDeleted")
  /\ orgExists
  /\ ledger = {}
  /\ orgExists' = FALSE
  /\ usage' \in {usage, NoKey}
  /\ UNCHANGED <<batch, sync, syncBatch, nextId, ledger, quotaBalance, quotaUsed,
                 lockVars, replicaVars, delivery, requests, charged>>

\* cleanupOrphanedKeys, daily.
CollectOrphans ==
  /\ ~orgExists
  /\ usage # NoKey
  /\ usage' = NoKey
  /\ UNCHANGED <<batch, sync, syncBatch, nextId, dbVars, lockVars, replicaVars, delivery, requests, faults, charged>>

-----------------------------------------------------------------------------

CronStep(r) ==
  \/ StartCron(r) \/ Rescue(r) \/ Scan(r) \/ Finish(r)
  \/ Lock(r) \/ GetSync(r) \/ GetBatch(r) \/ DelEmpty(r)
  \/ TxApply(r) \/ TxReplay(r) \/ TxOrgMissing(r)
  \/ Ack(r) \/ Drop(r)
  \/ ReclaimUsage(r) \/ ReclaimBatch(r) \/ ReclaimDel(r)

FaultStep(r) == TxFail(r) \/ TxAckLost(r) \/ AckFail(r) \/ Crash(r)

Next ==
  \/ \E cost \in Weights, limit \in Limits, isSync \in BOOLEAN : GuardCharge(cost, limit, isSync)
  \/ \E d \in Deliveries : DeliverySetBatch(d) \/ DeliveryCharge(d) \/ DeliveryAbort(d)
  \/ \E r \in Replicas : CronStep(r) \/ FaultStep(r) \/ ShutdownFlush(r) \/ Restart(r)
  \/ LoseGlobalLock
  \/ DeleteOrg
  \/ CollectOrphans

Spec == Init /\ [][Next]_vars

\* Nest's scheduler keeps starting the cron on every live replica and Node
\* keeps running what was started; a stopped replica is restarted by its
\* orchestrator, a delivery by its queue.  Requests, faults and which replica
\* wins the global lock are left free.
Fairness ==
  /\ \A r \in Replicas : WF_vars(CronStep(r)) /\ WF_vars(Restart(r))
  /\ \A d \in Deliveries : WF_vars(DeliverySetBatch(d) \/ DeliveryCharge(d))

FairSpec == Spec /\ Fairness
-----------------------------------------------------------------------------
(* Properties *)

TypeOK ==
  /\ usage \in Nat \cup {NoKey} /\ sync \in Nat \cup {NoKey}
  /\ batch \in Nat \cup {NoKey} /\ syncBatch \in Nat \cup {NoKey}
  /\ nextId \in Nat
  /\ ledger \subseteq [batch : Nat, amount : Nat]
  /\ orgExists \in BOOLEAN
  /\ quotaBalance \in Int /\ quotaUsed \in Nat
  /\ globalLock \in Replicas \cup {NoKey} /\ orgLock \in Replicas \cup {NoKey}
  /\ pc \in [Replicas -> Steps]
  /\ resume \in [Replicas -> {"scan", "finish"}]
  /\ rUsage \in [Replicas -> Nat]
  /\ rBatch \in [Replicas -> Nat \cup {NoKey}]
  /\ delivery \in [Deliveries -> {"ready", "charging", "done"}]
  /\ requests \in Nat /\ charged \in Nat
  /\ faults \in [allowed : SUBSET FaultKinds, left : Nat]

\* The units of the sync key that no other place holds: a batch in the ledger
\* is billed already, an amount reclaimed into the bucket is counted there.
Moving ==
  IF Billed(syncBatch) \/ \E r \in Replicas : pc[r] \in CopiedSteps
    THEN 0 ELSE Amount(sync)

\* The units charged and not yet billed.
Unbilled == Amount(usage) + Moving

\* The faults that make the code bill a unit again: a reclaim cut in the
\* middle, the reclaim of a batch that the ledger has but whose commit or replay
\* seemed to fail.
Rebills == faults.allowed \cap {"reclaimCrash", "replayFail", "ackLost"} # {}
\* The global lock expires under a cron that goes on.
LocksLost == "lockLost" \in faults.allowed
\* The faults under which no unit is lost or doubled.
SafeFaults == ~Rebills /\ ~LocksLost

\* Every unit charged is either waiting in Redis or billed, and is so once:
\* neither a crash of the cron at any step outside the reclaim, nor a failed
\* transaction, nor a failed acknowledgement loses or doubles usage
\* (processSyncKey and the rescue of stalled sync keys).
Conservation ==
  (orgExists /\ SafeFaults) => charged = quotaUsed + Unbilled

\* No unit is lost while the organization exists, even when a reclaim is cut
\* in the middle or the answer of a commit is lost: some copy of it is billed
\* or still in Redis ("so it's not lost").
NoUsageLost ==
  (orgExists /\ ~LocksLost) => charged <= quotaUsed + Amount(usage) + Amount(sync)

\* The organization is never billed more than it was charged, even when the
\* global lock expires under a running cron: the lock of the organization and
\* the ledger's batch ids are enough.
NeverOverBilled == ~Rebills => quotaUsed <= charged

\* The balance is the grant less everything billed, cut at the overdraft
\* floor, however the batches were cut, replayed or reclaimed.
BalanceFollowsBilling == quotaBalance = Larger(Grant - quotaUsed, -Overdraft)

\* While a bucket holds units its batch id stays: only the move takes it,
\* together with the units, and only the deletion of the organization drops
\* both (a refused request may undo only a batch it has just opened).
BatchKeepsItsUnits ==
  [][ (Amount(usage) > 0 /\ batch # NoKey /\ orgExists)
      => \/ batch' = batch
         \/ usage' = NoKey /\ batch' = NoKey /\ sync' = usage /\ syncBatch' = batch ]_vars

\* Every unit charged is billed in the end (for an organization without
\* webhook endpoints: see the README on what a delivery can do to a batch).
EventuallyBilled ==
  \A n \in 1..(MaxRequests * 2) : (charged >= n) ~> (quotaUsed >= n)

\* Under the faults that do no harm the metering implements its abstract
\* specification.
Billing == INSTANCE UsageBilling
  WITH Weights <- Weights \cup {WebhookWeight},
       unbilled <- Unbilled, billed <- quotaUsed, open <- orgExists
ImplementsBilling ==
  (SafeFaults => Billing!Init) /\ [][ SafeFaults => [Billing!Next]_(Billing!vars) ]_vars

\* The shutdown hook claims to flush all pending usage: a bucket with a batch
\* and no batch in flight does not survive it.
ShutdownFlushesUsage ==
  [][ \A r \in Replicas :
        (pc[r] = "idle" /\ pc'[r] = "down" /\ usage # NoKey /\ batch # NoKey /\ sync = NoKey)
        => usage' = NoKey ]_vars

\* The usage of a deleted organization is dropped, never put back.
NeverReclaimForDeletedOrg ==
  [][ \A r \in Replicas :
        (pc[r] = "reclaim" /\ pc'[r] = "reclaimBatch") => orgExists ]_vars
=============================================================================
