----------------------------- MODULE TxLifecycle -----------------------------
(***************************************************************************)
(* The life of one transaction in the engine, from its row in Postgres to  *)
(* its terminal webhook: BullMQ jobs ({tracking-fast}, {tracking-lazy}),   *)
(* the trackers they launch, the shared terminal write of TrackingService, *)
(* the invoice the transaction pays, the retry endpoints, the hash of an   *)
(* EIP-5792 batch and the hourly sweeper.  Rows of different transactions  *)
(* share nothing but the batch buffer, whose entries are independent.      *)
(*                                                                         *)
(* A tracker is one run of checkAndInitializeTrackerInWorker in a worker   *)
(* slot.  What the chain answers is an input: a tracker may see the real   *)
(* outcome or give up at its time limit, so any outcome is possible.       *)
(***************************************************************************)
EXTENDS Integers, FiniteSets

CONSTANTS Replicas,    \* server processes
          Trackers,    \* worker slots of all replicas
          HostOf,      \* the replica of each slot
          Kinds,       \* the kinds of tracker the transaction may have
          Outcomes,    \* terminal statuses a tracker may report
          RetryKinds,  \* bound: the kinds for which a retry is requested
          MaxRetries,  \* bound: retries requested in a behaviour
          CanAge,      \* the transaction may become older than an hour
          Plans,       \* what may go wrong in a behaviour, and how often
          MaxFaults,   \* bound: faults in a behaviour
          None         \* nobody, nothing

MaxCount == 2          \* bound: dispatches are counted up to two
FaultKinds == {"crash", "dbFail", "queueFail", "verifyFail", "launchFail",
               "markFail", "requestCrash", "lockLost"}
\* A plan with "retry" among its kinds allows requests to retry as well.
PlanKinds == FaultKinds \cup {"retry"}

ASSUME TrackersAssumption ==
  /\ HostOf \in [Trackers -> Replicas]
  /\ None \notin Trackers /\ None \notin Replicas
ASSUME ShapeAssumption ==
  /\ Kinds \subseteq {"awaited", "detached", "batch"}
  /\ RetryKinds \subseteq Kinds
  /\ CanAge \in BOOLEAN
  /\ Outcomes \subseteq {"Success", "Failed", "Replaced"}
ASSUME BoundsAssumption ==
  /\ MaxRetries \in Nat /\ MaxFaults \in Nat
  /\ Plans \subseteq [kinds : SUBSET PlanKinds, left : 0..MaxFaults]

VARIABLES
  tracker,                        \* the row: kind of its tracker (below),
  status, hash, commitment, old,  \* status (or "pending"), hash known, commitment, older than 1 h
  finished, lock,                 \* Redis: tracking:finished:*, lock:tx:* (a tracker, None, or "dead")
  jobs,                           \* BullMQ jobs by id
  pc, job, outcome,               \* per slot: step, job being processed, terminal status to write
  expired,                        \* per slot: the outcome is the batch's expiry
  tick,                           \* per slot: the detached `confirmed` update of the poller
  buffer, flush,                  \* per replica: batchBuffer entry, snapshot being flushed
  intake, attach, retry,          \* requests: sync, attachHash, retry
  retries, faults,                \* counters of the bounds: retries so far, plan with the faults left
  invoice,                        \* status of the invoice the transaction pays
  events                          \* history: terminal webhooks dispatched since the last reset, by status

rowVars == <<tracker, status, hash, commitment, old>>
redisVars == <<finished, lock>>
slotVars == <<pc, job, outcome, expired, tick>>
bufferVars == <<buffer, flush>>
requestVars == <<intake, attach, retry, retries>>
vars == <<rowVars, redisVars, jobs, slotVars, bufferVars, requestVars, faults, invoice, events>>

\* The polling of Solana, Safe and Gelato is not awaited by the job that starts it.
Detached == tracker = "detached"
\* An EIP-5792 batch is tracked, awaited, once its hash is known.
Batch == tracker = "batch"

Terminal == {"Success", "Failed", "Replaced"}
\* Job ids: the plain id of each queue, `-hash`, and a fresh one for each retry.
SyncJob == <<"sync", 0>>
HashJob == <<"hash", 0>>
LazyJob == <<"lazy", 0>>
RetryJob(n) == <<"retry", n>>
JobIds == {SyncJob, HashJob, LazyJob} \cup {RetryJob(n) : n \in 1..MaxRetries}
\* Nobody is no job, and the mark of a lock whose holder died is no slot.
ASSUME MarksAssumption == None \notin JobIds /\ None # "dead" /\ "dead" \notin Trackers
JobStates == {"none", "waiting", "active", "stalled", "failed"}
Jobs == [state : JobStates, left : 0..3, stalls : 0..1]
NoJob == [state |-> "none", left |-> 0, stalls |-> 0]
Steps == {"idle", "load", "track", "lock", "commit", "mark", "release", "dispatch", "invoice", "settle"}
Idle == "idle"

Init ==
  /\ tracker \in Kinds
  /\ status = "pending" /\ hash = ~Batch /\ commitment = None /\ old = FALSE
  /\ finished = FALSE /\ lock = None
  /\ jobs = [id \in JobIds |-> NoJob]
  /\ pc = [t \in Trackers |-> Idle]
  /\ job = [t \in Trackers |-> None]
  /\ outcome = [t \in Trackers |-> None]
  /\ expired = [t \in Trackers |-> FALSE]
  /\ tick = [t \in Trackers |-> None]
  /\ buffer = [r \in Replicas |-> None]
  /\ flush = [r \in Replicas |-> None]
  /\ intake = "inserted" /\ attach = Idle /\ retry = Idle
  /\ retries = 0 /\ faults \in Plans
  /\ invoice = "pending"
  /\ events = [s \in Terminal |-> 0]

Fault(kind) ==
  /\ kind \in faults.kinds
  /\ faults.left > 0
  /\ faults' = [faults EXCEPT !.left = @ - 1]

Goto(t, step) == pc' = [pc EXCEPT ![t] = step]
-----------------------------------------------------------------------------
(* BullMQ, as src/ uses it *)

\* Queue.add with a job id: ignored while a job of that id exists in any
\* state, a failed one included (kept for a day).
Added(queue, id, attempts) ==
  IF queue[id].state # "none" THEN queue
  ELSE [queue EXCEPT ![id] = [state |-> "waiting", left |-> attempts, stalls |-> 0]]

\* The job's processor returns (removeOnComplete) or throws (another attempt or failed).
Ended(queue, id, ok) ==
  [queue EXCEPT ![id] =
     IF ok THEN NoJob
     ELSE IF @.left > 1 THEN [state |-> "waiting", left |-> @.left - 1, stalls |-> @.stalls]
     ELSE [@ EXCEPT !.state = "failed"]]

\* The fast processor schedules the lazy phase in its `finally`.
AfterJob(id, ok) ==
  LET ended == Ended(jobs, id, ok)
  IN  IF id = LazyJob THEN ended ELSE Added(ended, LazyJob, 3)

\* A slot is done with its job, if it still has one (a detached poller has none).
EndJob(t, ok) ==
  /\ Goto(t, Idle)
  /\ job' = [job EXCEPT ![t] = None]
  /\ jobs' = IF job[t] = None THEN jobs ELSE AfterJob(job[t], ok)

\* A worker takes a waiting job.
Take(t, id) ==
  /\ pc[t] = Idle
  /\ tick[t] # "checked"
  /\ jobs[id].state = "waiting"
  /\ jobs' = [jobs EXCEPT ![id].state = "active"]
  /\ job' = [job EXCEPT ![t] = id]
  /\ Goto(t, "load")
  /\ UNCHANGED <<rowVars, redisVars, outcome, expired, tick, bufferVars, requestVars, faults, invoice, events>>

\* A job whose worker died is taken up again once (maxStalledCount is 1).  The
\* check runs every 30 s, later than the 5 s of a lock the dead worker held.
Requeue(id) ==
  /\ jobs[id].state = "stalled"
  /\ lock # "dead"
  /\ jobs' = [jobs EXCEPT ![id] =
       IF @.stalls = 0 THEN [state |-> "waiting", left |-> @.left, stalls |-> 1]
       ELSE [@ EXCEPT !.state = "failed"]]
  /\ UNCHANGED <<rowVars, redisVars, slotVars, bufferVars, requestVars, faults, invoice, events>>

\* A failed job is removed after a day.
ForgetFailed(id) ==
  /\ jobs[id].state = "failed"
  /\ jobs' = [jobs EXCEPT ![id] = NoJob]
  /\ UNCHANGED <<rowVars, redisVars, slotVars, bufferVars, requestVars, faults, invoice, events>>
-----------------------------------------------------------------------------
(* checkAndInitializeTrackerInWorker *)

\* Mutant: a batch without a hash waits for ever.
NothingToTrackForever == status # "pending" \/ (Batch /\ ~hash)

\* The row read by the router decides: already final, a batch without a hash
\* that waits or has expired, or a tracker to launch.
NothingToTrack == status # "pending" \/ (Batch /\ ~hash /\ ~old)
BatchExpired == status = "pending" /\ Batch /\ ~hash /\ old

\* Mutant: the router launches a tracker whatever the row says.
LoadUnchecked(t) ==
  /\ pc[t] = "load"
  /\ Goto(t, "track")
  /\ expired' = [expired EXCEPT ![t] = FALSE]
  /\ UNCHANGED <<rowVars, redisVars, job, jobs, outcome, tick, bufferVars, requestVars, faults, invoice, events>>

Load(t) ==
  /\ pc[t] = "load"
  /\ \/ /\ NothingToTrack
        /\ EndJob(t, TRUE)
        /\ UNCHANGED <<outcome, expired, tick>>
     \/ /\ BatchExpired
        /\ Goto(t, "lock")
        /\ outcome' = [outcome EXCEPT ![t] = "Failed"]
        /\ expired' = [expired EXCEPT ![t] = TRUE]
        /\ UNCHANGED <<job, jobs, tick>>
     \/ /\ ~NothingToTrack /\ ~BatchExpired
        /\ Goto(t, "track")
        /\ expired' = [expired EXCEPT ![t] = FALSE]
        /\ tick' = [tick EXCEPT ![t] = IF commitment = None THEN None ELSE "done"]
        /\ IF Detached
             THEN job' = [job EXCEPT ![t] = None] /\ jobs' = AfterJob(job[t], TRUE)
             ELSE UNCHANGED <<job, jobs>>
        /\ UNCHANGED outcome
  /\ UNCHANGED <<rowVars, redisVars, bufferVars, requestVars, faults, invoice, events>>

\* No provider, an undecryptable key, the database: the tracker does not start.
LaunchFail(t) ==
  /\ Fault("launchFail")
  /\ pc[t] = "load"
  /\ EndJob(t, FALSE)
  /\ UNCHANGED <<rowVars, redisVars, outcome, expired, tick, bufferVars, requestVars, invoice, events>>

\* Mutant: the callback does not pass its status on.
ResolveUnset(t) ==
  /\ pc[t] = "track"
  /\ Goto(t, "lock")
  /\ UNCHANGED <<rowVars, redisVars, job, jobs, outcome, expired, tick, bufferVars, requestVars, faults, invoice, events>>

\* The tracker calls onSuccess, onFailure or onReplaced.
Resolve(t) ==
  /\ pc[t] = "track"
  /\ \E s \in Outcomes : outcome' = [outcome EXCEPT ![t] = s]
  /\ Goto(t, "lock")
  /\ UNCHANGED <<rowVars, redisVars, job, jobs, expired, tick, bufferVars, requestVars, faults, invoice, events>>

\* The callback throws.  processEvmTx catches what its onSuccess throws; any
\* other error fails the job, and a detached poller has no job to fail.
Throw(t) == EndJob(t, outcome[t] = "Success")
-----------------------------------------------------------------------------
(* updateDbTx, terminal *)

\* The lock of the transaction; the local buffered entry is evicted.
Lock(t) ==
  /\ pc[t] = "lock"
  /\ lock = None
  /\ lock' = t
  /\ buffer' = [buffer EXCEPT ![HostOf[t]] = None]
  /\ Goto(t, "commit")
  /\ UNCHANGED <<rowVars, finished, job, jobs, outcome, expired, tick, flush, requestVars, faults, invoice, events>>

\* The lock cannot be had: the update is skipped and the caller is not told.
LockSkip(t) ==
  /\ pc[t] = "lock"
  /\ lock # None
  /\ Goto(t, "dispatch")
  /\ UNCHANGED <<rowVars, redisVars, job, jobs, outcome, expired, tick, bufferVars, requestVars, faults, invoice, events>>

\* The row is written, whatever it holds.
Commit(t) ==
  /\ pc[t] = "commit"
  /\ status' = outcome[t]
  /\ commitment' = IF Detached /\ outcome[t] = "Success" THEN "finalized" ELSE commitment
  /\ Goto(t, "mark")
  /\ UNCHANGED <<tracker, hash, old, redisVars, job, jobs, outcome, expired, tick, bufferVars, requestVars, faults, invoice, events>>

Unlocked(t) == IF lock = t THEN None ELSE lock

\* Mutant: the terminal marker is written although the row is not.
CommitFailMarks(t) ==
  /\ Fault("dbFail")
  /\ pc[t] = "commit"
  /\ lock' = Unlocked(t)
  /\ finished' = TRUE
  /\ Throw(t)
  /\ UNCHANGED <<rowVars, outcome, expired, tick, bufferVars, requestVars, invoice, events>>

CommitFail(t) ==
  /\ Fault("dbFail")
  /\ pc[t] = "commit"
  /\ lock' = Unlocked(t)
  /\ Throw(t)
  /\ UNCHANGED <<rowVars, finished, outcome, expired, tick, bufferVars, requestVars, invoice, events>>

\* The marker that later non-terminal updates check.
Mark(t) ==
  /\ pc[t] = "mark"
  /\ finished' = TRUE
  /\ Goto(t, "release")
  /\ UNCHANGED <<rowVars, lock, job, jobs, outcome, expired, tick, bufferVars, requestVars, faults, invoice, events>>

\* Setting the marker fails: logged, nothing else.
MarkFail(t) ==
  /\ Fault("markFail")
  /\ pc[t] = "mark"
  /\ Goto(t, "release")
  /\ UNCHANGED <<rowVars, redisVars, job, jobs, outcome, expired, tick, bufferVars, requestVars, invoice, events>>

\* Mutant: the tracker stops after the terminal write.
ReleaseAndStop(t) ==
  /\ pc[t] = "release"
  /\ lock' = Unlocked(t)
  /\ EndJob(t, TRUE)
  /\ UNCHANGED <<rowVars, finished, outcome, expired, tick, bufferVars, requestVars, faults, invoice, events>>

\* A lock that is no longer the holder's is left alone.
Release(t) ==
  /\ pc[t] = "release"
  /\ lock' = Unlocked(t)
  /\ Goto(t, "dispatch")
  /\ UNCHANGED <<rowVars, finished, job, jobs, outcome, expired, tick, bufferVars, requestVars, faults, invoice, events>>
-----------------------------------------------------------------------------
(* handleTerminalState: the webhook first, then the invoice *)

Counted(n) == IF n < MaxCount THEN n + 1 ELSE n

Dispatch(t) ==
  /\ pc[t] = "dispatch"
  /\ events' = [events EXCEPT ![outcome[t]] = Counted(@)]
  /\ Goto(t, "invoice")
  /\ UNCHANGED <<rowVars, redisVars, job, jobs, outcome, expired, tick, bufferVars, requestVars, faults, invoice>>

DispatchFail(t) ==
  /\ Fault("queueFail")
  /\ pc[t] = "dispatch"
  /\ Throw(t)
  /\ UNCHANGED <<rowVars, redisVars, outcome, expired, tick, bufferVars, requestVars, invoice, events>>

\* The invoice is read, and the payment verified on-chain; a paid invoice is left alone.
ReadInvoice(t) ==
  /\ pc[t] = "invoice"
  /\ IF invoice = "paid" THEN EndJob(t, TRUE)
     ELSE Goto(t, "settle") /\ UNCHANGED <<job, jobs>>
  /\ UNCHANGED <<rowVars, redisVars, outcome, expired, tick, bufferVars, requestVars, faults, invoice, events>>

\* The payment is not verified: a node that does not answer, too few
\* confirmations, another amount or recipient.  A batch is not verified.
VerifyFail(t) ==
  /\ Fault("verifyFail")
  /\ pc[t] = "invoice"
  /\ ~Batch
  /\ invoice # "paid" /\ outcome[t] = "Success"
  /\ Throw(t)
  /\ UNCHANGED <<rowVars, redisVars, outcome, expired, tick, bufferVars, requestVars, invoice, events>>

Settle(t) ==
  /\ pc[t] = "settle"
  /\ invoice' = IF outcome[t] = "Success" THEN "paid" ELSE "failed"
  /\ EndJob(t, TRUE)
  /\ UNCHANGED <<rowVars, redisVars, outcome, expired, tick, bufferVars, requestVars, faults, events>>
-----------------------------------------------------------------------------
(* The buffered update of a detached poller, and the flush *)

\* onIntervalTick starts a non-terminal update once: the marker is checked ...
TickCheck(t) ==
  /\ Detached
  /\ pc[t] = "track"
  /\ tick[t] = None
  /\ tick' = [tick EXCEPT ![t] = IF finished THEN "done" ELSE "checked"]
  /\ UNCHANGED <<rowVars, redisVars, pc, job, jobs, outcome, expired, bufferVars, requestVars, faults, invoice, events>>

\* ... and the entry is buffered under the lock, or skipped without it.
TickBuffer(t) ==
  /\ tick[t] = "checked"
  /\ tick' = [tick EXCEPT ![t] = "done"]
  /\ buffer' = IF lock = None THEN [buffer EXCEPT ![HostOf[t]] = "confirmed"] ELSE buffer
  /\ UNCHANGED <<rowVars, redisVars, pc, job, jobs, outcome, expired, flush, requestVars, faults, invoice, events>>

\* flushBatchBuffer, every two seconds: the snapshot leaves the buffer ...
FlushStart(r) ==
  /\ buffer[r] # None
  /\ flush[r] = None
  /\ flush' = [flush EXCEPT ![r] = buffer[r]]
  /\ buffer' = [buffer EXCEPT ![r] = None]
  /\ UNCHANGED <<rowVars, redisVars, slotVars, jobs, requestVars, faults, invoice, events>>

\* ... and is written to the row.
FlushCommit(r) ==
  /\ flush[r] # None
  /\ commitment' = flush[r]
  /\ flush' = [flush EXCEPT ![r] = None]
  /\ UNCHANGED <<tracker, status, hash, old, redisVars, slotVars, jobs, buffer, requestVars, faults, invoice, events>>

\* The write fails: the snapshot is merged back.
FlushFail(r) ==
  /\ Fault("dbFail")
  /\ flush[r] # None
  /\ buffer' = [buffer EXCEPT ![r] = flush[r]]
  /\ flush' = [flush EXCEPT ![r] = None]
  /\ UNCHANGED <<rowVars, redisVars, slotVars, jobs, requestVars, invoice, events>>
-----------------------------------------------------------------------------
(* Requests: sync, the hash of a batch, retry *)

\* syncTransaction has inserted the row; its job follows.
EnqueueSync ==
  /\ intake = "inserted"
  /\ intake' = "queued"
  /\ jobs' = Added(jobs, SyncJob, 1)
  /\ UNCHANGED <<rowVars, redisVars, slotVars, bufferVars, attach, retry, retries, faults, invoice, events>>

\* attachHash: one conditional UPDATE, of a pending batch without a hash.
AttachHash ==
  /\ Batch
  /\ attach = Idle
  /\ status = "pending" /\ ~hash
  /\ hash' = TRUE
  /\ attach' = "updated"
  /\ UNCHANGED <<tracker, status, commitment, old, redisVars, slotVars, jobs, bufferVars, intake, retry, retries, faults, invoice, events>>

EnqueueHash ==
  /\ attach = "updated"
  /\ attach' = "queued"
  /\ jobs' = Added(jobs, HashJob, 1)
  /\ UNCHANGED <<rowVars, redisVars, slotVars, bufferVars, intake, retry, retries, faults, invoice, events>>

\* Both retry endpoints read the row first; the dashboard refuses a success
\* (and a pending row younger than a minute: any pending row may be older).
RetryRead(kind) ==
  /\ retry = Idle
  /\ tracker \in RetryKinds /\ "retry" \in faults.kinds
  /\ retries < MaxRetries
  /\ kind = "dashboard" => status # "Success"
  /\ retry' = kind
  /\ retries' = retries + 1
  /\ UNCHANGED <<rowVars, redisVars, slotVars, jobs, bufferVars, intake, attach, faults, invoice, events>>

\* The marker is deleted; the engine's resetTerminalTx deletes the lock and
\* its own replica's buffered entry as well.
RetryEvict ==
  /\ retry \in {"engine", "dashboard"}
  /\ finished' = FALSE
  /\ \/ /\ retry = "engine"
        /\ lock' = None
        /\ \E r \in Replicas : buffer' = [buffer EXCEPT ![r] = None]
        /\ retry' = "resetEngine"
     \/ /\ retry = "dashboard"
        /\ retry' = "resetDashboard"
        /\ UNCHANGED <<lock, buffer>>
  /\ UNCHANGED <<rowVars, slotVars, jobs, flush, intake, attach, retries, faults, invoice, events>>

\* The row goes back to pending, whatever it holds by now.
RetryReset ==
  /\ retry \in {"resetEngine", "resetDashboard"}
  /\ status' = "pending"
  /\ events' = [s \in Terminal |-> 0]
  /\ retry' = "enqueue"
  /\ UNCHANGED <<tracker, hash, commitment, old, redisVars, slotVars, jobs, bufferVars, intake, attach, retries, faults, invoice>>

RetryEnqueue ==
  /\ retry = "enqueue"
  /\ retry' = Idle
  /\ jobs' = Added(jobs, RetryJob(retries), 3)
  /\ UNCHANGED <<rowVars, redisVars, slotVars, bufferVars, intake, attach, retries, faults, invoice, events>>

\* The process of a request dies, or Redis refuses the job.
RequestCrash ==
  /\ Fault("requestCrash")
  /\ \/ intake = "inserted" /\ intake' = "died" /\ UNCHANGED <<attach, retry>>
     \/ attach = "updated" /\ attach' = "died" /\ UNCHANGED <<intake, retry>>
     \/ retry # Idle /\ retry' = Idle /\ UNCHANGED <<intake, attach>>
  /\ UNCHANGED <<rowVars, redisVars, slotVars, jobs, bufferVars, retries, invoice, events>>
-----------------------------------------------------------------------------
(* Time, the sweeper and crashes *)

\* An hour passes.
Age ==
  /\ CanAge
  /\ ~old
  /\ old' = TRUE
  /\ UNCHANGED <<tracker, status, hash, commitment, redisVars, slotVars, jobs, bufferVars, requestVars, faults, invoice, events>>

\* Mutant: the sweeper sweeps nothing.
SweepNothing == FALSE /\ UNCHANGED vars

\* sweepStalePendingTransactions: a row pending for an hour gets a lazy job.
Sweep ==
  /\ status = "pending"
  /\ old
  /\ jobs[LazyJob].state = "none"
  /\ jobs' = Added(jobs, LazyJob, 3)
  /\ UNCHANGED <<rowVars, redisVars, slotVars, bufferVars, requestVars, faults, invoice, events>>

\* The marker lives for five minutes, the lock of a dead holder for five seconds.
ExpireMarker ==
  /\ finished
  /\ finished' = FALSE
  /\ UNCHANGED <<rowVars, lock, slotVars, jobs, bufferVars, requestVars, faults, invoice, events>>

ExpireLock ==
  /\ lock = "dead"
  /\ lock' = None
  /\ UNCHANGED <<rowVars, finished, slotVars, jobs, bufferVars, requestVars, faults, invoice, events>>

\* The lock expires under a holder that is slow.
LoseLock ==
  /\ Fault("lockLost")
  /\ lock \in Trackers
  /\ lock' = None
  /\ UNCHANGED <<rowVars, finished, slotVars, jobs, bufferVars, requestVars, invoice, events>>

\* A replica dies: its slots, buffer and flush are gone, its jobs stall, its lock stays.
Crash(r) ==
  /\ Fault("crash")
  /\ LET dead == {t \in Trackers : HostOf[t] = r}
         held == {job[t] : t \in dead} \ {None}
     IN  /\ \E t \in dead : pc[t] # Idle \/ tick[t] = "checked" \/ buffer[r] # None \/ flush[r] # None
         /\ pc' = [t \in Trackers |-> IF t \in dead THEN Idle ELSE pc[t]]
         /\ job' = [t \in Trackers |-> IF t \in dead THEN None ELSE job[t]]
         /\ tick' = [t \in Trackers |-> IF t \in dead THEN None ELSE tick[t]]
         /\ jobs' = [id \in JobIds |->
              IF id \in held THEN [jobs[id] EXCEPT !.state = "stalled"] ELSE jobs[id]]
         /\ lock' = IF lock \in dead THEN "dead" ELSE lock
  /\ buffer' = [buffer EXCEPT ![r] = None]
  /\ flush' = [flush EXCEPT ![r] = None]
  /\ UNCHANGED <<rowVars, finished, outcome, expired, requestVars, invoice, events>>
-----------------------------------------------------------------------------

TrackerStep(t) ==
  \/ Load(t) \/ Resolve(t)
  \/ Lock(t) \/ LockSkip(t) \/ Commit(t) \/ Mark(t) \/ Release(t)
  \/ Dispatch(t) \/ ReadInvoice(t) \/ Settle(t)

TrackerFault(t) ==
  \/ LaunchFail(t) \/ CommitFail(t) \/ MarkFail(t) \/ DispatchFail(t) \/ VerifyFail(t)

QueueStep ==
  \/ \E t \in Trackers, id \in JobIds : Take(t, id)
  \/ \E id \in JobIds : Requeue(id) \/ ForgetFailed(id)

FlushStep(r) == FlushStart(r) \/ FlushCommit(r)

RequestStep ==
  \/ EnqueueSync \/ AttachHash \/ EnqueueHash
  \/ \E kind \in {"engine", "dashboard"} : RetryRead(kind)
  \/ RetryEvict \/ RetryReset \/ RetryEnqueue
  \/ RequestCrash

Next ==
  \/ \E t \in Trackers : TrackerStep(t) \/ TrackerFault(t) \/ TickCheck(t) \/ TickBuffer(t)
  \/ \E r \in Replicas : FlushStep(r) \/ FlushFail(r) \/ Crash(r)
  \/ QueueStep
  \/ RequestStep
  \/ Age \/ Sweep \/ ExpireMarker \/ ExpireLock \/ LoseLock

Spec == Init /\ [][Next]_vars

\* Workers keep taking jobs and running them, time passes, the sweeper runs
\* every hour and a request that started goes on.  Whether the app reports a
\* hash, asks for a retry, or a fault happens is left free.
Fairness ==
  /\ \A t \in Trackers : WF_vars(TrackerStep(t)) /\ WF_vars(TickBuffer(t))
  /\ \A r \in Replicas : WF_vars(FlushStep(r))
  /\ WF_vars(\E t \in Trackers, id \in JobIds : Take(t, id))
  /\ \A id \in JobIds : WF_vars(Requeue(id)) /\ WF_vars(ForgetFailed(id))
  /\ WF_vars(EnqueueSync) /\ WF_vars(EnqueueHash)
  /\ WF_vars(RetryEvict \/ RetryReset \/ RetryEnqueue)
  /\ WF_vars(Age) /\ WF_vars(Sweep) /\ WF_vars(ExpireLock)

FairSpec == Spec /\ Fairness
-----------------------------------------------------------------------------
(* Properties *)

FaultBudget == [kinds : SUBSET PlanKinds, left : 0..MaxFaults]

TypeOK ==
  /\ tracker \in Kinds
  /\ status \in Terminal \cup {"pending"}
  /\ hash \in BOOLEAN /\ old \in BOOLEAN /\ finished \in BOOLEAN
  /\ commitment \in {None, "confirmed", "finalized"}
  /\ lock \in Trackers \cup {None, "dead"}
  /\ jobs \in [JobIds -> Jobs]
  /\ pc \in [Trackers -> Steps]
  /\ job \in [Trackers -> JobIds \cup {None}]
  /\ outcome \in [Trackers -> Terminal \cup {None}]
  /\ expired \in [Trackers -> BOOLEAN]
  /\ tick \in [Trackers -> {None, "checked", "done"}]
  /\ buffer \in [Replicas -> {None, "confirmed"}]
  /\ flush \in [Replicas -> {None, "confirmed"}]
  /\ intake \in {"inserted", "queued", "died"}
  /\ attach \in {Idle, "updated", "queued", "died"}
  /\ retry \in {Idle, "engine", "dashboard", "resetEngine", "resetDashboard", "enqueue"}
  /\ retries \in 0..MaxRetries /\ faults \in FaultBudget
  /\ invoice \in {"pending", "paid", "failed"}
  /\ events \in [Terminal -> 0..MaxCount]

\* The marker that stops later updates of the row stands only for a row that
\* is final: "only after successful DB commit", even when the write fails, the
\* lock expires or a replica dies between the two.  A retry deletes the marker
\* before it resets the row, so the statement is about rows without retries.
MarkerAfterCommit == (finished /\ retries = 0) => status # "pending"

\* A transaction that waits for its tracker becomes final, whatever dies on
\* the way: the lazy phase, the retries of jobs and the sweeper see to it.
EventuallyFinal == (status = "pending") ~> (status # "pending")

\* The final status is announced by its webhook.
EventuallyAnnounced == <>(status # "pending" /\ events[status] > 0)
\* It is when no process dies, the queue takes the webhook and no retry resets the
\* row, whatever else fails.
AnnouncedIfNothingDies ==
  ({"crash", "queueFail", "retry"} \cap faults.kinds = {}) ~> (status # "pending" /\ events[status] > 0)

\* The lifecycle implements its abstract specification.
Announced == {s \in Terminal : events[s] > 0}
Tracked == INSTANCE TrackedTransaction WITH announced <- Announced
ImplementsTracked == Tracked!Spec

\* A transaction is announced once, unless a retry was requested or the
\* sweeper (after an hour) doubled a job: terminal events are deduplicated.
AnnouncedOnce ==
  (retries = 0 /\ ~old) =>
    \A s1, s2 \in Terminal :
      (events[s1] > 0 /\ events[s2] > 0) => s1 = s2 /\ events[s1] = 1

\* A finalized transaction does not go back to confirmed: the terminal write
\* evicts what is buffered, and no other replica writes the same row.
CommitmentNeverRegresses == [][commitment = "finalized" => commitment' = "finalized"]_vars

\* A retry from the dashboard never resets a success.
DashboardNeverResetsSuccess ==
  [][(retry = "resetDashboard" /\ retry' = "enqueue") => status # "Success"]_vars

\* An invoice that was paid stays paid.
PaidStaysPaid == [][invoice = "paid" => invoice' = "paid"]_vars

\* Only a batch whose hash never arrived expires.
ExpiredBatchHasNoHash ==
  [][\A t \in Trackers :
       (pc[t] = "commit" /\ pc'[t] = "mark" /\ expired[t]) => ~hash]_vars

\* The webhook goes out after the row is final.
AnnouncedAfterCommit ==
  [][\A t \in Trackers :
       (pc[t] = "dispatch" /\ pc'[t] = "invoice" /\ retries = 0) => status # "pending"]_vars
=============================================================================
