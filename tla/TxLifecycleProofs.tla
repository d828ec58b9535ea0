-------------------------- MODULE TxLifecycleProofs --------------------------
(***************************************************************************)
(* What is proved of TxLifecycle, for every value of its constants: any    *)
(* number of replicas and slots, every kind of tracker, retries and faults.*)
(***************************************************************************)
EXTENDS TxLifecycle, TLAPS

\* A tracker on its way to the write of the row has a status to write.
Resolved == \A t \in Trackers : pc[t] \in {"lock", "commit"} => outcome[t] \in Terminal

\* A retry that deletes the marker or resets the row has been counted.
RetryCounted == retry # Idle => retries > 0

\* Without retries a row stays final: a tracker that is about to write the
\* marker finds it final, and so does every reader of the marker.
FinalStays ==
  retries = 0 =>
    /\ \A t \in Trackers : pc[t] = "mark" => status # "pending"
    /\ finished => status # "pending"

\* A slot that is about to read the row works on a job.
HasJob == \A t \in Trackers : pc[t] = "load" => job[t] \in JobIds

IInv == TypeOK /\ Resolved /\ HasJob /\ RetryCounted /\ FinalStays
-----------------------------------------------------------------------------

\* Queue.add keeps the jobs well-formed (sync.controller.ts, tracking-worker.service.ts).
LEMMA AddedType ==
  ASSUME NEW queue \in [JobIds -> Jobs], NEW id, NEW attempts \in 0..3
  PROVE  Added(queue, id, attempts) \in [JobIds -> Jobs]
<1>1. [state |-> "waiting", left |-> attempts, stalls |-> 0] \in Jobs
  BY DEF Jobs, JobStates
<1> QED
  BY <1>1 DEF Added

\* The end of a job keeps the jobs well-formed (BullMQ).
LEMMA EndedType ==
  ASSUME NEW queue \in [JobIds -> Jobs], NEW id \in JobIds, NEW ok \in BOOLEAN
  PROVE  Ended(queue, id, ok) \in [JobIds -> Jobs]
<1>1. NoJob \in Jobs
  BY DEF NoJob, Jobs, JobStates
<1> DEFINE j == queue[id]
<1>2. j \in Jobs
  OBVIOUS
<1>3. j.left > 1 => [state |-> "waiting", left |-> j.left - 1, stalls |-> j.stalls] \in Jobs
  BY <1>2 DEF Jobs, JobStates
<1>4. [j EXCEPT !.state = "failed"] \in Jobs
  BY <1>2 DEF Jobs, JobStates
<1>5. CASE ok
  BY <1>1, <1>5 DEF Ended
<1>6. CASE ~ok /\ j.left > 1
  BY <1>3, <1>6 DEF Ended
<1>7. CASE ~ok /\ ~(j.left > 1)
  BY <1>4, <1>7 DEF Ended
<1> QED
  BY <1>5, <1>6, <1>7

\* The fast phase hands over to the lazy one (TrackingFastProcessor.process).
LEMMA AfterJobType ==
  ASSUME jobs \in [JobIds -> Jobs], NEW id \in JobIds, NEW ok \in BOOLEAN
  PROVE  AfterJob(id, ok) \in [JobIds -> Jobs]
<1>1. Ended(jobs, id, ok) \in [JobIds -> Jobs]
  BY EndedType
<1>2. Added(Ended(jobs, id, ok), LazyJob, 3) \in [JobIds -> Jobs]
  BY <1>1, AddedType
<1> QED
  BY <1>1, <1>2 DEF AfterJob

\* The end of a slot's work disturbs nothing but the slot and its job.
LEMMA EndJobType ==
  ASSUME TypeOK, NEW t \in Trackers, NEW ok \in BOOLEAN, EndJob(t, ok)
  PROVE  /\ pc' = [pc EXCEPT ![t] = Idle]
         /\ pc' \in [Trackers -> Steps]
         /\ job' = [job EXCEPT ![t] = None]
         /\ job' \in [Trackers -> JobIds \cup {None}]
         /\ jobs' \in [JobIds -> Jobs]
<1>1. CASE job[t] = None
  BY <1>1 DEF EndJob, Goto, TypeOK, Steps, Idle
<1>2. CASE job[t] # None
  <2>1. job[t] \in JobIds
    BY <1>2 DEF TypeOK
  <2>2. AfterJob(job[t], ok) \in [JobIds -> Jobs]
    BY <2>1, AfterJobType DEF TypeOK
  <2> QED
    BY <1>2, <2>2 DEF EndJob, Goto, TypeOK, Steps, Idle
<1> QED
  BY <1>1, <1>2

\* A fault takes one from what the plan allows.
LEMMA FaultCounted ==
  ASSUME faults \in FaultBudget, NEW kind, Fault(kind)
  PROVE  faults' \in FaultBudget
<1>1. faults.left > 0 => [faults EXCEPT !.left = @ - 1] \in FaultBudget
  BY BoundsAssumption DEF FaultBudget
<1> QED
  BY <1>1 DEF Fault

\* A slot that ends its work and leaves the row, the marker and the requests
\* alone keeps the invariant (checkAndInitializeTrackerInWorker returns or throws).
LEMMA EndJobKeeps ==
  ASSUME IInv, NEW t \in Trackers, NEW ok \in BOOLEAN, EndJob(t, ok),
         lock' \in Trackers \cup {None, "dead"},
         faults' \in FaultBudget,
         invoice' \in {"pending", "paid", "failed"},
         events' = events,
         UNCHANGED <<rowVars, finished, outcome, expired, tick, bufferVars, requestVars>>
  PROVE  IInv'
<1> USE DEF IInv, TypeOK, Resolved, HasJob, RetryCounted, FinalStays, rowVars, bufferVars, requestVars
<1>1. /\ pc' = [pc EXCEPT ![t] = Idle]
      /\ pc' \in [Trackers -> Steps]
      /\ job' = [job EXCEPT ![t] = None]
      /\ job' \in [Trackers -> JobIds \cup {None}]
      /\ jobs' \in [JobIds -> Jobs]
  BY EndJobType
<1>2. TypeOK'
  BY <1>1
<1>3. Resolved' /\ HasJob' /\ FinalStays'
  BY <1>1 DEF Idle
<1> QED
  BY <1>2, <1>3

\* The handlers that end a slot's work keep the invariant.
LEMMA EndingStepKeeps ==
  ASSUME IInv, NEW t \in Trackers,
         LaunchFail(t) \/ CommitFail(t) \/ DispatchFail(t) \/ VerifyFail(t) \/ Settle(t)
  PROVE  IInv'
<1>1. lock \in Trackers \cup {None, "dead"} /\ invoice \in {"pending", "paid", "failed"}
      /\ faults \in FaultBudget
  BY DEF IInv, TypeOK
<1>2. faults.left > 0 => [faults EXCEPT !.left = @ - 1] \in FaultBudget
  BY <1>1, BoundsAssumption DEF FaultBudget
<1>3. (outcome[t] = "Success") \in BOOLEAN
  OBVIOUS
<1>4. CASE LaunchFail(t)
  BY <1>1, <1>2, <1>4, EndJobKeeps DEF LaunchFail, Fault, rowVars, redisVars
<1>5. CASE CommitFail(t)
  BY <1>1, <1>2, <1>3, <1>5, EndJobKeeps DEF CommitFail, Throw, Fault, Unlocked
<1>6. CASE DispatchFail(t)
  BY <1>1, <1>2, <1>3, <1>6, EndJobKeeps DEF DispatchFail, Throw, Fault, redisVars
<1>7. CASE VerifyFail(t)
  BY <1>1, <1>2, <1>3, <1>7, EndJobKeeps DEF VerifyFail, Throw, Fault, redisVars
<1>8. CASE Settle(t)
  BY <1>1, <1>8, EndJobKeeps DEF Settle, redisVars
<1> QED
  BY <1>4, <1>5, <1>6, <1>7, <1>8
-----------------------------------------------------------------------------

\* The initial row, queues and slots satisfy the invariant (syncTransaction).
LEMMA InitIInv == Init => IInv
<1> SUFFICES ASSUME Init PROVE IInv
  OBVIOUS
<1> USE ShapeAssumption, BoundsAssumption
<1>1. NoJob \in Jobs
  BY DEF NoJob, Jobs, JobStates
<1>2. /\ jobs \in [JobIds -> Jobs]
      /\ events \in [Terminal -> 0..MaxCount]
      /\ retries \in 0..MaxRetries /\ faults \in FaultBudget
  BY <1>1 DEF Init, MaxCount, FaultBudget
<1>3. /\ pc \in [Trackers -> Steps]
      /\ job \in [Trackers -> JobIds \cup {None}]
      /\ outcome \in [Trackers -> Terminal \cup {None}]
      /\ expired \in [Trackers -> BOOLEAN]
      /\ tick \in [Trackers -> {None, "checked", "done"}]
      /\ buffer \in [Replicas -> {None, "confirmed"}]
      /\ flush \in [Replicas -> {None, "confirmed"}]
  BY DEF Init, Steps, Idle
<1>4. TypeOK
  BY <1>2, <1>3 DEF Init, TypeOK, Terminal, Steps, Idle, MaxCount, Batch
<1> QED
  BY <1>4 DEF Init, IInv, Resolved, HasJob, RetryCounted, FinalStays, Idle

\* Every handler keeps the invariant.
LEMMA NextIInv == IInv /\ [Next]_vars => IInv'
<1> SUFFICES ASSUME IInv, [Next]_vars PROVE IInv'
  OBVIOUS
<1> USE ShapeAssumption, BoundsAssumption
<1> USE DEF IInv, TypeOK, Resolved, HasJob, RetryCounted, FinalStays,
            rowVars, redisVars, slotVars, bufferVars, requestVars, Goto, Fault, Steps, Idle, Terminal
<1>1. ASSUME NEW t \in Trackers, TrackerStep(t)
      PROVE  IInv'
  <2>1. CASE Load(t)
    <3>1. CASE EndJob(t, TRUE) /\ UNCHANGED <<outcome, expired, tick>>
      BY <2>1, <3>1, EndJobKeeps DEF Load
    <3>2. CASE /\ Goto(t, "lock")
               /\ outcome' = [outcome EXCEPT ![t] = "Failed"]
               /\ expired' = [expired EXCEPT ![t] = TRUE]
               /\ UNCHANGED <<job, jobs, tick>>
      BY <2>1, <3>2 DEF Load
    <3>3. CASE /\ Goto(t, "track")
               /\ expired' = [expired EXCEPT ![t] = FALSE]
               /\ tick' = [tick EXCEPT ![t] = IF commitment = None THEN None ELSE "done"]
               /\ IF Detached
                    THEN job' = [job EXCEPT ![t] = None] /\ jobs' = AfterJob(job[t], TRUE)
                    ELSE UNCHANGED <<job, jobs>>
               /\ UNCHANGED outcome
      <4>1. jobs' \in [JobIds -> Jobs] /\ job' \in [Trackers -> JobIds \cup {None}]
        <5>1. job[t] \in JobIds
          BY <2>1 DEF Load
        <5>2. AfterJob(job[t], TRUE) \in [JobIds -> Jobs]
          BY <5>1, AfterJobType
        <5> QED
          BY <3>3, <5>2
      <4>2. /\ pc' \in [Trackers -> Steps]
            /\ expired' \in [Trackers -> BOOLEAN]
            /\ tick' \in [Trackers -> {None, "checked", "done"}]
            /\ \A u \in Trackers : pc'[u] # "track" => pc'[u] = pc[u] /\ job'[u] = job[u]
        BY <3>3
      <4>3. UNCHANGED <<rowVars, redisVars, outcome, bufferVars, requestVars, faults, invoice, events>>
        BY <2>1, <3>3 DEF Load
      <4>4. TypeOK'
        BY <4>1, <4>2, <4>3
      <4> QED
        BY <4>2, <4>3, <4>4
    <3> QED
      BY <2>1, <3>1, <3>2, <3>3 DEF Load
  <2>2. CASE Resolve(t)
    BY <2>2 DEF Resolve
  <2>3. CASE Lock(t)
    <3>1. /\ lock' \in Trackers \cup {None, "dead"}
          /\ buffer' \in [Replicas -> {None, "confirmed"}]
          /\ pc' \in [Trackers -> Steps]
      BY <2>3 DEF Lock
    <3>2. Resolved'
      BY <2>3 DEF Lock
    <3> QED
      BY <2>3, <3>1, <3>2 DEF Lock
  <2>4. CASE LockSkip(t)
    BY <2>4 DEF LockSkip
  <2>5. CASE Commit(t)
    BY <2>5 DEF Commit
  <2>6. CASE Mark(t)
    BY <2>6 DEF Mark
  <2>7. CASE Release(t)
    BY <2>7 DEF Release, Unlocked
  <2>8. CASE Dispatch(t)
    <3>1. \A n \in 0..MaxCount : Counted(n) \in 0..MaxCount
      BY DEF Counted, MaxCount
    <3>2. events' \in [Terminal -> 0..MaxCount]
      BY <2>8, <3>1 DEF Dispatch
    <3> QED
      BY <2>8, <3>2 DEF Dispatch
  <2>9. CASE ReadInvoice(t)
    <3>1. CASE EndJob(t, TRUE)
      BY <2>9, <3>1, EndJobKeeps DEF ReadInvoice
    <3>2. CASE Goto(t, "settle") /\ UNCHANGED <<job, jobs>>
      BY <2>9, <3>2 DEF ReadInvoice
    <3> QED
      BY <2>9, <3>1, <3>2 DEF ReadInvoice
  <2>10. CASE Settle(t)
    BY <2>10, EndingStepKeeps
  <2> QED
    BY <1>1, <2>1, <2>2, <2>3, <2>4, <2>5, <2>6, <2>7, <2>8, <2>9, <2>10 DEF TrackerStep
<1>2. ASSUME NEW t \in Trackers, TrackerFault(t)
      PROVE  IInv'
  <2>1. CASE LaunchFail(t)
    BY <2>1, EndingStepKeeps
  <2>2. CASE CommitFail(t)
    BY <2>2, EndingStepKeeps
  <2>3. CASE MarkFail(t)
    <3>1. faults' \in FaultBudget
      BY <2>3, FaultCounted DEF MarkFail
    <3> QED
      BY <2>3, <3>1 DEF MarkFail
  <2>4. CASE DispatchFail(t)
    BY <2>4, EndingStepKeeps
  <2>5. CASE VerifyFail(t)
    BY <2>5, EndingStepKeeps
  <2> QED
    BY <1>2, <2>1, <2>2, <2>3, <2>4, <2>5 DEF TrackerFault
<1>3. ASSUME NEW t \in Trackers, TickCheck(t) \/ TickBuffer(t)
      PROVE  IInv'
  BY <1>3 DEF TickCheck, TickBuffer
<1>4. ASSUME NEW r \in Replicas, FlushStep(r) \/ FlushFail(r)
      PROVE  IInv'
  <2>1. faults' \in FaultBudget
    BY <1>4, FaultCounted DEF FlushStep, FlushStart, FlushCommit, FlushFail
  <2> QED
    BY <1>4, <2>1 DEF FlushStep, FlushStart, FlushCommit, FlushFail
<1>5. ASSUME NEW r \in Replicas, Crash(r)
      PROVE  IInv'
  <2>1. jobs' \in [JobIds -> Jobs]
    BY <1>5 DEF Crash, Jobs, JobStates
  <2>2. lock' \in Trackers \cup {None, "dead"}
    BY <1>5 DEF Crash
  <2>3. /\ pc' \in [Trackers -> Steps]
        /\ \A t \in Trackers : pc'[t] # Idle => pc'[t] = pc[t]
    BY <1>5 DEF Crash
  <2>4. job' \in [Trackers -> JobIds \cup {None}] /\ tick' \in [Trackers -> {None, "checked", "done"}]
    BY <1>5 DEF Crash
  <2>5. buffer' \in [Replicas -> {None, "confirmed"}] /\ flush' \in [Replicas -> {None, "confirmed"}]
    BY <1>5 DEF Crash
  <2>6. faults' \in FaultBudget
    BY <1>5, FaultCounted DEF Crash
  <2> QED
    BY <1>5, <2>1, <2>2, <2>3, <2>4, <2>5, <2>6 DEF Crash
<1>6. CASE QueueStep
  <2>1. ASSUME NEW t \in Trackers, NEW id \in JobIds, Take(t, id)
        PROVE  IInv'
    <3>1. jobs' \in [JobIds -> Jobs]
      BY <2>1 DEF Take, Jobs, JobStates
    <3> QED
      BY <2>1, <3>1 DEF Take
  <2>2. ASSUME NEW id \in JobIds, Requeue(id) \/ ForgetFailed(id)
        PROVE  IInv'
    <3>1. jobs' \in [JobIds -> Jobs]
      <4>1. NoJob \in Jobs
        BY DEF NoJob, Jobs, JobStates
      <4>2. [state |-> "waiting", left |-> jobs[id].left, stalls |-> 1] \in Jobs
        BY DEF Jobs, JobStates
      <4>3. [jobs[id] EXCEPT !.state = "failed"] \in Jobs
        BY DEF Jobs, JobStates
      <4> QED
        BY <2>2, <4>1, <4>2, <4>3 DEF Requeue, ForgetFailed
    <3> QED
      BY <2>2, <3>1 DEF Requeue, ForgetFailed
  <2> QED
    BY <1>6, <2>1, <2>2 DEF QueueStep
<1>7. CASE RequestStep
  <2>1. CASE EnqueueSync
    BY <2>1, AddedType DEF EnqueueSync
  <2>2. CASE AttachHash
    BY <2>2 DEF AttachHash
  <2>3. CASE EnqueueHash
    BY <2>3, AddedType DEF EnqueueHash
  <2>4. ASSUME NEW kind \in {"engine", "dashboard"}, RetryRead(kind)
        PROVE  IInv'
    BY <2>4 DEF RetryRead
  <2>5. CASE RetryEvict
    <3>1. /\ lock' \in Trackers \cup {None, "dead"}
          /\ buffer' \in [Replicas -> {None, "confirmed"}]
      BY <2>5 DEF RetryEvict
    <3>2. retry' \in {"resetEngine", "resetDashboard"} /\ retries' > 0 /\ finished' = FALSE
      BY <2>5 DEF RetryEvict
    <3>3. UNCHANGED <<rowVars, slotVars, jobs, flush, intake, attach, retries, faults, invoice, events>>
      BY <2>5 DEF RetryEvict
    <3>4. finished' \in BOOLEAN
      BY <3>2, Zenon
    <3>5. TypeOK'
      BY <3>1, <3>2, <3>3, <3>4
    <3> QED
      BY <3>2, <3>3, <3>5
  <2>6. CASE RetryReset
    BY <2>6 DEF RetryReset, MaxCount
  <2>7. CASE RetryEnqueue
    BY <2>7, AddedType DEF RetryEnqueue
  <2>8. CASE RequestCrash
    <3>1. faults' \in FaultBudget
      BY <2>8, FaultCounted DEF RequestCrash
    <3> QED
      BY <2>8, <3>1 DEF RequestCrash
  <2> QED
    BY <1>7, <2>1, <2>2, <2>3, <2>4, <2>5, <2>6, <2>7, <2>8 DEF RequestStep
<1>8. CASE Age \/ Sweep \/ ExpireMarker \/ ExpireLock \/ LoseLock
  <2>1. CASE Sweep
    BY <2>1, AddedType DEF Sweep
  <2>2. CASE Age
    BY <2>2 DEF Age
  <2>3. CASE ExpireMarker
    <3>1. /\ finished' = FALSE
          /\ UNCHANGED <<rowVars, lock, slotVars, jobs, bufferVars, requestVars, faults, invoice, events>>
      BY <2>3 DEF ExpireMarker
    <3>2. finished' \in BOOLEAN
      BY <3>1, Zenon
    <3>3. TypeOK'
      BY <3>1, <3>2
    <3> QED
      BY <3>1, <3>3
  <2>4. CASE ExpireLock
    BY <2>4 DEF ExpireLock
  <2>5. CASE LoseLock
    <3>1. faults' \in FaultBudget
      BY <2>5, FaultCounted DEF LoseLock
    <3> QED
      BY <2>5, <3>1 DEF LoseLock
  <2> QED
    BY <1>8, <2>1, <2>2, <2>3, <2>4, <2>5
<1>9. CASE UNCHANGED vars
  BY <1>9 DEF vars
<1> QED
  BY <1>1, <1>2, <1>3, <1>4, <1>5, <1>6, <1>7, <1>8, <1>9 DEF Next
-----------------------------------------------------------------------------

\* The row, the queues, the slots and the requests keep their types, whatever
\* the handlers, the faults and the retries do.
THEOREM TypeCorrect == Spec => []TypeOK
<1>1. Init => IInv
  BY InitIInv
<1>2. IInv /\ [Next]_vars => IInv'
  BY NextIInv
<1>3. IInv => TypeOK
  BY DEF IInv
<1> QED
  BY <1>1, <1>2, <1>3, PTL DEF Spec

\* The marker that suppresses later updates stands only for a final row
\* (updateDbTx), for any number of replicas, trackers and faults, as long as
\* no retry was requested.
THEOREM MarkerHolds == Spec => []MarkerAfterCommit
<1>1. Init => IInv
  BY InitIInv
<1>2. IInv /\ [Next]_vars => IInv'
  BY NextIInv
<1>3. IInv => MarkerAfterCommit
  BY DEF IInv, FinalStays, MarkerAfterCommit
<1> QED
  BY <1>1, <1>2, <1>3, PTL DEF Spec

-----------------------------------------------------------------------------
(* What the two liveness properties of the lifecycle rest on *)

\* A final row that nobody has announced has a tracker on its way to the dispatch
\* with that status, whatever fails, as long as no process dies and the queue takes
\* the webhook.  It holds over retries, which start the announcements again, and for
\* trackers that overwrite each other's status (updateDbTx, handleTerminalState).
OnItsWay(t) == pc[t] \in {"mark", "release", "dispatch"}
AnnouncementOwed ==
  ({"crash", "queueFail"} \cap faults.kinds = {} /\ status # "pending") =>
    \/ events[status] > 0
    \/ \E t \in Trackers : OnItsWay(t) /\ outcome[t] = status

\* The faults after which only the sweeper can take a pending row up again.
Spared ==
  /\ {"crash", "dbFail", "launchFail", "requestCrash"} \cap faults.kinds = {}
  /\ ~Batch /\ retries = 0

\* Without such a fault somebody works on a pending row, or is going to: its
\* request, a job that waits, or a slot (fast and lazy phase, detached pollers).
WorkedOn ==
  status = "pending" =>
    \/ intake = "inserted"
    \/ \E id \in JobIds : jobs[id].state = "waiting"
    \/ \E t \in Trackers : pc[t] # Idle
SweeperSpared == Spared => WorkedOn

\* The lock is held around the write only.
HolderWrites == lock # None => lock \in Trackers /\ pc[lock] \in {"commit", "mark", "release"}

\* A tracker that is past the write, or skipped it because another held the lock,
\* leaves a final row or another one that is about to write it.
Past(t) == pc[t] \in {"mark", "release", "dispatch", "invoice", "settle"}
WriteAhead ==
  \A t \in Trackers : Past(t) => status # "pending" \/ \E u \in Trackers : pc[u] = "commit"

\* The job of the request is new when it is queued.
NotYetQueued ==
  intake = "inserted" => jobs[SyncJob].state = "none" /\ \A t \in Trackers : job[t] # SyncJob

WorkInv == HolderWrites /\ WriteAhead /\ NotYetQueued /\ WorkedOn

\* What is owed stays owed while the trackers on their way go on.
LEMMA OwedKeeps ==
  ASSUME AnnouncementOwed, faults'.kinds = faults.kinds, UNCHANGED <<status, events>>,
         {"crash", "queueFail"} \cap faults.kinds = {} =>
           \A t \in Trackers : OnItsWay(t) => OnItsWay(t)' /\ outcome'[t] = outcome[t]
  PROVE  AnnouncementOwed'
<1> SUFFICES ASSUME {"crash", "queueFail"} \cap faults.kinds = {}, status # "pending"
             PROVE  events[status] > 0 \/ \E t \in Trackers : OnItsWay(t)' /\ outcome'[t] = status
  BY DEF AnnouncementOwed
<1> QED
  BY DEF AnnouncementOwed

\* Faults are counted down; their kinds stay.
LEMMA KindsStay ==
  ASSUME TypeOK, [Next]_vars
  PROVE  faults'.kinds = faults.kinds
<1>1. ASSUME NEW kind, Fault(kind)
      PROVE  faults'.kinds = faults.kinds
  BY <1>1 DEF Fault, TypeOK, FaultBudget
<1> QED
  BY <1>1 DEF Next, vars, TrackerStep, TrackerFault, QueueStep, FlushStep, RequestStep, Load, LaunchFail,
     Resolve, Lock, LockSkip, Commit, CommitFail, Mark, MarkFail, Release, Dispatch, DispatchFail, ReadInvoice,
     VerifyFail, Settle, TickCheck, TickBuffer, FlushStart, FlushCommit, FlushFail, Take, Requeue, ForgetFailed,
     EnqueueSync, AttachHash, EnqueueHash, RetryRead, RetryEvict, RetryReset, RetryEnqueue, RequestCrash,
     Age, Sweep, ExpireMarker, ExpireLock, LoseLock, Crash

\* Every handler keeps what is owed.
LEMMA NextOwed ==
  ASSUME TypeOK, AnnouncementOwed, [Next]_vars
  PROVE  AnnouncementOwed'
<1> USE DEF rowVars, redisVars, slotVars, bufferVars, requestVars, Goto, Idle, OnItsWay
<1>0. faults'.kinds = faults.kinds
  BY KindsStay
<1>1. ASSUME NEW t \in Trackers, TrackerStep(t)
      PROVE  AnnouncementOwed'
  <2>1. CASE Commit(t)
    <3>1. status' = outcome[t] /\ outcome'[t] = outcome[t] /\ pc'[t] = "mark"
      BY <2>1 DEF Commit, TypeOK
    <3> QED
      BY <3>1 DEF AnnouncementOwed
  <2>2. CASE Dispatch(t)
    <3>1. SUFFICES ASSUME {"crash", "queueFail"} \cap faults.kinds = {}, status # "pending"
                   PROVE  events'[status] > 0 \/ \E u \in Trackers : OnItsWay(u)' /\ outcome'[u] = status
      BY <1>0, <2>2 DEF AnnouncementOwed, Dispatch
    <3>2. status \in Terminal /\ events[status] \in 0..MaxCount
      BY <3>1 DEF TypeOK
    <3>3. \A n \in 0..MaxCount : Counted(n) > 0
      BY DEF Counted, MaxCount
    <3>4. CASE outcome[t] = status
      <4>1. events'[status] = Counted(events[status])
        BY <2>2, <3>2, <3>4 DEF Dispatch, TypeOK
      <4> QED
        BY <3>2, <3>3, <4>1
    <3>5. CASE outcome[t] # status
      <4>1. events'[status] = events[status]
        BY <2>2, <3>2, <3>5 DEF Dispatch, TypeOK
      <4>2. \A u \in Trackers : OnItsWay(u) /\ u # t => OnItsWay(u)' /\ outcome'[u] = outcome[u]
        BY <2>2 DEF Dispatch, TypeOK
      <4> QED
        BY <3>1, <3>5, <4>1, <4>2 DEF AnnouncementOwed
    <3> QED
      BY <3>4, <3>5
  <2>3. CASE Load(t) \/ Resolve(t) \/ Lock(t) \/ LockSkip(t) \/ ReadInvoice(t) \/ Settle(t)
    <3>1. /\ UNCHANGED <<status, events>>
          /\ \A u \in Trackers : OnItsWay(u) => pc'[u] = pc[u] /\ outcome'[u] = outcome[u]
      BY <2>3 DEF Load, Resolve, Lock, LockSkip, ReadInvoice, Settle, EndJob, TypeOK
    <3> QED
      BY <1>0, <3>1, OwedKeeps
  <2>4. CASE Mark(t) \/ Release(t)
    <3>1. /\ UNCHANGED <<status, events>>
          /\ \A u \in Trackers : OnItsWay(u) => OnItsWay(u)' /\ outcome'[u] = outcome[u]
      BY <2>4 DEF Mark, Release, TypeOK
    <3> QED
      BY <1>0, <3>1, OwedKeeps
  <2> QED
    BY <1>1, <2>1, <2>2, <2>3, <2>4 DEF TrackerStep
<1>2. ASSUME NEW t \in Trackers, TrackerFault(t)
      PROVE  AnnouncementOwed'
  <2>1. CASE DispatchFail(t)
    BY <1>0, <2>1 DEF DispatchFail, Fault, AnnouncementOwed
  <2>2. CASE LaunchFail(t) \/ CommitFail(t) \/ VerifyFail(t)
    <3>1. /\ UNCHANGED <<status, events>>
          /\ \A u \in Trackers : OnItsWay(u) => pc'[u] = pc[u] /\ outcome'[u] = outcome[u]
      BY <2>2 DEF LaunchFail, CommitFail, VerifyFail, Throw, EndJob, TypeOK
    <3> QED
      BY <1>0, <3>1, OwedKeeps
  <2>3. CASE MarkFail(t)
    <3>1. /\ UNCHANGED <<status, events>>
          /\ \A u \in Trackers : OnItsWay(u) => OnItsWay(u)' /\ outcome'[u] = outcome[u]
      BY <2>3 DEF MarkFail, TypeOK
    <3> QED
      BY <1>0, <3>1, OwedKeeps
  <2> QED
    BY <1>2, <2>1, <2>2, <2>3 DEF TrackerFault
<1>3. ASSUME NEW t \in Trackers, TickCheck(t) \/ TickBuffer(t)
      PROVE  AnnouncementOwed'
  BY <1>0, <1>3, OwedKeeps DEF TickCheck, TickBuffer
<1>4. ASSUME NEW r \in Replicas, FlushStep(r) \/ FlushFail(r)
      PROVE  AnnouncementOwed'
  BY <1>0, <1>4, OwedKeeps DEF FlushStep, FlushStart, FlushCommit, FlushFail
<1>5. ASSUME NEW r \in Replicas, Crash(r)
      PROVE  AnnouncementOwed'
  BY <1>0, <1>5 DEF Crash, Fault, AnnouncementOwed
<1>6. CASE QueueStep
  <2>1. ASSUME NEW t \in Trackers, NEW id \in JobIds, Take(t, id)
        PROVE  AnnouncementOwed'
    <3>1. \A u \in Trackers : OnItsWay(u) => pc'[u] = pc[u] /\ outcome'[u] = outcome[u]
      BY <2>1 DEF Take, TypeOK
    <3> QED
      BY <1>0, <2>1, <3>1, OwedKeeps DEF Take
  <2> QED
    BY <1>0, <1>6, <2>1, OwedKeeps DEF QueueStep, Requeue, ForgetFailed
<1>7. CASE RequestStep
  <2>1. CASE RetryReset
    BY <2>1 DEF RetryReset, AnnouncementOwed
  <2> QED
    BY <1>0, <1>7, <2>1, OwedKeeps DEF RequestStep, EnqueueSync, AttachHash, EnqueueHash, RetryRead, RetryEvict,
       RetryEnqueue, RequestCrash
<1>8. CASE Age \/ Sweep \/ ExpireMarker \/ ExpireLock \/ LoseLock
  BY <1>0, <1>8, OwedKeeps DEF Age, Sweep, ExpireMarker, ExpireLock, LoseLock
<1>9. CASE UNCHANGED vars
  BY <1>0, <1>9, OwedKeeps DEF vars
<1> QED
  BY <1>1, <1>2, <1>3, <1>4, <1>5, <1>6, <1>7, <1>8, <1>9 DEF Next

\* Whatever fails or expires and however often a retry resets the row: as long as no
\* process dies and the queue takes the webhook, a final status is announced or a
\* tracker is on its way to announce it.  AnnouncedIfNothingDies rests on it.
THEOREM AnnouncementHolds == Spec => []AnnouncementOwed
<1>1. Init => IInv /\ AnnouncementOwed
  BY InitIInv DEF Init, AnnouncementOwed
<1>2. IInv /\ AnnouncementOwed /\ [Next]_vars => IInv' /\ AnnouncementOwed'
  BY NextIInv, NextOwed DEF IInv
<1> QED
  BY <1>1, <1>2, PTL DEF Spec

\* The names of jobs that the sync request and the phases use are apart.
LEMMA JobNames ==
  /\ SyncJob \in JobIds /\ LazyJob \in JobIds /\ HashJob \in JobIds
  /\ SyncJob # LazyJob /\ SyncJob # HashJob
  BY DEF SyncJob, LazyJob, HashJob, JobIds

\* The end of a slot's work starts no job of the request.
LEMMA EndJobQueued ==
  ASSUME TypeOK, NotYetQueued, NEW t \in Trackers, NEW ok \in BOOLEAN, EndJob(t, ok), UNCHANGED intake
  PROVE  NotYetQueued'
<1> SUFFICES ASSUME intake = "inserted"
             PROVE  jobs'[SyncJob].state = "none" /\ \A u \in Trackers : job'[u] # SyncJob
  BY DEF NotYetQueued
<1>1. jobs[SyncJob].state = "none" /\ \A u \in Trackers : job[u] # SyncJob
  BY DEF NotYetQueued
<1>2. \A u \in Trackers : job'[u] # SyncJob
  BY <1>1, JobNames, MarksAssumption DEF EndJob, TypeOK
<1>3. jobs'[SyncJob] = jobs[SyncJob]
  BY <1>1, JobNames DEF EndJob, AfterJob, Ended, Added, TypeOK
<1> QED
  BY <1>1, <1>2, <1>3

\* A slot that ends its work after the write leaves a final row or somebody at work.
LEMMA EndJobWork ==
  ASSUME TypeOK, WorkInv, NEW t \in Trackers, NEW ok \in BOOLEAN, EndJob(t, ok),
         status # "pending" \/ Past(t), pc[t] # "commit",
         lock = t => lock' = None, lock # t => lock' = lock, UNCHANGED <<status, intake>>
  PROVE  WorkInv'
<1>1. /\ pc' = [pc EXCEPT ![t] = Idle]
      /\ \A u \in Trackers : u # t => pc'[u] = pc[u]
      /\ pc'[t] = Idle
  BY DEF EndJob, Goto, TypeOK
<1>2. HolderWrites'
  BY <1>1 DEF WorkInv, HolderWrites
<1>3. WriteAhead'
  BY <1>1 DEF WorkInv, WriteAhead, Past, Idle
<1>4. NotYetQueued'
  BY EndJobQueued DEF WorkInv
<1>5. WorkedOn'
  BY <1>1 DEF WorkInv, WriteAhead, WorkedOn, Past, Idle
<1> QED
  BY <1>2, <1>3, <1>4, <1>5 DEF WorkInv

\* A slot that goes on with its job.
LEMMA SlotWork ==
  ASSUME TypeOK, WorkInv, NEW t \in Trackers, NEW step \in Steps \ {Idle}, Goto(t, step),
         status' \in {status} \cup Terminal, UNCHANGED <<job, jobs, intake>>,
         lock' = lock \/ lock' = None \/ lock' = t,
         lock' = t => step \in {"commit", "mark", "release"},
         pc[t] = "commit" => status' # "pending",
         step \in {"mark", "release", "dispatch", "invoice", "settle"} =>
           Past(t) \/ status' # "pending" \/ \E u \in Trackers : u # t /\ pc[u] = "commit"
  PROVE  WorkInv'
<1>1. /\ \A u \in Trackers : u # t => pc'[u] = pc[u]
      /\ pc'[t] = step
  BY DEF Goto, TypeOK
<1>2. HolderWrites'
  BY <1>1 DEF WorkInv, HolderWrites
<1>3. WriteAhead'
  BY <1>1 DEF WorkInv, WriteAhead, Past, Terminal
<1>4. NotYetQueued'
  BY DEF WorkInv, NotYetQueued
<1>5. WorkedOn'
  BY <1>1 DEF WorkedOn
<1> QED
  BY <1>2, <1>3, <1>4, <1>5 DEF WorkInv

\* Nothing that the invariant speaks of is lost.
LEMMA SameWork ==
  ASSUME TypeOK, WorkInv, UNCHANGED <<status, pc, job>>, lock' = lock \/ lock' = None,
         intake' = intake \/ (intake' = "queued" /\ \E id \in JobIds : jobs'[id].state = "waiting"),
         \A id \in JobIds : jobs[id].state = "waiting" => jobs'[id].state = "waiting",
         intake' = "inserted" /\ jobs[SyncJob].state = "none" => jobs'[SyncJob].state = "none"
  PROVE  WorkInv'
<1>1. HolderWrites' /\ WriteAhead'
  BY DEF WorkInv, HolderWrites, WriteAhead, Past
<1>2. NotYetQueued'
  BY DEF WorkInv, NotYetQueued
<1>3. WorkedOn'
  BY DEF WorkInv, WorkedOn
<1> QED
  BY <1>1, <1>2, <1>3 DEF WorkInv

\* A job that is added loses none that waits, and is none of the request's.
LEMMA AddedWork ==
  ASSUME TypeOK, NEW id \in JobIds, NEW attempts, jobs' = Added(jobs, id, attempts)
  PROVE  /\ \A i \in JobIds : jobs[i].state = "waiting" => jobs'[i].state = "waiting"
         /\ \A i \in JobIds : i # id => jobs'[i] = jobs[i]
         /\ jobs[id].state = "none" => jobs'[id].state = "waiting"
  BY DEF Added, TypeOK

\* Every handler keeps a pending row worked on.
LEMMA NextWork ==
  ASSUME IInv, Spared => WorkInv, [Next]_vars
  PROVE  (Spared => WorkInv)'
<1> SUFFICES ASSUME Spared'
             PROVE  WorkInv'
  OBVIOUS
<1> USE JobNames DEF rowVars, redisVars, slotVars, bufferVars, requestVars, Idle
<1>0. TypeOK /\ (retry # Idle => retries > 0)
  BY DEF IInv, RetryCounted
<1>a. faults'.kinds = faults.kinds
  BY <1>0, KindsStay
<1>b. retries' = 0 /\ retries \in Nat /\ (retries' = retries \/ retries' = retries + 1) /\ UNCHANGED tracker
  <2>1. UNCHANGED tracker /\ (UNCHANGED retries \/ retries' = retries + 1)
    BY DEF Next, vars, TrackerStep, TrackerFault, QueueStep, FlushStep, RequestStep, Load, LaunchFail,
       Resolve, Lock, LockSkip, Commit, CommitFail, Mark, MarkFail, Release, Dispatch, DispatchFail, ReadInvoice,
       VerifyFail, Settle, TickCheck, TickBuffer, FlushStart, FlushCommit, FlushFail, Take, Requeue, ForgetFailed,
       EnqueueSync, AttachHash, EnqueueHash, RetryRead, RetryEvict, RetryReset, RetryEnqueue, RequestCrash,
       Age, Sweep, ExpireMarker, ExpireLock, LoseLock, Crash
  <2> QED
    BY <1>0, <2>1, BoundsAssumption DEF TypeOK, Spared
<1>c. Spared /\ retries = 0 /\ retry = Idle
  BY <1>0, <1>a, <1>b DEF Spared, Batch
<1>d. TypeOK /\ WorkInv /\ ~Batch
  BY <1>0, <1>c DEF Spared
<1>e. ASSUME NEW kind \in {"crash", "dbFail", "launchFail", "requestCrash"}, Fault(kind)
      PROVE  FALSE
  BY <1>c, <1>e DEF Fault, Spared
<1>1. ASSUME NEW t \in Trackers, TrackerStep(t)
      PROVE  WorkInv'
  <2>0. lock = t => pc[t] \in {"commit", "mark", "release"}
    BY <1>d, TrackersAssumption DEF WorkInv, HolderWrites
  <2>1. CASE Load(t)
    <3>1. CASE EndJob(t, TRUE) /\ NothingToTrack
      BY <1>d, <2>0, <2>1, <3>1, EndJobWork DEF Load, NothingToTrack
    <3>2. CASE /\ Goto(t, "track")
               /\ IF Detached
                    THEN job' = [job EXCEPT ![t] = None] /\ jobs' = AfterJob(job[t], TRUE)
                    ELSE UNCHANGED <<job, jobs>>
      <4>1. CASE ~Detached
        BY <1>d, <2>0, <2>1, <3>2, <4>1, SlotWork DEF Load, Steps
      <4>2. CASE Detached
        <5>1. /\ pc'[t] = "track" /\ pc[t] = "load"
              /\ \A u \in Trackers : u # t => pc'[u] = pc[u]
              /\ UNCHANGED <<status, lock, intake>>
          BY <1>d, <2>1, <3>2 DEF Load, Goto, TypeOK
        <5>2. HolderWrites' /\ WriteAhead' /\ WorkedOn'
          BY <1>d, <5>1 DEF WorkInv, HolderWrites, WriteAhead, WorkedOn, Past
        <5>3. NotYetQueued'
          <6>1. job[t] \in JobIds
            BY <5>1 DEF IInv, HasJob
          <6> SUFFICES ASSUME intake = "inserted"
                       PROVE  jobs'[SyncJob].state = "none" /\ \A u \in Trackers : job'[u] # SyncJob
            BY <5>1 DEF NotYetQueued
          <6>2. jobs[SyncJob].state = "none" /\ \A u \in Trackers : job[u] # SyncJob
            BY <1>d DEF WorkInv, NotYetQueued
          <6>3. \A u \in Trackers : job'[u] # SyncJob
            BY <1>d, <3>2, <4>2, <6>2, MarksAssumption DEF TypeOK
          <6>4. jobs'[SyncJob] = jobs[SyncJob]
            BY <1>d, <3>2, <4>2, <6>1, <6>2 DEF AfterJob, Ended, Added, TypeOK
          <6> QED
            BY <6>2, <6>3, <6>4
        <5> QED
          BY <5>2, <5>3 DEF WorkInv
      <4> QED
        BY <4>1, <4>2
    <3> QED
      BY <1>d, <2>1, <3>1, <3>2 DEF Load, BatchExpired
  <2>2. CASE Resolve(t)
    BY <1>d, <2>0, <2>2, SlotWork DEF Resolve, Steps
  <2>3. CASE Lock(t)
    BY <1>d, <2>3, SlotWork DEF Lock, Steps
  <2>4. CASE LockSkip(t)
    <3>1. status # "pending" \/ \E u \in Trackers : u # t /\ pc[u] = "commit"
      BY <1>d, <2>4 DEF LockSkip, WorkInv, HolderWrites, WriteAhead, Past
    <3> QED
      BY <1>d, <2>0, <2>4, <3>1, SlotWork DEF LockSkip, Steps
  <2>5. CASE Commit(t)
    <3>1. outcome[t] \in Terminal
      BY <2>5 DEF Commit, IInv, Resolved
    <3> QED
      BY <1>d, <2>5, <3>1, SlotWork DEF Commit, Steps, Terminal
  <2>6. CASE Mark(t)
    BY <1>d, <2>6, SlotWork DEF Mark, Steps, Past
  <2>7. CASE Release(t)
    BY <1>d, <2>7, SlotWork, TrackersAssumption DEF Release, Steps, Past, Unlocked
  <2>8. CASE Dispatch(t)
    BY <1>d, <2>0, <2>8, SlotWork DEF Dispatch, Steps, Past
  <2>9. CASE ReadInvoice(t)
    <3>1. CASE EndJob(t, TRUE)
      BY <1>d, <2>0, <2>9, <3>1, EndJobWork DEF ReadInvoice, Past
    <3>2. CASE Goto(t, "settle") /\ UNCHANGED <<job, jobs>>
      BY <1>d, <2>0, <2>9, <3>2, SlotWork DEF ReadInvoice, Steps, Past
    <3> QED
      BY <2>9, <3>1, <3>2 DEF ReadInvoice
  <2>10. CASE Settle(t)
    BY <1>d, <2>0, <2>10, EndJobWork DEF Settle, Past
  <2> QED
    BY <1>1, <2>1, <2>2, <2>3, <2>4, <2>5, <2>6, <2>7, <2>8, <2>9, <2>10 DEF TrackerStep
<1>2. ASSUME NEW t \in Trackers, TrackerFault(t)
      PROVE  WorkInv'
  <2>0. lock = t => pc[t] \in {"commit", "mark", "release"}
    BY <1>d, TrackersAssumption DEF WorkInv, HolderWrites
  <2>1. (outcome[t] = "Success") \in BOOLEAN
    OBVIOUS
  <2>2. CASE MarkFail(t)
    BY <1>d, <2>2, SlotWork DEF MarkFail, Steps, Past
  <2>3. CASE DispatchFail(t) \/ VerifyFail(t)
    BY <1>d, <2>0, <2>1, <2>3, EndJobWork DEF DispatchFail, VerifyFail, Throw, Past
  <2> QED
    BY <1>2, <1>e, <2>2, <2>3 DEF TrackerFault, LaunchFail, CommitFail
<1>3. ASSUME NEW t \in Trackers, TickCheck(t) \/ TickBuffer(t)
      PROVE  WorkInv'
  BY <1>d, <1>3, SameWork DEF TickCheck, TickBuffer
<1>4. ASSUME NEW r \in Replicas, FlushStep(r) \/ FlushFail(r)
      PROVE  WorkInv'
  BY <1>d, <1>4, SameWork DEF FlushStep, FlushStart, FlushCommit, FlushFail
<1>5. ASSUME NEW r \in Replicas, Crash(r)
      PROVE  WorkInv'
  BY <1>5, <1>e DEF Crash
<1>6. CASE QueueStep
  <2>1. ASSUME NEW t \in Trackers, NEW id \in JobIds, Take(t, id)
        PROVE  WorkInv'
    <3>1. /\ pc[t] = Idle /\ pc'[t] = "load" /\ job'[t] = id
          /\ \A u \in Trackers : u # t => pc'[u] = pc[u] /\ job'[u] = job[u]
          /\ \A i \in JobIds : i # id => jobs'[i] = jobs[i]
          /\ jobs[id].state = "waiting"
          /\ UNCHANGED <<status, lock, intake>>
      BY <1>d, <2>1 DEF Take, Goto, TypeOK
    <3>2. HolderWrites' /\ WriteAhead' /\ WorkedOn'
      BY <1>d, <3>1 DEF WorkInv, HolderWrites, WriteAhead, WorkedOn, Past
    <3>3. NotYetQueued'
      BY <1>d, <3>1 DEF WorkInv, NotYetQueued
    <3> QED
      BY <3>2, <3>3 DEF WorkInv
  <2>2. ASSUME NEW id \in JobIds, Requeue(id) \/ ForgetFailed(id)
        PROVE  WorkInv'
    <3>1. /\ \A i \in JobIds : i # id => jobs'[i] = jobs[i]
          /\ jobs[id].state \in {"stalled", "failed"}
          /\ UNCHANGED <<status, pc, job, lock, intake>>
      BY <1>d, <2>2 DEF Requeue, ForgetFailed, TypeOK
    <3> QED
      BY <1>d, <3>1, SameWork
  <2> QED
    BY <1>6, <2>1, <2>2 DEF QueueStep
<1>7. CASE RequestStep
  <2>1. CASE EnqueueSync
    <3>1. jobs'[SyncJob].state = "waiting" /\ \A i \in JobIds : jobs[i].state = "waiting" => jobs'[i].state = "waiting"
      BY <1>d, <2>1, AddedWork DEF EnqueueSync, WorkInv, NotYetQueued
    <3> QED
      BY <1>d, <2>1, <3>1, SameWork DEF EnqueueSync
  <2>2. CASE AttachHash \/ EnqueueHash
    BY <1>d, <2>2, AddedWork, SameWork DEF AttachHash, EnqueueHash
  <2>3. ASSUME NEW kind \in {"engine", "dashboard"}, RetryRead(kind)
        PROVE  FALSE
    BY <1>b, <1>c, <2>3 DEF RetryRead
  <2>4. CASE RetryEvict \/ RetryReset \/ RetryEnqueue
    BY <1>c, <2>4 DEF RetryEvict, RetryReset, RetryEnqueue
  <2> QED
    BY <1>7, <1>e, <2>1, <2>2, <2>3, <2>4 DEF RequestStep, RequestCrash
<1>8. CASE Age \/ Sweep \/ ExpireMarker \/ ExpireLock \/ LoseLock
  <2>1. CASE Sweep
    BY <1>d, <2>1, AddedWork, SameWork DEF Sweep
  <2> QED
    BY <1>d, <1>8, <2>1, SameWork DEF Age, ExpireMarker, ExpireLock, LoseLock
<1>9. CASE UNCHANGED vars
  BY <1>d, <1>9, SameWork DEF vars
<1> QED
  BY <1>1, <1>2, <1>3, <1>4, <1>5, <1>6, <1>7, <1>8, <1>9 DEF Next

\* As long as no process dies, no tracker fails to start and no write of the row fails,
\* a pending row that is no batch and was not retried always has its request, a job or a
\* tracker at work: locks that expire or are not had, markers, webhooks and payments that
\* fail, two phases, detached pollers and the hand-over between them lose none.
\* EventuallyFinal rests on it; in the other cases it rests on the sweeper.
THEOREM WorkHolds == Spec => []SweeperSpared
<1>1. Init => IInv /\ (Spared => WorkInv)
  <2> SUFFICES ASSUME Init PROVE Spared => WorkInv
    BY InitIInv
  <2>1. /\ lock = None /\ intake = "inserted" /\ jobs[SyncJob].state = "none"
        /\ \A t \in Trackers : pc[t] = Idle /\ job[t] = None
    BY JobNames DEF Init, NoJob
  <2> QED
    BY <2>1, JobNames, MarksAssumption DEF WorkInv, HolderWrites, WriteAhead, NotYetQueued, WorkedOn, Past, Idle
<1>2. IInv /\ (Spared => WorkInv) /\ [Next]_vars => IInv' /\ (Spared => WorkInv)'
  BY NextIInv, NextWork
<1>3. (Spared => WorkInv) => SweeperSpared
  BY DEF SweeperSpared, WorkInv
<1> QED
  BY <1>1, <1>2, <1>3, PTL DEF Spec

-----------------------------------------------------------------------------
(* An awaited tracker implements TrackedTransaction *)

\* The tracker is awaited, nobody retries, and the sweeper stays out: it takes
\* only rows that have been pending for an hour.
AwaitedOnly == Kinds = {"awaited"} /\ RetryKinds = {} /\ ~CanAge

\* The requests and the clock that such a behaviour does without.
Undisturbed == tracker = "awaited" /\ retry = Idle /\ retries = 0 /\ attach = Idle /\ old = FALSE

\* A job that a worker may still run.
Live(id) == jobs[id].state \in {"waiting", "active", "stalled"}

\* Fast and lazy phase follow each other: the lazy job is added when the fast
\* one ends, which has a single attempt.
OneJob ==
  /\ \A id \in JobIds \ {SyncJob, LazyJob} : jobs[id].state = "none"
  /\ intake # "queued" => lock = None /\ \A id \in JobIds : jobs[id].state = "none"
  /\ jobs[SyncJob].left <= 1
  /\ Live(SyncJob) => jobs[LazyJob].state = "none"

\* A slot at work holds the active job, and no other slot is at work.
OneSlot ==
  \A t \in Trackers :
    /\ pc[t] = Idle => job[t] = None
    /\ pc[t] # Idle => /\ job[t] \in {SyncJob, LazyJob}
                       /\ jobs[job[t]].state = "active"
                       /\ \A u \in Trackers : pc[u] # Idle => u = t

\* The lock is held around the write only; the lock of a dead slot keeps its job stalled.
LockHeld ==
  /\ lock \in Trackers => pc[lock] \in {"commit", "mark", "release"}
  /\ lock = "dead" => \A id \in JobIds : jobs[id].state \notin {"waiting", "active"}

Alone == OneJob /\ OneSlot /\ LockHeld

\* The row is final from the write on, announced from the dispatch on, and the
\* invoice follows last.
InOrder ==
  /\ \A t \in Trackers :
       /\ pc[t] \in {"track", "lock", "commit"} => status = "pending"
       /\ pc[t] \in {"mark", "release", "dispatch", "invoice", "settle"} =>
            status = outcome[t] /\ status # "pending" /\ invoice = "pending"
       /\ pc[t] \in {"mark", "release", "dispatch"} => Announced = {}
       /\ pc[t] \in {"invoice", "settle"} => Announced = {status}
  /\ status = "pending" => Announced = {}
  /\ Announced = {} => invoice = "pending"

AInv == IInv /\ Undisturbed /\ Alone /\ InOrder

\* What a step may do to status, announcements and invoice.
Step == [Tracked!Next]_(Tracked!vars)

\* The names of jobs, slots and marks are apart.
LEMMA Ids ==
  /\ SyncJob \in JobIds /\ LazyJob \in JobIds /\ SyncJob # LazyJob
  /\ None \notin Trackers /\ "dead" \notin Trackers /\ None \notin JobIds /\ None # "dead"
  BY TrackersAssumption, MarksAssumption DEF SyncJob, LazyJob, JobIds

\* At most one job is live, and the slot that works on it is the only one at work.
LEMMA BusyAlone ==
  ASSUME TypeOK, Alone, NEW t \in Trackers, pc[t] # Idle
  PROVE  /\ \A id \in JobIds : Live(id) => id = job[t]
         /\ job[t] \in {SyncJob, LazyJob} /\ jobs[job[t]].state = "active"
         /\ intake = "queued"
         /\ lock # "dead"
         /\ lock \in Trackers => lock = t
         /\ \A u \in Trackers : u # t => pc[u] = Idle
<1> USE Ids DEF Alone, OneJob, OneSlot, LockHeld, Live
<1>1. job[t] \in {SyncJob, LazyJob} /\ jobs[job[t]].state = "active"
  OBVIOUS
<1>2. \A id \in JobIds : Live(id) => id = job[t]
  BY <1>1
<1>3. intake = "queued" /\ lock # "dead"
  BY <1>1
<1>4. \A u \in Trackers : u # t => pc[u] = Idle
  OBVIOUS
<1>5. lock \in Trackers => lock = t
  BY <1>4 DEF Idle
<1> QED
  BY <1>1, <1>2, <1>3, <1>4, <1>5

\* The end of a slot's work leaves no slot at work (the `finally` of the fast phase).
LEMMA EndJobAlone ==
  ASSUME TypeOK, Alone, NEW t \in Trackers, pc[t] # Idle, NEW ok \in BOOLEAN, EndJob(t, ok),
         lock' = Unlocked(t), UNCHANGED intake
  PROVE  Alone' /\ \A u \in Trackers : pc'[u] = Idle
<1> USE Ids
<1>1. /\ \A id \in JobIds : Live(id) => id = job[t]
      /\ job[t] \in {SyncJob, LazyJob} /\ jobs[job[t]].state = "active"
      /\ intake = "queued"
      /\ lock' = None
      /\ \A u \in Trackers : u # t => pc[u] = Idle
  <2>1. lock' = None
    BY BusyAlone DEF Unlocked, TypeOK
  <2> QED
    BY <2>1, BusyAlone
<1>2. job[t] # None
  BY <1>1
<1>3. pc' = [pc EXCEPT ![t] = Idle] /\ job' = [job EXCEPT ![t] = None] /\ jobs' = AfterJob(job[t], ok)
  BY <1>2 DEF EndJob, Goto
<1>4. \A u \in Trackers : pc'[u] = Idle /\ job'[u] = None
  BY <1>1, <1>3 DEF TypeOK, Alone, OneSlot
<1>5. OneJob'
  <2>1. CASE job[t] = LazyJob
    BY <1>1, <1>3, <2>1 DEF TypeOK, Alone, OneJob, Live, AfterJob, Ended, NoJob
  <2>2. CASE job[t] = SyncJob
    BY <1>1, <1>3, <2>2 DEF TypeOK, Alone, OneJob, Live, AfterJob, Ended, NoJob, Added, Jobs
  <2> QED
    BY <1>1, <2>1, <2>2
<1> QED
  BY <1>1, <1>4, <1>5 DEF Alone, OneSlot, LockHeld

\* A slot that ends its work changes nothing that is visible.
LEMMA EndJobStep ==
  ASSUME AInv, NEW t \in Trackers, pc[t] # Idle, NEW ok \in BOOLEAN, EndJob(t, ok), lock' = Unlocked(t),
         UNCHANGED <<tracker, status, old, invoice, events, intake, attach, retry, retries>>
  PROVE  Undisturbed' /\ Alone' /\ InOrder' /\ Step
<1>1. Alone' /\ \A u \in Trackers : pc'[u] = Idle
  BY EndJobAlone DEF AInv, IInv
<1>2. Announced' = Announced
  BY DEF Announced
<1>3. InOrder'
  BY <1>1, <1>2 DEF AInv, InOrder, Idle
<1> QED
  BY <1>1, <1>2, <1>3 DEF AInv, Undisturbed, Step, Tracked!vars

\* A slot goes on with its job, and the lock is its own or free.
LEMMA SlotAlone ==
  ASSUME TypeOK, Alone, NEW t \in Trackers, pc[t] # Idle, NEW step \in Steps \ {Idle}, Goto(t, step),
         UNCHANGED <<job, jobs, intake>>, lock' \in {None, t},
         lock' = t => step \in {"commit", "mark", "release"}
  PROVE  Alone' /\ \A u \in Trackers : u # t => pc'[u] = Idle
<1> USE Ids
<1>1. pc' = [pc EXCEPT ![t] = step] /\ \A u \in Trackers : u # t => pc[u] = Idle
  BY BusyAlone DEF Goto
<1>2. pc'[t] = step /\ \A u \in Trackers : u # t => pc'[u] = Idle
  BY <1>1 DEF TypeOK
<1> QED
  BY <1>1, <1>2 DEF Alone, OneJob, OneSlot, LockHeld, Live

\* A step that touches neither row, lock, jobs, slots nor requests.
LEMMA SameKeeps ==
  ASSUME Undisturbed, Alone, InOrder,
         UNCHANGED <<tracker, status, old, lock, pc, job, jobs, outcome, invoice, events,
                     intake, attach, retry, retries>>
  PROVE  Undisturbed' /\ Alone' /\ InOrder' /\ Step
<1>1. Announced' = Announced
  BY DEF Announced
<1>2. Undisturbed' /\ Step
  BY <1>1 DEF Undisturbed, Step, Tracked!vars
<1>3. OneJob' /\ OneSlot' /\ LockHeld'
  BY DEF Alone, OneJob, OneSlot, LockHeld, Live
<1>4. InOrder'
  BY <1>1 DEF InOrder
<1> QED
  BY <1>2, <1>3, <1>4 DEF Alone

\* Every handler keeps the invariant and does what the abstract specification allows.
LEMMA StepAwaited ==
  ASSUME AwaitedOnly, AInv, IInv', [Next]_vars
  PROVE  AInv' /\ Step
<1> USE Ids DEF rowVars, redisVars, slotVars, bufferVars, requestVars
<1>0. /\ TypeOK /\ Undisturbed /\ Alone /\ InOrder /\ tracker = "awaited" /\ ~Batch /\ ~Detached
      /\ \A u \in Trackers : lock = u => pc[u] \in {"commit", "mark", "release"}
  BY DEF AInv, IInv, Undisturbed, Batch, Detached, Alone, LockHeld
<1> SUFFICES Undisturbed' /\ Alone' /\ InOrder' /\ Step
  BY DEF AInv
<1>1. ASSUME NEW t \in Trackers, TrackerStep(t)
      PROVE  Undisturbed' /\ Alone' /\ InOrder' /\ Step
  <2>1. CASE Load(t)
    <3>1. CASE EndJob(t, TRUE) /\ UNCHANGED <<outcome, expired, tick>>
      BY <1>0, <2>1, <3>1, EndJobStep DEF Load, Unlocked, Idle
    <3>2. CASE Goto(t, "track") /\ UNCHANGED <<job, jobs, outcome>> /\ status = "pending"
      <4>1. Alone' /\ \A u \in Trackers : u # t => pc'[u] = Idle
        BY <1>0, <2>1, <3>2, BusyAlone, SlotAlone DEF Load, Steps, Idle, TypeOK
      <4>2. Announced' = Announced /\ pc'[t] = "track"
        BY <1>0, <2>1, <3>2 DEF Load, Announced, Goto, TypeOK
      <4> QED
        BY <1>0, <2>1, <3>2, <4>1, <4>2 DEF Load, Undisturbed, InOrder, Step, Tracked!vars, Idle
    <3> QED
      BY <1>0, <2>1, <3>1, <3>2 DEF Load, BatchExpired, NothingToTrack
  <2>2. CASE Resolve(t)
    <3>1. Alone' /\ \A u \in Trackers : u # t => pc'[u] = Idle
      BY <1>0, <2>2, BusyAlone, SlotAlone DEF Resolve, Steps, Idle, TypeOK
    <3>2. Announced' = Announced /\ pc'[t] = "lock"
      BY <1>0, <2>2 DEF Resolve, Announced, Goto, TypeOK
    <3> QED
      BY <1>0, <2>2, <3>1, <3>2 DEF Resolve, Undisturbed, InOrder, Step, Tracked!vars, Idle
  <2>3. CASE Lock(t)
    <3>1. Alone' /\ \A u \in Trackers : u # t => pc'[u] = Idle
      BY <1>0, <2>3, BusyAlone, SlotAlone DEF Lock, Steps, Idle, TypeOK
    <3>2. Announced' = Announced /\ pc'[t] = "commit"
      BY <1>0, <2>3 DEF Lock, Announced, Goto, TypeOK
    <3> QED
      BY <1>0, <2>3, <3>1, <3>2 DEF Lock, Undisturbed, InOrder, Step, Tracked!vars, Idle
  <2>4. CASE LockSkip(t)
    <3>1. lock = None
      BY <1>0, <2>4, BusyAlone DEF LockSkip, TypeOK, Idle
    <3> QED
      BY <2>4, <3>1 DEF LockSkip
  <2>5. CASE Commit(t)
    <3>1. Alone' /\ \A u \in Trackers : u # t => pc'[u] = Idle
      BY <1>0, <2>5, BusyAlone, SlotAlone DEF Commit, Steps, Idle, TypeOK
    <3>2. Announced' = Announced /\ pc'[t] = "mark"
      BY <1>0, <2>5 DEF Commit, Announced, Goto, TypeOK
    <3>3. status = "pending" /\ status' = outcome[t] /\ outcome[t] \in Terminal /\ status' # "pending"
      BY <1>0, <2>5 DEF Commit, InOrder, AInv, IInv, Resolved, Terminal
    <3>4. Step
      BY <2>5, <3>2, <3>3 DEF Commit, Step, Tracked!Next, Tracked!Finish, Tracked!Terminal, Terminal
    <3> QED
      BY <1>0, <2>5, <3>1, <3>2, <3>3, <3>4 DEF Commit, Undisturbed, InOrder, Idle
  <2>6. CASE Mark(t)
    <3>1. Alone' /\ \A u \in Trackers : u # t => pc'[u] = Idle
      BY <1>0, <2>6, BusyAlone, SlotAlone DEF Mark, Steps, Idle, TypeOK
    <3>2. Announced' = Announced /\ pc'[t] = "release"
      BY <1>0, <2>6 DEF Mark, Announced, Goto, TypeOK
    <3> QED
      BY <1>0, <2>6, <3>1, <3>2 DEF Mark, Undisturbed, InOrder, Step, Tracked!vars, Idle
  <2>7. CASE Release(t)
    <3>1. Alone' /\ \A u \in Trackers : u # t => pc'[u] = Idle
      <4>1. lock' = None
        BY <1>0, <2>7, BusyAlone DEF Release, Unlocked, TypeOK, Idle
      <4> QED
        BY <1>0, <2>7, <4>1, SlotAlone DEF Release, Steps, Idle
    <3>2. Announced' = Announced /\ pc'[t] = "dispatch"
      BY <1>0, <2>7 DEF Release, Announced, Goto, TypeOK
    <3> QED
      BY <1>0, <2>7, <3>1, <3>2 DEF Release, Undisturbed, InOrder, Step, Tracked!vars, Idle
  <2>8. CASE Dispatch(t)
    <3>1. Alone' /\ \A u \in Trackers : u # t => pc'[u] = Idle
      BY <1>0, <2>8, BusyAlone, SlotAlone DEF Dispatch, Steps, Idle, TypeOK
    <3>2. pc'[t] = "invoice"
      BY <1>0, <2>8 DEF Dispatch, Goto, TypeOK
    <3>3. status = outcome[t] /\ status # "pending" /\ Announced = {} /\ status \in Terminal
      BY <1>0, <2>8 DEF Dispatch, InOrder, TypeOK
    <3>4. Announced' = {status}
      <4>1. \A s \in Terminal : events[s] = 0
        BY <1>0, <3>3 DEF Announced, TypeOK
      <4>2. \A s \in Terminal : events'[s] = IF s = status THEN 1 ELSE 0
        BY <1>0, <2>8, <3>3, <4>1 DEF Dispatch, Counted, MaxCount, TypeOK
      <4> QED
        BY <3>3, <4>2 DEF Announced
    <3>5. Step
      BY <2>8, <3>3, <3>4 DEF Dispatch, Step, Tracked!Next, Tracked!Announce
    <3> QED
      BY <1>0, <2>8, <3>1, <3>2, <3>3, <3>4, <3>5 DEF Dispatch, Undisturbed, InOrder, Idle
  <2>9. CASE ReadInvoice(t)
    <3>1. invoice = "pending"
      BY <1>0, <2>9 DEF ReadInvoice, InOrder
    <3>2. Alone' /\ \A u \in Trackers : u # t => pc'[u] = Idle
      BY <1>0, <2>9, <3>1, BusyAlone, SlotAlone DEF ReadInvoice, Steps, Idle, TypeOK
    <3>3. Announced' = Announced /\ pc'[t] = "settle"
      BY <1>0, <2>9, <3>1 DEF ReadInvoice, Announced, Goto, TypeOK
    <3> QED
      BY <1>0, <2>9, <3>1, <3>2, <3>3 DEF ReadInvoice, Undisturbed, InOrder, Step, Tracked!vars, Idle
  <2>10. CASE Settle(t)
    <3>1. Alone' /\ \A u \in Trackers : pc'[u] = Idle
      <4>1. lock' = Unlocked(t) /\ pc[t] # Idle /\ EndJob(t, TRUE) /\ UNCHANGED intake
        BY <1>0, <2>10 DEF Settle, Unlocked, Idle
      <4> QED
        BY <1>0, <4>1, EndJobAlone
    <3>2. Announced' = Announced /\ Announced = {status} /\ status = outcome[t] /\ status # "pending"
          /\ invoice = "pending"
      BY <1>0, <2>10 DEF Settle, Announced, InOrder
    <3>3. Step
      BY <2>10, <3>2 DEF Settle, Step, Tracked!Next, Tracked!Settle
    <3> QED
      BY <1>0, <2>10, <3>1, <3>2, <3>3 DEF Settle, Undisturbed, InOrder, Idle
  <2> QED
    BY <1>1, <2>1, <2>2, <2>3, <2>4, <2>5, <2>6, <2>7, <2>8, <2>9, <2>10 DEF TrackerStep
<1>2. ASSUME NEW t \in Trackers, TrackerFault(t)
      PROVE  Undisturbed' /\ Alone' /\ InOrder' /\ Step
  <2>1. CASE MarkFail(t)
    <3>1. Alone' /\ \A u \in Trackers : u # t => pc'[u] = Idle
      BY <1>0, <2>1, BusyAlone, SlotAlone DEF MarkFail, Steps, Idle, TypeOK
    <3>2. Announced' = Announced /\ pc'[t] = "release"
      BY <1>0, <2>1 DEF MarkFail, Announced, Goto, TypeOK
    <3> QED
      BY <1>0, <2>1, <3>1, <3>2 DEF MarkFail, Undisturbed, InOrder, Step, Tracked!vars, Idle
  <2>2. (outcome[t] = "Success") \in BOOLEAN
    OBVIOUS
  <2>3. CASE LaunchFail(t)
    BY <1>0, <2>3, EndJobStep DEF LaunchFail, Unlocked, Idle
  <2>4. CASE CommitFail(t)
    BY <1>0, <2>2, <2>4, EndJobStep DEF CommitFail, Throw, Idle
  <2>5. CASE DispatchFail(t)
    BY <1>0, <2>2, <2>5, EndJobStep DEF DispatchFail, Throw, Unlocked, Idle
  <2>6. CASE VerifyFail(t)
    BY <1>0, <2>2, <2>6, EndJobStep DEF VerifyFail, Throw, Unlocked, Idle
  <2> QED
    BY <1>2, <2>1, <2>3, <2>4, <2>5, <2>6 DEF TrackerFault
<1>3. ASSUME NEW t \in Trackers, TickCheck(t) \/ TickBuffer(t)
      PROVE  Undisturbed' /\ Alone' /\ InOrder' /\ Step
  <2>1. UNCHANGED <<tracker, status, old, lock, pc, job, jobs, outcome, invoice, events, intake, attach, retry, retries>>
    BY <1>3 DEF TickCheck, TickBuffer
  <2> QED
    BY <1>0, <2>1, SameKeeps
<1>4. ASSUME NEW r \in Replicas, FlushStep(r) \/ FlushFail(r)
      PROVE  Undisturbed' /\ Alone' /\ InOrder' /\ Step
  <2>1. UNCHANGED <<tracker, status, old, lock, pc, job, jobs, outcome, invoice, events, intake, attach, retry, retries>>
    BY <1>4 DEF FlushStep, FlushStart, FlushCommit, FlushFail
  <2> QED
    BY <1>0, <2>1, SameKeeps
<1>5. ASSUME NEW r \in Replicas, Crash(r)
      PROVE  Undisturbed' /\ Alone' /\ InOrder' /\ Step
  <2>1. /\ \A u \in Trackers : pc'[u] = Idle \/ pc'[u] = pc[u]
        /\ \A u \in Trackers : pc'[u] = Idle => job'[u] = None
        /\ \A u \in Trackers : pc'[u] # Idle => job'[u] = job[u] /\ HostOf[u] # r
    BY <1>0, <1>5 DEF Crash, Alone, OneSlot
  <2>2. /\ \A id \in JobIds : jobs'[id].state = jobs[id].state \/ jobs'[id].state = "stalled"
        /\ \A id \in JobIds : jobs'[id].left = jobs[id].left
        /\ \A id \in JobIds : jobs'[id] # jobs[id] => \E u \in Trackers : HostOf[u] = r /\ job[u] = id
        /\ \A u \in Trackers : HostOf[u] = r /\ job[u] \in JobIds => jobs'[job[u]].state = "stalled"
    BY <1>0, <1>5 DEF Crash, TypeOK, Jobs
  <2>3. OneJob'
    <3>1. UNCHANGED intake /\ (lock = None => lock' = None)
      BY <1>5 DEF Crash
    <3>2. \A id \in JobIds : jobs[id].state = "none" => jobs'[id] = jobs[id]
      BY <1>0, <2>2 DEF Alone, OneSlot
    <3>3. \A id \in JobIds : Live(id)' => Live(id)
      BY <1>0, <2>2, <3>2 DEF Live, TypeOK, Jobs, JobStates, Alone, OneSlot
    <3> QED
      BY <1>0, <2>2, <3>1, <3>2, <3>3 DEF Alone, OneJob
  <2>4. OneSlot'
    BY <1>0, <2>1, <2>2 DEF Alone, OneSlot
  <2>5. LockHeld'
    <3>1. CASE lock \in Trackers /\ HostOf[lock] = r
      <4>1. \A id \in JobIds : Live(id) => id = job[lock]
        BY <1>0, <3>1, BusyAlone DEF Alone, LockHeld, Idle
      <4> QED
        BY <1>0, <1>5, <2>2, <3>1, <4>1 DEF Crash, Live, LockHeld, Alone, OneSlot, Idle
    <3>2. CASE ~(lock \in Trackers /\ HostOf[lock] = r)
      BY <1>0, <1>5, <2>1, <2>2, <3>2 DEF Crash, Alone, LockHeld
    <3> QED
      BY <3>1, <3>2
  <2>6. Announced' = Announced
    BY <1>5 DEF Crash, Announced
  <2> QED
    BY <1>0, <1>5, <2>1, <2>3, <2>4, <2>5, <2>6 DEF Crash, Undisturbed, Alone, InOrder, Step, Tracked!vars, Idle
<1>6. CASE QueueStep
  <2>1. ASSUME NEW t \in Trackers, NEW id \in JobIds, Take(t, id)
        PROVE  Undisturbed' /\ Alone' /\ InOrder' /\ Step
    <3>1. \A u \in Trackers : pc[u] = Idle
      BY <1>0, <2>1, BusyAlone DEF Take, Live
    <3>2. /\ pc'[t] = "load" /\ job'[t] = id
          /\ \A u \in Trackers : u # t => pc'[u] = Idle /\ job'[u] = None
          /\ jobs' = [jobs EXCEPT ![id].state = "active"]
      BY <1>0, <2>1, <3>1 DEF Take, Goto, TypeOK, Alone, OneSlot
    <3>3. id \in {SyncJob, LazyJob} /\ intake = "queued" /\ lock = None
      BY <1>0, <2>1, <3>1 DEF Take, Alone, OneJob, LockHeld, TypeOK, Idle
    <3>4. OneJob'
      BY <1>0, <2>1, <3>2, <3>3 DEF Take, Alone, OneJob, Live, TypeOK, Jobs
    <3>5. OneSlot' /\ LockHeld'
      BY <1>0, <2>1, <3>2, <3>3 DEF Take, OneSlot, LockHeld, Idle, TypeOK, Jobs
    <3>6. Announced' = Announced
      BY <2>1 DEF Take, Announced
    <3> QED
      BY <1>0, <2>1, <3>2, <3>4, <3>5, <3>6 DEF Take, Undisturbed, Alone, InOrder, Step, Tracked!vars, Idle
  <2>2. ASSUME NEW id \in JobIds, Requeue(id) \/ ForgetFailed(id)
        PROVE  Undisturbed' /\ Alone' /\ InOrder' /\ Step
    <3>1. /\ \A i \in JobIds \ {id} : jobs'[i] = jobs[i]
          /\ jobs'[id].left <= jobs[id].left
          /\ jobs[id].state \in {"stalled", "failed"}
          /\ jobs'[id].state \in {"none", "waiting", "failed"}
          /\ jobs'[id].state = "waiting" => jobs[id].state = "stalled" /\ lock # "dead"
      BY <1>0, <2>2 DEF Requeue, ForgetFailed, TypeOK, Jobs, NoJob
    <3>2. UNCHANGED <<tracker, status, old, lock, pc, job, outcome, invoice, events, intake, attach, retry, retries>>
      BY <2>2 DEF Requeue, ForgetFailed
    <3>3. OneJob'
      <4>1. jobs[SyncJob].left \in 0..3 /\ jobs'[SyncJob].left \in 0..3
        BY <1>0 DEF TypeOK, IInv, Jobs
      <4>2. jobs'[SyncJob].left <= 1
        BY <1>0, <3>1, <4>1 DEF Alone, OneJob
      <4> QED
        BY <1>0, <3>1, <3>2, <4>2 DEF Alone, OneJob, Live
    <3>4. OneSlot' /\ LockHeld'
      BY <1>0, <3>1, <3>2 DEF Alone, OneSlot, LockHeld
    <3>5. Announced' = Announced
      BY <3>2 DEF Announced
    <3> QED
      BY <1>0, <3>2, <3>3, <3>4, <3>5 DEF Undisturbed, Alone, InOrder, Step, Tracked!vars
  <2> QED
    BY <1>6, <2>1, <2>2 DEF QueueStep
<1>7. CASE RequestStep
  <2>1. CASE EnqueueSync
    <3>1. \A u \in Trackers : pc[u] = Idle
      BY <1>0, <2>1, BusyAlone DEF EnqueueSync
    <3>2. \A id \in JobIds : jobs[id].state = "none"
      BY <1>0, <2>1 DEF EnqueueSync, Alone, OneJob
    <3>3. /\ \A i \in JobIds \ {SyncJob} : jobs'[i] = jobs[i]
          /\ jobs'[SyncJob].left = 1
      BY <1>0, <2>1, <3>2 DEF EnqueueSync, Added, TypeOK
    <3>4. UNCHANGED <<tracker, status, old, lock, pc, job, outcome, invoice, events, attach, retry, retries>>
          /\ intake' = "queued" /\ lock = None
      BY <1>0, <2>1 DEF EnqueueSync, Alone, OneJob
    <3>5. OneJob' /\ OneSlot' /\ LockHeld'
      BY <1>0, <3>1, <3>2, <3>3, <3>4 DEF Alone, OneJob, OneSlot, LockHeld, Live
    <3>6. Announced' = Announced
      BY <3>4 DEF Announced
    <3> QED
      BY <1>0, <3>4, <3>5, <3>6 DEF Undisturbed, Alone, InOrder, Step, Tracked!vars
  <2>2. CASE RequestCrash
    <3>1. /\ intake # "queued" /\ intake' # "queued"
          /\ UNCHANGED <<tracker, status, old, lock, pc, job, jobs, outcome, invoice, events,
                         attach, retry, retries>>
      BY <1>0, <2>2 DEF RequestCrash, Undisturbed, Idle
    <3>2. Announced' = Announced
      BY <3>1 DEF Announced
    <3>3. OneJob' /\ OneSlot' /\ LockHeld'
      BY <1>0, <3>1 DEF Alone, OneJob, OneSlot, LockHeld, Live
    <3> QED
      BY <1>0, <3>1, <3>2, <3>3 DEF Undisturbed, Alone, InOrder, Step, Tracked!vars
  <2> QED
    BY <1>0, <1>7, <2>1, <2>2 DEF RequestStep, AttachHash, EnqueueHash, RetryRead, RetryEvict, RetryReset, RetryEnqueue,
       Undisturbed, AwaitedOnly, Idle
<1>8. CASE Age \/ Sweep \/ ExpireMarker \/ ExpireLock \/ LoseLock
  <2>1. ~Age /\ ~Sweep
    BY <1>0 DEF Age, Sweep, AwaitedOnly, Undisturbed
  <2>2. lock' \in {lock, None} /\
        UNCHANGED <<tracker, status, old, pc, job, jobs, outcome, invoice, events, intake, attach, retry, retries>>
    BY <1>8, <2>1 DEF ExpireMarker, ExpireLock, LoseLock
  <2>3. Announced' = Announced
    BY <2>2 DEF Announced
  <2>4. OneJob' /\ OneSlot' /\ LockHeld'
    BY <1>0, <2>2 DEF Alone, OneJob, OneSlot, LockHeld, Live
  <2> QED
    BY <1>0, <2>2, <2>3, <2>4 DEF Undisturbed, Alone, InOrder, Step, Tracked!vars
<1>9. CASE UNCHANGED vars
  BY <1>0, <1>9, SameKeeps DEF vars
<1> QED
  BY <1>1, <1>2, <1>3, <1>4, <1>5, <1>6, <1>7, <1>8, <1>9 DEF Next

\* The inserted row is where the abstract specification starts.
LEMMA InitAwaited == AwaitedOnly /\ Init => Undisturbed /\ Alone /\ InOrder /\ Tracked!Init
<1> SUFFICES ASSUME AwaitedOnly, Init
             PROVE  Undisturbed /\ Alone /\ InOrder /\ Tracked!Init
  OBVIOUS
<1> USE Ids
<1>1. Announced = {}
  BY DEF Init, Announced
<1>2. Undisturbed /\ InOrder /\ Tracked!Init
  BY <1>1 DEF Init, AwaitedOnly, Undisturbed, InOrder, Tracked!Init, Idle
<1>3. OneJob /\ OneSlot /\ LockHeld
  BY DEF Init, OneJob, OneSlot, LockHeld, Live, NoJob
<1> QED
  BY <1>2, <1>3 DEF Alone

\* An awaited transaction becomes final once, is announced once, with that status
\* and after it, and its invoice follows: for any number of replicas and slots,
\* whatever dies, fails or expires on the way.
THEOREM AwaitedRefinement == AwaitedOnly => (Spec => ImplementsTracked)
<1>1. AwaitedOnly /\ Init => AInv /\ Tracked!Init
  BY InitIInv, InitAwaited DEF AInv
<1>2. AwaitedOnly /\ AInv /\ [Next]_vars => AInv' /\ [Tracked!Next]_(Tracked!vars)
  BY NextIInv, StepAwaited DEF AInv, Step
<1>3. SUFFICES ASSUME AwaitedOnly
               PROVE  Spec => ImplementsTracked
  OBVIOUS
<1> QED
  BY <1>1, <1>2, <1>3, PTL DEF Spec, ImplementsTracked, Tracked!Spec
=============================================================================
