------------------------ MODULE WebhookDeliveryProofs ------------------------
(***************************************************************************)
(* What is proved of WebhookDelivery, for every value of its constants:    *)
(* any number of calls, workers, jobs, retries and faults.                 *)
(***************************************************************************)
EXTENDS WebhookDelivery, FiniteSetTheorems, TLAPS

AtWork == [step : {"send", "find", "write"}, id : JobIds, action : Actions, row : Nat, ok : BOOLEAN]
AtEnd == [step : {"end"}, id : JobIds, ok : BOOLEAN]

\* A worker at work has a job that was queued.
WorkIsQueued == \A w \in Workers : worker[w] # Resting => jobs[worker[w].id] # NoJob

\* An outcome to be logged as a success was received.
OutcomeTrue ==
  ~Relayed => \A w \in Workers :
    (worker[w].step \in {"find", "write"} /\ worker[w].ok) => worker[w].action \in received

\* The workers that found no row and are about to add one.
Adders == {w \in Workers : worker[w].step = "write" /\ worker[w].row = 0}

\* Every row was added by a worker that found none: it cannot come again.
RowsAdded == Len(rows) + Cardinality(Adders) <= Cardinality(Workers)

TypeInv == TypeOK /\ WorkIsQueued
IInv == TypeInv /\ SuccessWasReceived /\ OutcomeTrue /\ RowsAdded
-----------------------------------------------------------------------------
(* The shapes of jobs and workers *)

\* A job that waits, runs or stalled is a job.
LEMMA JobShape ==
  ASSUME TypeOK, NEW id \in JobIds, jobs[id].state \in {"waiting", "active", "stalled"}
  PROVE  jobs[id] \in Job
  BY DEF TypeOK, NoJob, Done

\* Queueing a job keeps the type of the queue and forgets no job.
LEMMA QueuedType ==
  ASSUME TypeInv, NEW action \in Actions, NEW row \in Nat, NEW attempts \in 0..Attempts,
         Queued(action, row, attempts)
  PROVE  /\ jobs' \in [JobIds -> Job \cup {NoJob, Done}]
         /\ \A id \in JobIds : jobs[id] # NoJob => jobs'[id] # NoJob
<1> DEFINE job == [state |-> "waiting", owner |-> None, action |-> action,
                   row |-> row, left |-> attempts, stalls |-> 0]
<1>1. job \in Job
  BY DEF Job
<1> HIDE DEF job
<1>2. PICK id \in JobIds : jobs[id] = NoJob /\ jobs' = [jobs EXCEPT ![id] = job]
  BY DEF Queued, job
<1> QED
  BY <1>1, <1>2 DEF TypeInv, TypeOK

\* A fault or a retry is counted within its bound.
LEMMA FaultType ==
  ASSUME TypeOK, NEW f, Fault(f) \/ Retry(f)
  PROVE  env' \in [plan : SUBSET (FaultKinds \cup UseKinds), faults : 0..MaxFaults, retries : 0..MaxRetries]
         /\ env'.plan = env.plan
  BY BoundsAssumption DEF TypeOK, Fault, Retry

\* A worker changes: its new state is a legal one and names a queued job.
LEMMA WorkerType ==
  ASSUME TypeInv, NEW w \in Workers, NEW new,
         new = Resting \/ (new \in AtWork \cup AtEnd /\ jobs'[new.id] # NoJob),
         worker' = [worker EXCEPT ![w] = new],
         \A id \in JobIds : jobs[id] # NoJob => jobs'[id] # NoJob
  PROVE  worker' \in [Workers -> Busy \cup {Resting}] /\ WorkIsQueued'
<1>1. new \in Busy \cup {Resting}
  BY DEF Busy, AtWork, AtEnd
<1>2. \A v \in Workers : worker[v] # Resting => worker[v].id \in JobIds
  BY DEF TypeInv, TypeOK, Busy
<1> QED
  BY <1>1, <1>2 DEF TypeInv, TypeOK, WorkIsQueued

\* The step of a worker says what it holds.
LEMMA WorkerShape ==
  ASSUME TypeInv, NEW w \in Workers
  PROVE  /\ worker[w].step \in {"send", "find", "write"} => worker[w] \in AtWork
         /\ worker[w].step = "end" => worker[w] \in AtEnd
         /\ worker[w].step = "idle" => worker[w] = Resting
         /\ worker[w].step \in {"idle", "send", "find", "write", "end"}
         /\ worker[w] # Resting => worker[w].id \in JobIds /\ jobs[worker[w].id] \in Job \cup {Done}
  BY DEF TypeInv, TypeOK, WorkIsQueued, Busy, AtWork, AtEnd, Resting

\* A worker comes to its end, whatever its outcome.
LEMMA FinishedType ==
  ASSUME TypeInv, NEW w \in Workers, worker[w] \in AtWork, NEW ok \in BOOLEAN,
         worker' = [worker EXCEPT ![w] = Finished(@, ok)] \/ worker' = [worker EXCEPT ![w] = Finished(@, @.ok)],
         UNCHANGED jobs
  PROVE  worker' \in [Workers -> Busy \cup {Resting}] /\ WorkIsQueued'
<1>1. PICK o \in BOOLEAN : worker' = [worker EXCEPT ![w] = Finished(worker[w], o)]
  BY DEF AtWork
<1>2. Finished(worker[w], o) \in AtEnd /\ Finished(worker[w], o).id = worker[w].id
  BY DEF Finished, AtWork, AtEnd
<1>3. worker[w] # Resting
  BY DEF AtWork, Resting
<1> QED
  BY <1>1, <1>2, <1>3, WorkerType DEF TypeInv, WorkIsQueued

\* The end of an attempt leaves the job done or waiting (BullMQ).
LEMMA AfterRunType ==
  ASSUME NEW id \in JobIds, NEW ok \in BOOLEAN, jobs[id] \in Job
  PROVE  AfterRun(id, ok) \in Job \cup {Done} /\ AfterRun(id, ok) # NoJob
<1>1. CASE ok \/ jobs[id].left <= 1
  BY <1>1 DEF AfterRun, Done, NoJob
<1>2. CASE ~(ok \/ jobs[id].left <= 1)
  <2>1. jobs[id].left \in 0..Attempts /\ jobs[id].left - 1 \in 0..Attempts
    BY <1>2, BoundsAssumption DEF Job
  <2>2. [jobs[id] EXCEPT !.state = "waiting", !.owner = None, !.left = @ - 1] \in Job
    BY <2>1 DEF Job
  <2> QED
    BY <1>2, <2>2 DEF AfterRun, NoJob, Job
<1> QED
  BY <1>1, <1>2

\* Every step keeps the type, and a worker works on a job that was queued.
LEMMA TypeStep ==
  ASSUME TypeInv, [Next]_vars
  PROVE  TypeInv'
<1> USE BoundsAssumption DEF callVars, retryVars
<1>0. TypeOK /\ WorkIsQueued /\ rows \in Seq(Row) /\ Len(rows) \in Nat /\ DOMAIN rows = 1..Len(rows)
      /\ \A i \in DOMAIN rows : rows[i] \in Row
  BY DEF TypeInv, TypeOK
<1>1. ASSUME NEW c \in Calls, CallStep(c) \/ DispatchReadFail(c)
      PROVE  TypeInv'
  <2>1. CASE DispatchRead(c)
    BY <1>0, <2>1 DEF DispatchRead, TypeInv, TypeOK, WorkIsQueued
  <2>2. CASE DispatchAdd(c)
    <3>1. /\ jobs' \in [JobIds -> Job \cup {NoJob, Done}]
          /\ \A id \in JobIds : jobs[id] # NoJob => jobs'[id] # NoJob
      BY <1>0, <2>2, QueuedType DEF DispatchAdd, TypeOK
    <3>2. WorkIsQueued'
      BY <2>2, <3>1, WorkerShape, <1>0 DEF DispatchAdd, WorkIsQueued
    <3> QED
      BY <1>0, <2>2, <3>1, <3>2 DEF DispatchAdd, TypeInv, TypeOK
  <2>3. CASE DispatchReadFail(c)
    <3>1. env' \in [plan : SUBSET (FaultKinds \cup UseKinds), faults : 0..MaxFaults, retries : 0..MaxRetries]
      BY <1>0, <2>3, FaultType DEF DispatchReadFail
    <3> QED
      BY <1>0, <2>3, <3>1 DEF DispatchReadFail, TypeInv, TypeOK, WorkIsQueued
  <2> QED
    BY <1>1, <2>1, <2>2, <2>3 DEF CallStep
<1>2. ASSUME NEW w \in Workers, NEW id \in JobIds, Take(w, id)
      PROVE  TypeInv'
  <2>1. jobs[id] \in Job
    BY <1>0, <1>2, JobShape DEF Take
  <2>2. /\ jobs' \in [JobIds -> Job \cup {NoJob, Done}]
        /\ \A i \in JobIds : jobs[i] # NoJob => jobs'[i] # NoJob
        /\ jobs'[id] # NoJob
    BY <1>0, <1>2, <2>1 DEF Take, TypeOK, Job, NoJob
  <2>3. [step |-> "send", id |-> id, action |-> jobs[id].action, row |-> jobs[id].row, ok |-> FALSE] \in AtWork
    BY <2>1 DEF Job, AtWork
  <2>4. worker' \in [Workers -> Busy \cup {Resting}] /\ WorkIsQueued'
    BY <1>2, <2>2, <2>3, WorkerType DEF Take
  <2> QED
    BY <1>0, <1>2, <2>2, <2>4 DEF Take, TypeInv, TypeOK
<1>3. ASSUME NEW w \in Workers, WorkerStep(w)
      PROVE  TypeInv'
  <2>1. CASE Send(w)
    <3>1. worker[w] \in AtWork
      BY <2>1, WorkerShape DEF Send
    <3>2. PICK ok \in BOOLEAN : worker' = [worker EXCEPT ![w].step = "find", ![w].ok = ok]
      BY <2>1 DEF Send
    <3>3. [worker[w] EXCEPT !.step = "find", !.ok = ok] \in AtWork
      BY <3>1 DEF AtWork
    <3>4. worker' = [worker EXCEPT ![w] = [worker[w] EXCEPT !.step = "find", !.ok = ok]]
      BY <1>0, <3>2 DEF TypeOK
    <3>5. worker' \in [Workers -> Busy \cup {Resting}] /\ WorkIsQueued'
      <4>1. jobs'[[worker[w] EXCEPT !.step = "find", !.ok = ok].id] # NoJob
        BY <1>0, <2>1, <3>1 DEF Send, WorkIsQueued, AtWork, Resting
      <4> QED
        BY <2>1, <3>3, <3>4, <4>1, WorkerType DEF Send
    <3>6. received' \subseteq Actions
      BY <1>0, <2>1, <3>1 DEF Send, TypeOK, AtWork
    <3> QED
      BY <1>0, <2>1, <3>5, <3>6 DEF Send, TypeInv, TypeOK
  <2>2. CASE FindRow(w)
    <3>1. worker[w] \in AtWork
      BY <2>2, WorkerShape DEF FindRow
    <3>2. PICK row \in Nat : worker' = [worker EXCEPT ![w].step = "write", ![w].row = row]
      BY <1>0, <2>2, <3>1 DEF FindRow, AtWork
    <3>3. [worker[w] EXCEPT !.step = "write", !.row = row] \in AtWork
      BY <3>1 DEF AtWork
    <3>4. worker' = [worker EXCEPT ![w] = [worker[w] EXCEPT !.step = "write", !.row = row]]
      BY <1>0, <3>2 DEF TypeOK
    <3>5. worker' \in [Workers -> Busy \cup {Resting}] /\ WorkIsQueued'
      <4>1. jobs'[[worker[w] EXCEPT !.step = "write", !.row = row].id] # NoJob
        BY <1>0, <2>2, <3>1 DEF FindRow, WorkIsQueued, AtWork, Resting
      <4> QED
        BY <2>2, <3>3, <3>4, <4>1, WorkerType DEF FindRow
    <3> QED
      BY <1>0, <2>2, <3>5 DEF FindRow, TypeInv, TypeOK
  <2>3. CASE WriteRow(w)
    <3>1. worker[w] \in AtWork
      BY <2>3, WorkerShape DEF WriteRow
    <3>2. worker' \in [Workers -> Busy \cup {Resting}] /\ WorkIsQueued'
      BY <2>3, <3>1, FinishedType DEF WriteRow
    <3>3. rows' \in Seq(Row)
      <4>1. [action |-> worker[w].action, success |-> worker[w].ok] \in Row
        BY <3>1 DEF AtWork, Row
      <4>2. worker[w].row = 0 => rows' \in Seq(Row)
        BY <1>0, <2>3, <4>1 DEF WriteRow
      <4>3. \A k \in Nat, x \in Row : [rows EXCEPT ![k] = x] \in Seq(Row)
        <5> SUFFICES ASSUME NEW k \in Nat, NEW x \in Row
                     PROVE  [rows EXCEPT ![k] = x] \in Seq(Row)
          OBVIOUS
        <5>1. [rows EXCEPT ![k] = x] \in [1..Len(rows) -> Row]
          BY <1>0
        <5> QED
          BY <1>0, <5>1
      <4>4. worker[w].row \in Nat
        BY <3>1 DEF AtWork
      <4> QED
        BY <2>3, <4>1, <4>2, <4>3, <4>4 DEF WriteRow
    <3> QED
      BY <1>0, <2>3, <3>2, <3>3 DEF WriteRow, TypeInv, TypeOK
  <2>4. CASE End(w)
    <3>1. worker[w] \in AtEnd /\ worker[w].id \in JobIds /\ jobs[worker[w].id] \in Job \cup {Done}
      BY <2>4, WorkerShape DEF End, Resting
    <3>2. /\ jobs' \in [JobIds -> Job \cup {NoJob, Done}]
          /\ \A i \in JobIds : jobs[i] # NoJob => jobs'[i] # NoJob
      <4>1. jobs[worker[w].id] # Done =>
              AfterRun(worker[w].id, worker[w].ok) \in Job \cup {Done} /\ AfterRun(worker[w].id, worker[w].ok) # NoJob
        BY <3>1, AfterRunType DEF AtEnd
      <4> QED
        BY <1>0, <2>4, <4>1 DEF End, TypeOK
    <3>3. worker' \in [Workers -> Busy \cup {Resting}] /\ WorkIsQueued'
      BY <2>4, <3>2, WorkerType DEF End
    <3> QED
      BY <1>0, <2>4, <3>2, <3>3 DEF End, TypeInv, TypeOK
  <2> QED
    BY <1>3, <2>1, <2>2, <2>3, <2>4 DEF WorkerStep
<1>4. ASSUME NEW w \in Workers, WorkerFault(w)
      PROVE  TypeInv'
  <2>0. env' \in [plan : SUBSET (FaultKinds \cup UseKinds), faults : 0..MaxFaults, retries : 0..MaxRetries]
    BY <1>0, <1>4, FaultType DEF WorkerFault, SignFail, LogFail, Crash
  <2>1. CASE SignFail(w)
    <3>1. worker' \in [Workers -> Busy \cup {Resting}] /\ WorkIsQueued'
      BY <2>1, WorkerShape, FinishedType DEF SignFail
    <3> QED
      BY <1>0, <2>0, <2>1, <3>1 DEF SignFail, TypeInv, TypeOK
  <2>2. CASE LogFail(w)
    <3>1. worker' \in [Workers -> Busy \cup {Resting}] /\ WorkIsQueued'
      BY <2>2, WorkerShape, FinishedType DEF LogFail
    <3> QED
      BY <1>0, <2>0, <2>2, <3>1 DEF LogFail, TypeInv, TypeOK
  <2>3. CASE Crash(w)
    <3>1. worker[w].id \in JobIds /\ jobs[worker[w].id] \in Job \cup {Done}
      BY <2>3, WorkerShape DEF Crash
    <3>2. /\ jobs' \in [JobIds -> Job \cup {NoJob, Done}]
          /\ \A i \in JobIds : jobs[i] # NoJob => jobs'[i] # NoJob
      <4>1. \A j \in Job : [j EXCEPT !.state = "stalled", !.owner = None] \in Job
        BY DEF Job
      <4>2. \A j \in Job : j # NoJob
        BY DEF Job, NoJob
      <4> QED
        BY <1>0, <2>3, <3>1, <4>1, <4>2 DEF Crash, TypeOK
    <3>3. worker' \in [Workers -> Busy \cup {Resting}] /\ WorkIsQueued'
      BY <2>3, <3>2, WorkerType DEF Crash
    <3> QED
      BY <1>0, <2>0, <2>3, <3>2, <3>3 DEF Crash, TypeInv, TypeOK
  <2> QED
    BY <1>4, <2>1, <2>2, <2>3 DEF WorkerFault
<1>5. ASSUME NEW id \in JobIds, Stall(id) \/ Requeue(id)
      PROVE  TypeInv'
  <2>1. jobs[id] \in Job
    BY <1>0, <1>5, JobShape DEF Stall, Requeue
  <2>2. \A j \in Job : [j EXCEPT !.state = "stalled", !.owner = None] \in Job
    BY DEF Job
  <2>3. \A j \in Job : [j EXCEPT !.state = "waiting", !.stalls = 1] \in Job
    <3>1. \A j \in Job : [j EXCEPT !.state = "waiting"] \in Job
      BY DEF Job
    <3>2. \A j \in Job, k \in 0..1 : [j EXCEPT !.stalls = k] \in Job
      BY DEF Job
    <3> DEFINE again(j) == [j EXCEPT !.state = "waiting"]
    <3>3. \A j \in Job : [again(j) EXCEPT !.stalls = 1] \in Job
      <4>1. \A j \in Job : again(j) \in Job
        BY <3>1
      <4> HIDE DEF again
      <4>2. 1 \in 0..1
        OBVIOUS
      <4> QED
        BY <3>2, <4>1, <4>2, Zenon
    <3> QED
      BY <3>3, Zenon
  <2>4. \E new \in Job \cup {Done} : jobs' = [jobs EXCEPT ![id] = new]
    <3>1. CASE Stall(id)
      BY <2>1, <2>2, <3>1 DEF Stall
    <3>2. CASE Requeue(id)
      BY <2>1, <2>3, <3>2 DEF Requeue
    <3> QED
      BY <1>5, <3>1, <3>2
  <2>6. Done # NoJob
    BY DEF Done, NoJob
  <2>7. \A j \in Job : j # NoJob
    BY DEF Job, NoJob
  <2>5. /\ jobs' \in [JobIds -> Job \cup {NoJob, Done}]
        /\ \A i \in JobIds : jobs[i] # NoJob => jobs'[i] # NoJob
    BY <1>0, <2>6, <2>7, <2>4 DEF TypeOK
  <2>8. WorkIsQueued'
    BY <1>0, <1>5, <2>5, WorkerShape DEF Stall, Requeue, WorkIsQueued
  <2>9. env' \in [plan : SUBSET (FaultKinds \cup UseKinds), faults : 0..MaxFaults, retries : 0..MaxRetries]
    BY <1>0, <1>5, FaultType DEF Stall, Requeue, TypeOK
  <2> QED
    BY <1>0, <1>5, <2>5, <2>8, <2>9 DEF Stall, Requeue, TypeInv, TypeOK
<1>6. ASSUME NEW r \in Retriers, RetryStart(r) \/ RetryStep(r)
      PROVE  TypeInv'
  <2> DEFINE Retrier == {Resting} \cup [step : {"failed"}, active : BOOLEAN]
        \cup [step : {"succeeded"}, active : BOOLEAN, failed : SUBSET Actions]
        \cup [step : {"queue"}, active : BOOLEAN, action : Actions]
  <2>0. retrier \in [Retriers -> Retrier] /\ active \in BOOLEAN
    BY <1>0 DEF TypeOK
  <2>1. /\ retrier[r].step = "failed" => retrier[r] \in [step : {"failed"}, active : BOOLEAN]
        /\ retrier[r].step = "succeeded" =>
             retrier[r] \in [step : {"succeeded"}, active : BOOLEAN, failed : SUBSET Actions]
        /\ retrier[r].step = "queue" => retrier[r] \in [step : {"queue"}, active : BOOLEAN, action : Actions]
    BY <2>0 DEF Resting
  <2>2. CASE RetryStart(r)
    <3>1. retrier' \in [Retriers -> Retrier]
      BY <2>0, <2>2 DEF RetryStart
    <3>2. env' \in [plan : SUBSET (FaultKinds \cup UseKinds), faults : 0..MaxFaults, retries : 0..MaxRetries]
      BY <1>0, <2>2, FaultType DEF RetryStart
    <3> QED
      BY <1>0, <2>2, <3>1, <3>2 DEF RetryStart, TypeInv, TypeOK, WorkIsQueued
  <2>3. CASE RetryReadFailed(r)
    <3>1. {rows[i].action : i \in {k \in DOMAIN rows : ~rows[k].success}} \subseteq Actions
      BY <1>0 DEF Row
    <3>2. retrier' \in [Retriers -> Retrier]
      BY <2>0, <2>1, <2>3, <3>1 DEF RetryReadFailed
    <3> QED
      BY <1>0, <2>3, <3>2 DEF RetryReadFailed, TypeInv, TypeOK, WorkIsQueued
  <2>4. CASE RetryReadSucceeded(r)
    <3>1. retrier' \in [Retriers -> Retrier]
      BY <2>0, <2>1, <2>4 DEF RetryReadSucceeded
    <3> QED
      BY <1>0, <2>4, <3>1 DEF RetryReadSucceeded, TypeInv, TypeOK, WorkIsQueued
  <2>5. CASE RetryQueue(r)
    <3>1. /\ jobs' \in [JobIds -> Job \cup {NoJob, Done}]
          /\ \A id \in JobIds : jobs[id] # NoJob => jobs'[id] # NoJob
      <4>1. CASE Queued(retrier[r].action, 0, Attempts)
        BY <2>1, <2>5, <4>1, QueuedType DEF RetryQueue
      <4>2. CASE UNCHANGED jobs
        BY <1>0, <4>2 DEF TypeOK
      <4> QED
        BY <2>5, <4>1, <4>2 DEF RetryQueue
    <3>2. retrier' \in [Retriers -> Retrier]
      BY <2>0, <2>5 DEF RetryQueue
    <3>3. WorkIsQueued'
      BY <1>0, <2>5, <3>1, WorkerShape DEF RetryQueue, WorkIsQueued
    <3> QED
      BY <1>0, <2>5, <3>1, <3>2, <3>3 DEF RetryQueue, TypeInv, TypeOK
  <2> QED
    BY <1>6, <2>2, <2>3, <2>4, <2>5 DEF RetryStep
<1>7. ASSUME NEW i \in DOMAIN rows, ManualRead(i)
      PROVE  TypeInv'
  <2>1. i \in Nat \ {0} /\ rows[i].action \in Actions
    BY <1>0 DEF Row
  <2>2. env' \in [plan : SUBSET (FaultKinds \cup UseKinds), faults : 0..MaxFaults, retries : 0..MaxRetries]
    BY <1>0, <1>7, FaultType DEF ManualRead
  <2> QED
    BY <1>0, <1>7, <2>1, <2>2 DEF ManualRead, TypeInv, TypeOK, WorkIsQueued
<1>8. CASE ManualAdd
  <2>1. manual \in [step : {"queue"}, row : Nat \ {0}, action : Actions]
    BY <1>0, <1>8 DEF ManualAdd, TypeOK, Resting
  <2>2. /\ jobs' \in [JobIds -> Job \cup {NoJob, Done}]
        /\ \A id \in JobIds : jobs[id] # NoJob => jobs'[id] # NoJob
    BY <1>8, <2>1, QueuedType DEF ManualAdd
  <2>3. WorkIsQueued'
    BY <1>0, <1>8, <2>2, WorkerShape DEF ManualAdd, WorkIsQueued
  <2> QED
    BY <1>0, <1>8, <2>2, <2>3 DEF ManualAdd, TypeInv, TypeOK
<1>9. CASE SwitchEndpoint
  <2>1. active' \in BOOLEAN
    BY <1>9, Zenon DEF SwitchEndpoint
  <2>2. UNCHANGED <<actionOf, call, jobs, worker, rows, retrier, manual, env, received>>
    BY <1>9 DEF SwitchEndpoint
  <2> QED
    BY <1>0, <2>1, <2>2 DEF TypeInv, TypeOK, WorkIsQueued
<1>10. CASE UNCHANGED vars
  BY <1>0, <1>10 DEF vars, TypeInv, TypeOK, WorkIsQueued
<1> QED
  BY <1>1, <1>2, <1>3, <1>4, <1>5, <1>6, <1>7, <1>8, <1>9, <1>10 DEF Next
\* The state in which everything starts is of the right type.
LEMMA TypeInit ==
  ASSUME Init
  PROVE  TypeInv
<1>1. rows \in Seq(Row)
  BY DEF Init
<1>2. env \in [plan : SUBSET (FaultKinds \cup UseKinds), faults : 0..MaxFaults, retries : 0..MaxRetries]
  BY BoundsAssumption DEF Init
<1>3. worker \in [Workers -> Busy \cup {Resting}] /\ \A w \in Workers : worker[w] = Resting
  BY DEF Init
<1>4. retrier \in [Retriers -> {Resting}] /\ manual = Resting
  BY DEF Init
<1>5. jobs \in [JobIds -> {NoJob}] /\ active \in BOOLEAN /\ received \subseteq Actions
      /\ actionOf \in [Calls -> Actions] /\ call \in [Calls -> {"due", "found", "done"}]
  BY DEF Init
<1> QED
  BY <1>1, <1>2, <1>3, <1>4, <1>5 DEF TypeInv, TypeOK, WorkIsQueued

\* In every reachable state the variables have their types and a worker's job
\* is one that was queued.
THEOREM TypeCorrect == Spec => []TypeOK
<1>1. TypeInv => TypeOK
  BY DEF TypeInv
<1> QED
  BY TypeInit, TypeStep, <1>1, PTL DEF Spec
-----------------------------------------------------------------------------
(* LogIsHonest *)

\* What one step can do: the endpoint forgets nothing, the environment keeps its
\* plan, only WriteRow changes the log, and a worker comes to look for a row or
\* to write one by Send and FindRow only.
LEMMA StepShape ==
  ASSUME TypeInv, [Next]_vars
  PROVE  /\ received \subseteq received' /\ env'.plan = env.plan
         /\ rows' = rows \/ \E w \in Workers : WriteRow(w)
         /\ \A w \in Workers : \/ worker'[w] = worker[w]
                               \/ worker'[w].step \in {"idle", "send", "end"}
                               \/ Send(w) \/ FindRow(w)
<1> USE DEF callVars, retryVars
<1>0. TypeOK /\ worker \in [Workers -> Busy \cup {Resting}]
  BY DEF TypeInv, TypeOK
<1>1. ASSUME NEW c \in Calls, CallStep(c) \/ DispatchReadFail(c)
      PROVE  UNCHANGED <<received, rows, worker>> /\ env'.plan = env.plan
  BY <1>0, <1>1, FaultType DEF CallStep, DispatchRead, DispatchAdd, DispatchReadFail
<1>2. ASSUME NEW w \in Workers, NEW id \in JobIds, Take(w, id)
      PROVE  /\ UNCHANGED <<received, rows, env>>
             /\ \A v \in Workers : worker'[v] = worker[v] \/ worker'[v].step = "send"
  BY <1>0, <1>2 DEF Take
<1>3. ASSUME NEW w \in Workers, WorkerStep(w)
      PROVE  /\ received \subseteq received' /\ UNCHANGED env
             /\ rows' = rows \/ WriteRow(w)
             /\ \A v \in Workers : \/ worker'[v] = worker[v]
                                   \/ worker'[v].step \in {"idle", "end"}
                                   \/ Send(v) \/ FindRow(v)
  <2>1. CASE Send(w)
    BY <1>0, <2>1 DEF Send
  <2>2. CASE FindRow(w)
    BY <1>0, <2>2 DEF FindRow
  <2>3. CASE WriteRow(w)
    BY <1>0, <2>3 DEF WriteRow, Finished
  <2>4. CASE End(w)
    BY <1>0, <2>4 DEF End, Resting
  <2> QED
    BY <1>3, <2>1, <2>2, <2>3, <2>4 DEF WorkerStep
<1>4. ASSUME NEW w \in Workers, WorkerFault(w)
      PROVE  /\ UNCHANGED <<received, rows>> /\ env'.plan = env.plan
             /\ \A v \in Workers : worker'[v] = worker[v] \/ worker'[v].step \in {"idle", "end"}
  <2>1. env'.plan = env.plan
    BY <1>0, <1>4, FaultType DEF WorkerFault, SignFail, LogFail, Crash
  <2> QED
    BY <1>0, <1>4, <2>1 DEF WorkerFault, SignFail, LogFail, Crash, Finished, Resting
<1>5. ASSUME NEW id \in JobIds, Stall(id) \/ Requeue(id)
      PROVE  UNCHANGED <<received, rows, worker>> /\ env'.plan = env.plan
  BY <1>0, <1>5, FaultType DEF Stall, Requeue
<1>6. ASSUME NEW r \in Retriers, RetryStart(r) \/ RetryStep(r)
      PROVE  UNCHANGED <<received, rows, worker>> /\ env'.plan = env.plan
  BY <1>0, <1>6, FaultType DEF RetryStart, RetryStep, RetryReadFailed, RetryReadSucceeded, RetryQueue
<1>7. ASSUME NEW i \in DOMAIN rows, ManualRead(i)
      PROVE  UNCHANGED <<received, rows, worker>> /\ env'.plan = env.plan
  BY <1>0, <1>7, FaultType DEF ManualRead
<1>8. CASE ManualAdd
  BY <1>8 DEF ManualAdd
<1>9. CASE SwitchEndpoint
  BY <1>9 DEF SwitchEndpoint
<1>10. CASE UNCHANGED vars
  BY <1>10 DEF vars
<1> QED
  BY <1>1, <1>2, <1>3, <1>4, <1>5, <1>6, <1>7, <1>8, <1>9, <1>10 DEF Next

\* What a write does to the log: one row more for a worker that found none, else
\* one row overwritten, with the event and the outcome of the worker.
LEMMA Written ==
  ASSUME TypeInv, NEW w \in Workers, WriteRow(w)
  PROVE  /\ Len(rows') = Len(rows) + (IF worker[w].row = 0 THEN 1 ELSE 0)
         /\ \A i \in DOMAIN rows' :
              \/ i \in DOMAIN rows /\ rows'[i] = rows[i]
              \/ rows'[i].action = worker[w].action /\ rows'[i].success = worker[w].ok
         /\ worker[w].step = "write" /\ worker'[w].step = "end" /\ UNCHANGED <<env, received>>
<1> DEFINE row == [action |-> worker[w].action, success |-> worker[w].ok]
<1>1. rows \in Seq(Row) /\ worker \in [Workers -> Busy \cup {Resting}]
  BY DEF TypeInv, TypeOK
<1>2. worker[w].step = "write" /\ worker'[w].step = "end" /\ UNCHANGED <<env, received>>
  BY <1>1 DEF WriteRow, Finished
<1>3. worker[w] \in AtWork /\ row \in Row
  BY <1>2, WorkerShape DEF AtWork, Row
<1>4. CASE worker[w].row = 0
  <2>1. rows' = Append(rows, row)
    BY <1>4 DEF WriteRow
  <2> HIDE DEF row
  <2>2. Len(rows') = Len(rows) + 1 /\ \A i \in DOMAIN rows' :
          \/ i \in DOMAIN rows /\ rows'[i] = rows[i]
          \/ rows'[i] = row
    BY <1>1, <1>3, <2>1
  <2> QED
    BY <1>2, <1>4, <2>2 DEF row
<1>5. CASE worker[w].row # 0
  <2>1. rows' = [rows EXCEPT ![worker[w].row] = row]
    BY <1>5 DEF WriteRow
  <2> HIDE DEF row
  <2>2. DOMAIN rows' = DOMAIN rows /\ Len(rows') = Len(rows)
    <3>1. rows \in [1..Len(rows) -> Row] /\ Len(rows) \in Nat
      BY <1>1
    <3>2. rows' \in [1..Len(rows) -> Row]
      BY <1>3, <2>1, <3>1 DEF row
    <3> QED
      BY <1>1, <3>1, <3>2
  <2>3. \A i \in DOMAIN rows : rows'[i] = rows[i] \/ rows'[i] = row
    BY <1>1, <2>1
  <2>4. Len(rows) + 0 = Len(rows)
    BY <1>1
  <2> QED
    BY <1>2, <1>5, <2>2, <2>3, <2>4 DEF row
<1> QED
  BY <1>4, <1>5

\* An outcome logged, or to be logged, as a success is of an event the endpoint
\* has processed.
LEMMA OutcomeStep ==
  ASSUME TypeInv, SuccessWasReceived, OutcomeTrue, [Next]_vars
  PROVE  SuccessWasReceived' /\ OutcomeTrue'
<1>0. worker \in [Workers -> Busy \cup {Resting}]
  BY DEF TypeInv, TypeOK
<1>1. received \subseteq received' /\ Relayed' = Relayed
  BY StepShape DEF Relayed
<1>2. OutcomeTrue'
  <2> SUFFICES ASSUME ~Relayed, NEW w \in Workers, worker'[w].step \in {"find", "write"}, worker'[w].ok
               PROVE  worker'[w].action \in received'
    BY <1>1 DEF OutcomeTrue
  <2>1. CASE worker'[w] = worker[w]
    BY <1>1, <2>1 DEF OutcomeTrue
  <2>2. CASE Send(w)
    <3>1. worker[w] \in AtWork
      BY <2>2, WorkerShape DEF Send
    <3> QED
      BY <1>0, <2>2, <3>1 DEF Send, AtWork
  <2>3. CASE FindRow(w)
    <3>1. worker[w] \in AtWork /\ worker[w].step = "find"
      BY <2>3, WorkerShape DEF FindRow
    <3>2. worker'[w].ok = worker[w].ok /\ worker'[w].action = worker[w].action
      BY <1>0, <2>3, <3>1 DEF FindRow, AtWork
    <3> QED
      BY <1>1, <3>1, <3>2 DEF OutcomeTrue
  <2> QED
    BY <2>1, <2>2, <2>3, StepShape
<1>3. SuccessWasReceived'
  <2> SUFFICES ASSUME ~Relayed, NEW i \in DOMAIN rows', rows'[i].success
               PROVE  rows'[i].action \in received'
    BY <1>1 DEF SuccessWasReceived
  <2>1. CASE rows' = rows
    BY <1>1, <2>1 DEF SuccessWasReceived
  <2>2. ASSUME NEW w \in Workers, WriteRow(w)
        PROVE  rows'[i].action \in received'
    BY <1>1, <2>2, Written DEF SuccessWasReceived, OutcomeTrue
  <2> QED
    BY <2>1, <2>2, StepShape
<1> QED
  BY <1>2, <1>3

\* Every row was added by a worker that had found none, and once there is a row
\* no other worker finds none: the adders only become fewer.
LEMMA RowsStep ==
  ASSUME TypeInv, RowsAdded, [Next]_vars
  PROVE  RowsAdded'
<1>0. rows \in Seq(Row) /\ Len(rows) \in Nat /\ worker \in [Workers -> Busy \cup {Resting}]
  BY DEF TypeInv, TypeOK
<1>1. IsFiniteSet(Adders) /\ Cardinality(Adders) \in Nat /\ Cardinality(Workers) \in Nat
  BY WorkersAssumption, FS_Subset, FS_CardinalityType DEF Adders
<1>2. IsFiniteSet(Adders') /\ Cardinality(Adders') \in Nat /\ Cardinality(Adders') <= Cardinality(Workers)
  <2>1. Adders' \in SUBSET Workers
    BY DEF Adders
  <2> QED
    BY <2>1, WorkersAssumption, FS_Subset, FS_CardinalityType
<1>3. ASSUME NEW v \in Workers, v \in Adders', v \notin Adders
      PROVE  Len(rows) = 0
  <2>1. worker'[v].step = "write" /\ worker'[v].row = 0
    BY <1>3 DEF Adders
  <2>2. worker'[v] # worker[v]
    BY <1>3, <2>1 DEF Adders
  <2>3. ~Send(v)
    BY <1>0, <2>1, WorkerShape DEF Send, AtWork
  <2>4. FindRow(v)
    BY <2>1, <2>2, <2>3, StepShape
  <2>5. worker[v] \in AtWork
    BY <2>4, WorkerShape DEF FindRow
  <2> QED
    BY <1>0, <2>1, <2>4, <2>5 DEF FindRow, AtWork
<1>4. CASE rows' = rows
  <2>1. CASE Len(rows) = 0
    BY <1>2, <1>4, <2>1 DEF RowsAdded
  <2>2. CASE Len(rows) # 0
    <3>1. Adders' \in SUBSET Adders
      BY <1>3, <2>2 DEF Adders
    <3>2. Cardinality(Adders') <= Cardinality(Adders)
      BY <1>1, <3>1, FS_Subset
    <3> QED
      BY <1>0, <1>1, <1>2, <1>4, <3>2 DEF RowsAdded
  <2> QED
    BY <2>1, <2>2
<1>5. ASSUME NEW w \in Workers, WriteRow(w)
      PROVE  RowsAdded'
  <2>1. \A v \in Workers : v # w => worker'[v] = worker[v]
    BY <1>0, <1>5 DEF WriteRow
  <2>2. Adders' \in SUBSET (Adders \ {w})
    BY <1>5, <2>1, Written DEF Adders
  <2>3. CASE worker[w].row = 0
    <3>1. w \in Adders
      BY <1>5, <2>3, Written DEF Adders
    <3>2. IsFiniteSet(Adders \ {w}) /\ Cardinality(Adders \ {w}) = Cardinality(Adders) - 1
      BY <1>1, <3>1, FS_RemoveElement
    <3>3. Cardinality(Adders') <= Cardinality(Adders) - 1
      BY <2>2, <3>2, FS_Subset
    <3>4. Len(rows') = Len(rows) + 1
      BY <1>5, <2>3, Written
    <3> QED
      BY <1>0, <1>1, <1>2, <3>3, <3>4 DEF RowsAdded
  <2>4. CASE worker[w].row # 0
    <3>1. Adders' \in SUBSET Adders
      BY <2>2
    <3>2. Cardinality(Adders') <= Cardinality(Adders)
      BY <1>1, <3>1, FS_Subset
    <3>3. Len(rows') = Len(rows) + 0
      BY <1>5, <2>4, Written
    <3> QED
      BY <1>0, <1>1, <1>2, <3>2, <3>3 DEF RowsAdded
  <2> QED
    BY <2>3, <2>4
<1> QED
  BY <1>4, <1>5, StepShape

\* In every reachable state the log is honest: it shows a success only for an
\* event the endpoint has processed, and never more rows than there are workers.
THEOREM LogHonest == Spec => []LogIsHonest
<1>1. ASSUME Init
      PROVE  IInv
  <2>1. TypeInv
    BY <1>1, TypeInit
  <2>2. rows = <<>> /\ \A w \in Workers : worker[w].step = "idle"
    BY <1>1 DEF Init, Resting
  <2>3. Adders = {} /\ Len(rows) = 0
    BY <2>2 DEF Adders
  <2>4. Cardinality(Adders) = 0 /\ Cardinality(Workers) \in Nat
    BY <2>3, WorkersAssumption, FS_EmptySet, FS_CardinalityType
  <2>5. RowsAdded
    BY <2>3, <2>4 DEF RowsAdded
  <2> QED
    BY <2>1, <2>2, <2>5 DEF IInv, SuccessWasReceived, OutcomeTrue
<1>2. IInv /\ [Next]_vars => IInv'
  BY TypeStep, OutcomeStep, RowsStep DEF IInv
<1>3. IInv => LogIsHonest
  <2> SUFFICES ASSUME IInv
               PROVE  LogIsHonest
    OBVIOUS
  <2>1. Cardinality(Adders) \in Nat /\ Cardinality(Workers) \in Nat
    BY WorkersAssumption, FS_Subset, FS_CardinalityType DEF Adders
  <2>2. Len(rows) \in Nat
    BY DEF IInv, TypeInv, TypeOK
  <2> QED
    BY <2>1, <2>2 DEF IInv, RowsAdded, LogIsHonest, RowsOfRacersOnly
<1> QED
  BY <1>1, <1>2, <1>3, PTL DEF Spec
-----------------------------------------------------------------------------
(* What EventuallyAccounted rests on *)

\* The setting of EventuallyAccounted: the transaction has one event, which goes out
\* over HTTP and whose secret can be decrypted.
Quiet == OneEvent /\ ~Relayed /\ "signFail" \notin env.plan

\* A job outlives its faults: they are fewer than its attempts, and BullMQ queues it
\* again after one death or stall, not after two.
FewFaults == MaxFaults < Attempts /\ (MaxFaults <= 1 \/ {"crash", "stall"} \cap env.plan = {})

\* An event is on its way, received, or in the log as a failure that can be retried.
Accounted(a) == Waiting(a) \/ a \in received \/ Failed(a)

\* No event that was ever queued disappears (End, Requeue, the upsert of the log).
NeverLost ==
  (Quiet /\ FewFaults) =>
    \A id \in JobIds, c \in Calls : jobs[id] # NoJob => Accounted(actionOf[c])

\* The events in jobs, workers, log and retries are those of the calls.
Events == {actionOf[c] : c \in Calls}
Live(id) == jobs[id].state \in {"waiting", "active", "stalled"}
Sending(w) == worker[w].step \in {"send", "find", "write"}
OfTheCalls ==
  /\ \A id \in JobIds : Live(id) => jobs[id].action \in Events
  /\ \A w \in Workers : Sending(w) => worker[w].action \in Events
  /\ \A i \in DOMAIN rows : rows[i].action \in Events
  /\ received \subseteq Events
  /\ \A r \in Retriers : /\ retrier[r].step = "succeeded" => retrier[r].failed \subseteq Events
                         /\ retrier[r].step = "queue" => retrier[r].action \in Events
  /\ manual.step = "queue" => manual.action \in Events

\* A job runs where its owner works on it.
OwnerWorks ==
  \A id \in JobIds : Live(id) =>
    /\ jobs[id].state = "active" <=> jobs[id].owner # None
    /\ jobs[id].owner # None => worker[jobs[id].owner] # Resting /\ worker[jobs[id].owner].id = id

\* The endpoint has processed something, or the log has a row: neither goes away.
Recorded == received # {} \/ Len(rows) > 0

\* Until then there is nothing to retry and no attempt has succeeded ...
NothingToRetry ==
  /\ \A r \in Retriers : retrier[r].step \notin {"succeeded", "queue"}
  /\ manual.step # "queue"
  /\ \A id \in JobIds : Live(id) => jobs[id].row = 0
  /\ \A w \in Workers : Sending(w) => worker[w].row = 0
NoneSucceeded == \A w \in Workers : worker[w] # Resting => ~worker[w].ok

\* ... and every attempt of a job and every return to the queue has cost a fault.
AtEndOf(id) == jobs[id].state = "active" /\ worker[jobs[id].owner].step = "end"
Spent(id) ==
  jobs[id].stalls + (IF jobs[id].state = "stalled" THEN 1 ELSE 0)
  + (Attempts - jobs[id].left) + (IF AtEndOf(id) THEN 1 ELSE 0)
AttemptsCost == \A id \in JobIds : Live(id) => Spent(id) <= MaxFaults - env.faults

\* A job stalls by a death or a stall only.
StallsAreFaults ==
  {"crash", "stall"} \cap env.plan = {} => \A id \in JobIds : jobs[id].state # "stalled"

Unrecorded == NothingToRetry /\ NoneSucceeded /\ AttemptsCost
NoneDone == \A id \in JobIds : jobs[id] # Done
LossInv ==
  /\ OfTheCalls /\ OwnerWorks /\ StallsAreFaults
  /\ (Quiet /\ ~Recorded) => Unrecorded /\ (FewFaults => NoneDone)

\* Queueing adds one waiting job.
LEMMA QueuedShape ==
  ASSUME TypeInv, NEW action, NEW row, NEW attempts, Queued(action, row, attempts)
  PROVE  \A id \in JobIds :
           \/ jobs'[id] = jobs[id]
           \/ jobs[id] = NoJob /\ jobs'[id] = [state |-> "waiting", owner |-> None, action |-> action,
                                               row |-> row, left |-> attempts, stalls |-> 0]
  BY DEF Queued, TypeInv, TypeOK

\* A job that is queued takes nothing from the others, and has an event of the calls.
LEMMA QueuedKeeps ==
  ASSUME TypeInv, OfTheCalls, OwnerWorks, StallsAreFaults, NEW action \in Events, NEW row, NEW attempts,
         Queued(action, row, attempts), UNCHANGED <<actionOf, worker, rows, received>>, env'.plan = env.plan,
         \A r \in Retriers : retrier'[r] = retrier[r] \/ retrier'[r] = Resting,
         manual' = manual \/ manual' = Resting
  PROVE  OfTheCalls' /\ OwnerWorks' /\ StallsAreFaults'
<1>1. Events' = Events /\ NoJob.state = "none" /\ Resting.step = "idle"
  BY DEF Events, NoJob, Resting
<1>2. \A id \in JobIds :
        \/ jobs'[id] = jobs[id]
        \/ jobs'[id].state = "waiting" /\ jobs'[id].owner = None /\ jobs'[id].action = action
  <2>1. ASSUME NEW id \in JobIds, jobs'[id] # jobs[id]
        PROVE  jobs'[id] = [state |-> "waiting", owner |-> None, action |-> action,
                            row |-> row, left |-> attempts, stalls |-> 0]
    BY <2>1, QueuedShape
  <2> QED
    BY <2>1
<1>3. OfTheCalls'
  BY <1>1, <1>2 DEF OfTheCalls, Live, Sending
<1>4. OwnerWorks'
  BY <1>1, <1>2 DEF OwnerWorks, Live
<1>5. StallsAreFaults'
  BY <1>1, <1>2 DEF StallsAreFaults
<1> QED
  BY <1>3, <1>4, <1>5

\* Jobs, workers and log stay, and retries that are under way read the log.
LEMMA SameKeeps ==
  ASSUME OfTheCalls, OwnerWorks, StallsAreFaults, UNCHANGED <<actionOf, jobs, worker, rows, received>>,
         env'.plan = env.plan,
         \A r \in Retriers :
           \/ retrier'[r] = retrier[r]
           \/ retrier'[r].step \notin {"succeeded", "queue"}
           \/ retrier'[r].step = "succeeded" /\ retrier'[r].failed \subseteq Events
           \/ retrier'[r].step = "queue" /\ retrier'[r].action \in Events,
         manual' = manual \/ (manual'.step = "queue" /\ manual'.action \in Events)
  PROVE  OfTheCalls' /\ OwnerWorks' /\ StallsAreFaults'
<1>1. Events' = Events
  BY DEF Events
<1>2. OfTheCalls'
  BY <1>1 DEF OfTheCalls, Live, Sending
<1> QED
  BY <1>2 DEF OwnerWorks, Live, StallsAreFaults

\* A worker goes on with its job.
LEMMA ProgressKeeps ==
  ASSUME TypeInv, OfTheCalls, OwnerWorks, StallsAreFaults, NEW w \in Workers,
         \A v \in Workers : v # w => worker'[v] = worker[v],
         worker'[w] # Resting, worker'[w].id = worker[w].id,
         Sending(w)' => Sending(w) /\ worker'[w].action = worker[w].action,
         UNCHANGED <<actionOf, jobs, retrier, manual>>, env'.plan = env.plan,
         received' \subseteq received \cup Events,
         \A i \in DOMAIN rows' : rows'[i].action \in Events
  PROVE  OfTheCalls' /\ OwnerWorks' /\ StallsAreFaults'
<1>1. Events' = Events
  BY DEF Events
<1>2. \A v \in Workers : Sending(v)' => Sending(v) /\ worker'[v].action = worker[v].action
  BY DEF Sending
<1>3. OfTheCalls'
  BY <1>1, <1>2 DEF OfTheCalls, Live
<1>4. OwnerWorks'
  <2> SUFFICES ASSUME NEW id \in JobIds, Live(id)
               PROVE  /\ jobs[id].state = "active" <=> jobs[id].owner # None
                      /\ jobs[id].owner # None =>
                           worker'[jobs[id].owner] # Resting /\ worker'[jobs[id].owner].id = id
    BY DEF OwnerWorks, Live
  <2>1. CASE jobs[id].owner = w
    BY <2>1 DEF OwnerWorks
  <2>2. CASE jobs[id].owner # w
    <3>1. jobs[id].owner # None => jobs[id].owner \in Workers
      BY JobShape DEF TypeInv, Live, Job
    <3> QED
      BY <2>2, <3>1 DEF OwnerWorks
  <2> QED
    BY <2>1, <2>2
<1> QED
  BY <1>3, <1>4 DEF StallsAreFaults

\* The only job a worker may own is the one it works on, which then is active.
LEMMA OwnJob ==
  ASSUME TypeInv, OwnerWorks, NEW w \in Workers, worker[w] # Resting
  PROVE  /\ worker[w].id \in JobIds /\ jobs[worker[w].id] \in Job \cup {Done} /\ w # None
         /\ \A i \in JobIds : Live(i) /\ jobs[i].owner = w =>
              i = worker[w].id /\ jobs[i] \in Job /\ jobs[i] # Done /\ jobs[i].state = "active"
         /\ jobs[worker[w].id] # Done => jobs[worker[w].id] \in Job /\ Live(worker[w].id)
<1>1. worker[w].id \in JobIds /\ jobs[worker[w].id] \in Job \cup {Done} /\ w # None
  BY WorkerShape, WorkersAssumption
<1>2. jobs[worker[w].id] # Done => jobs[worker[w].id] \in Job /\ Live(worker[w].id)
  BY <1>1 DEF Live, Job
<1>3. ASSUME NEW i \in JobIds, Live(i), jobs[i].owner = w
      PROVE  i = worker[w].id /\ jobs[i] \in Job /\ jobs[i] # Done /\ jobs[i].state = "active"
  <2>1. jobs[i] \in Job /\ jobs[i] # Done
    BY <1>3, JobShape DEF TypeInv, Live, Done
  <2> QED
    BY <1>1, <1>3, <2>1 DEF OwnerWorks
<1> QED
  BY <1>1, <1>2, <1>3

\* What a worker leaves behind: a job without an owner, or none.
LEMMA LeaveKeeps ==
  ASSUME TypeInv, OfTheCalls, OwnerWorks, StallsAreFaults, NEW w \in Workers,
         worker' = [worker EXCEPT ![w] = Resting],
         \A i \in JobIds :
           \/ jobs'[i] = jobs[i] /\ (Live(i) => jobs[i].owner # w)
           \/ jobs'[i] = Done
           \/ /\ Live(i) /\ jobs'[i].action = jobs[i].action /\ jobs'[i].owner = None
              /\ jobs'[i].state = "waiting" \/ (jobs'[i].state = "stalled" /\ "crash" \in env.plan),
         UNCHANGED <<actionOf, rows, received, retrier, manual>>, env'.plan = env.plan
  PROVE  OfTheCalls' /\ OwnerWorks' /\ StallsAreFaults'
<1>1. Events' = Events /\ Done.state = "done" /\ Resting.step = "idle"
  BY DEF Events, Done, Resting
<1>2. \A v \in Workers : (v # w => worker'[v] = worker[v]) /\ worker'[w] = Resting
  BY DEF TypeInv, TypeOK
<1>3. \A v \in Workers : Sending(v)' => Sending(v) /\ worker'[v].action = worker[v].action
  BY <1>1, <1>2 DEF Sending
<1>4. OfTheCalls'
  BY <1>1, <1>3 DEF OfTheCalls, Live
<1>5. OwnerWorks'
  <2> SUFFICES ASSUME NEW id \in JobIds, Live(id)'
               PROVE  /\ jobs'[id].state = "active" <=> jobs'[id].owner # None
                      /\ jobs'[id].owner # None =>
                           worker'[jobs'[id].owner] # Resting /\ worker'[jobs'[id].owner].id = id
    BY DEF OwnerWorks
  <2>1. CASE jobs'[id] = jobs[id] /\ (Live(id) => jobs[id].owner # w)
    <3>1. Live(id)
      BY <2>1 DEF Live
    <3>2. jobs[id].owner # None => jobs[id].owner \in Workers
      BY <3>1, JobShape DEF TypeInv, Live, Job
    <3> QED
      BY <1>2, <2>1, <3>1, <3>2 DEF OwnerWorks
  <2> QED
    BY <1>1, <2>1 DEF Live
<1>6. StallsAreFaults'
  BY <1>1 DEF StallsAreFaults
<1> QED
  BY <1>4, <1>5, <1>6

\* Every step keeps events, owners and stalls.
LEMMA StructureStep ==
  ASSUME TypeInv, OfTheCalls, OwnerWorks, StallsAreFaults, [Next]_vars
  PROVE  OfTheCalls' /\ OwnerWorks' /\ StallsAreFaults'
<1> USE DEF callVars, retryVars
<1>0. /\ TypeOK /\ worker \in [Workers -> Busy \cup {Resting}] /\ jobs \in [JobIds -> Job \cup {NoJob, Done}]
      /\ env'.plan = env.plan
      /\ Resting.step = "idle" /\ NoJob.state = "none" /\ Done.state = "done"
  BY StepShape DEF TypeInv, TypeOK, Resting, NoJob, Done
<1>1. ASSUME NEW c \in Calls, CallStep(c) \/ DispatchReadFail(c)
      PROVE  OfTheCalls' /\ OwnerWorks' /\ StallsAreFaults'
  <2>1. CASE DispatchAdd(c)
    <3>1. actionOf[c] \in Events
      BY DEF Events
    <3> QED
      BY <1>0, <2>1, <3>1, QueuedKeeps DEF DispatchAdd
  <2>2. CASE DispatchRead(c) \/ DispatchReadFail(c)
    BY <1>0, <2>2, SameKeeps DEF DispatchRead, DispatchReadFail
  <2> QED
    BY <1>1, <2>1, <2>2 DEF CallStep
<1>2. ASSUME NEW w \in Workers, NEW id \in JobIds, Take(w, id)
      PROVE  OfTheCalls' /\ OwnerWorks' /\ StallsAreFaults'
  <2>1. /\ jobs[id] \in Job /\ jobs[id].state = "waiting" /\ Live(id) /\ worker[w] = Resting /\ w # None
        /\ jobs'[id].state = "active" /\ jobs'[id].owner = w /\ jobs'[id].action = jobs[id].action
        /\ \A i \in JobIds : i # id => jobs'[i] = jobs[i]
        /\ worker'[w].step = "send" /\ worker'[w].id = id /\ worker'[w].action = jobs[id].action
        /\ worker'[w] # Resting
        /\ \A v \in Workers : v # w => worker'[v] = worker[v]
    <3>1. jobs[id] \in Job
      BY <1>0, <1>2, JobShape DEF Take
    <3>2. jobs' = [jobs EXCEPT ![id] = [jobs[id] EXCEPT !.state = "active", !.owner = w]]
      BY <1>2 DEF Take
    <3>3. worker' = [worker EXCEPT ![w] = [step |-> "send", id |-> id, action |-> jobs[id].action,
                                           row |-> jobs[id].row, ok |-> FALSE]]
      BY <1>2 DEF Take
    <3> QED
      BY <1>0, <1>2, <3>1, <3>2, <3>3, WorkersAssumption DEF Take, Live, Job, Resting
  <2>2. UNCHANGED <<actionOf, rows, received, retrier, manual>>
    BY <1>2 DEF Take
  <2>3. OfTheCalls'
    BY <2>1, <2>2 DEF OfTheCalls, Live, Sending, Events
  <2>4. OwnerWorks'
    <3> SUFFICES ASSUME NEW i \in JobIds, i # id, Live(i)
                 PROVE  /\ jobs[i].state = "active" <=> jobs[i].owner # None
                        /\ jobs[i].owner # None =>
                             worker'[jobs[i].owner] # Resting /\ worker'[jobs[i].owner].id = i
      BY <2>1 DEF OwnerWorks, Live
    <3>1. jobs[i].owner # None => jobs[i].owner \in Workers
      BY <1>0, JobShape DEF Live, Job
    <3> QED
      BY <2>1, <3>1 DEF OwnerWorks
  <2>5. StallsAreFaults'
    BY <1>0, <2>1 DEF StallsAreFaults
  <2> QED
    BY <2>3, <2>4, <2>5
<1>3. ASSUME NEW w \in Workers, WorkerStep(w) \/ WorkerFault(w)
      PROVE  OfTheCalls' /\ OwnerWorks' /\ StallsAreFaults'
  <2>1. CASE Send(w) \/ FindRow(w)
    <3>1. worker[w] \in AtWork /\ UNCHANGED <<actionOf, jobs, rows, retrier, manual>>
      BY <2>1, WorkerShape DEF Send, FindRow
    <3>2. /\ \A v \in Workers : v # w => worker'[v] = worker[v]
          /\ worker'[w].id = worker[w].id /\ worker'[w].action = worker[w].action
          /\ worker'[w].step \in {"find", "write"}
      BY <1>0, <2>1, <3>1 DEF Send, FindRow, AtWork
    <3>3. Sending(w) /\ worker[w].action \in Events
      BY <3>1 DEF Sending, OfTheCalls, AtWork
    <3>4. received' \subseteq received \cup {worker[w].action}
      BY <2>1 DEF Send, FindRow
    <3> QED
      BY <1>0, <3>1, <3>2, <3>3, <3>4, ProgressKeeps DEF OfTheCalls
  <2>2. CASE WriteRow(w) \/ SignFail(w) \/ LogFail(w)
    <3>1. worker[w] \in AtWork /\ UNCHANGED <<actionOf, jobs, received, retrier, manual>>
      BY <2>2, WorkerShape DEF WriteRow, SignFail, LogFail
    <3>2. /\ \A v \in Workers : v # w => worker'[v] = worker[v]
          /\ worker'[w].id = worker[w].id /\ worker'[w].step = "end"
      BY <1>0, <2>2 DEF WriteRow, SignFail, LogFail, Finished
    <3>3. \A i \in DOMAIN rows' : rows'[i].action \in Events
      <4>1. CASE WriteRow(w)
        BY <3>1, <4>1, Written DEF OfTheCalls, Sending, AtWork
      <4>2. CASE SignFail(w) \/ LogFail(w)
        BY <4>2 DEF SignFail, LogFail, OfTheCalls
      <4> QED
        BY <2>2, <4>1, <4>2
    <3> QED
      BY <1>0, <3>1, <3>2, <3>3, ProgressKeeps DEF Sending
  <2>3. CASE End(w)
    <3>1. worker[w] # Resting /\ worker[w] \in AtEnd
      BY <1>0, <2>3, WorkerShape DEF End
    <3>2. \A i \in JobIds :
            \/ jobs'[i] = jobs[i] /\ (Live(i) => jobs[i].owner # w)
            \/ /\ i = worker[w].id /\ jobs[i] \in Job /\ Live(i)
               /\ jobs'[i] = AfterRun(worker[w].id, worker[w].ok)
      BY <1>0, <2>3, <3>1, OwnJob DEF End
    <3>3. \A i \in JobIds : jobs[i] \in Job =>
            \/ AfterRun(i, worker[w].ok) = Done
            \/ /\ AfterRun(i, worker[w].ok).state = "waiting" /\ AfterRun(i, worker[w].ok).owner = None
               /\ AfterRun(i, worker[w].ok).action = jobs[i].action
      BY DEF AfterRun, Job
    <3>4. \A i \in JobIds :
            \/ jobs'[i] = jobs[i] /\ (Live(i) => jobs[i].owner # w)
            \/ jobs'[i] = Done
            \/ Live(i) /\ jobs'[i].action = jobs[i].action /\ jobs'[i].owner = None /\ jobs'[i].state = "waiting"
      BY <3>2, <3>3
    <3> QED
      BY <1>0, <2>3, <3>4, LeaveKeeps DEF End
  <2>4. CASE Crash(w)
    <3>1. worker[w] # Resting /\ "crash" \in env.plan
      BY <2>4 DEF Crash, Fault
    <3> DEFINE new == [jobs[worker[w].id] EXCEPT !.state = "stalled", !.owner = None]
    <3>2. jobs' = IF jobs[worker[w].id] # Done /\ jobs[worker[w].id].owner = w
                   THEN [jobs EXCEPT ![worker[w].id] = new] ELSE jobs
      BY <2>4 DEF Crash
    <3>3. jobs[worker[w].id] \in Job =>
            new.state = "stalled" /\ new.owner = None /\ new.action = jobs[worker[w].id].action
      BY DEF Job
    <3> HIDE DEF new
    <3>4. \A i \in JobIds :
            \/ jobs'[i] = jobs[i] /\ (Live(i) => jobs[i].owner # w)
            \/ /\ i = worker[w].id /\ jobs[i] \in Job /\ Live(i)
               /\ jobs'[i] = new
      BY <1>0, <3>1, <3>2, OwnJob
    <3> QED
      BY <1>0, <2>4, <3>1, <3>3, <3>4, LeaveKeeps DEF Crash
  <2> QED
    BY <1>3, <2>1, <2>2, <2>3, <2>4 DEF WorkerStep, WorkerFault
<1>4. ASSUME NEW id \in JobIds, Stall(id) \/ Requeue(id)
      PROVE  OfTheCalls' /\ OwnerWorks' /\ StallsAreFaults'
  <2>1. jobs[id] \in Job /\ Live(id) /\ UNCHANGED <<actionOf, worker, rows, received, retrier, manual>>
    BY <1>0, <1>4, JobShape DEF Stall, Requeue, Live
  <2>2. /\ \A i \in JobIds : i # id => jobs'[i] = jobs[i]
        /\ \/ jobs'[id] = Done
           \/ /\ jobs'[id].action = jobs[id].action /\ jobs'[id].owner = None
              /\ jobs'[id].state = "waiting" \/ (jobs'[id].state = "stalled" /\ "stall" \in env.plan)
    <3>1. CASE Stall(id)
      <4>1. jobs' = [jobs EXCEPT ![id] = [jobs[id] EXCEPT !.state = "stalled", !.owner = None]]
        BY <3>1 DEF Stall
      <4> QED
        BY <1>0, <2>1, <3>1, <4>1 DEF Stall, Fault, Job
    <3>2. CASE Requeue(id)
      <4>1. jobs[id].owner = None
        BY <2>1, <3>2 DEF Requeue, OwnerWorks
      <4> QED
        BY <1>0, <2>1, <3>2, <4>1 DEF Requeue, Job
    <3> QED
      BY <1>4, <3>1, <3>2
  <2>3. OfTheCalls'
    BY <1>0, <2>1, <2>2 DEF OfTheCalls, Live, Sending, Events
  <2>4. OwnerWorks'
    BY <1>0, <2>1, <2>2 DEF OwnerWorks, Live
  <2>5. StallsAreFaults'
    BY <1>0, <2>2 DEF StallsAreFaults
  <2> QED
    BY <2>3, <2>4, <2>5
<1>5. ASSUME NEW r \in Retriers, RetryStart(r) \/ RetryStep(r)
      PROVE  OfTheCalls' /\ OwnerWorks' /\ StallsAreFaults'
  <2>0. \A s \in Retriers : s # r => retrier'[s] = retrier[s]
    BY <1>0, <1>5 DEF RetryStart, RetryStep, RetryReadFailed, RetryReadSucceeded, RetryQueue, TypeOK
  <2>1. CASE RetryStart(r)
    <3>1. retrier'[r].step = "failed"
      BY <1>0, <2>1 DEF RetryStart, TypeOK
    <3> QED
      BY <1>0, <2>0, <2>1, <3>1, SameKeeps DEF RetryStart
  <2>2. CASE RetryReadFailed(r)
    <3>1. retrier'[r] = Resting \/ (retrier'[r].step = "succeeded" /\ retrier'[r].failed \subseteq Events)
      <4> DEFINE failed == {rows[i].action : i \in {k \in DOMAIN rows : ~rows[k].success}}
      <4>1. failed \subseteq Events
        BY DEF OfTheCalls
      <4>2. retrier'[r] = Resting \/ retrier'[r] = [step |-> "succeeded", active |-> retrier[r].active, failed |-> failed]
        BY <1>0, <2>2 DEF RetryReadFailed, TypeOK
      <4> HIDE DEF failed
      <4> QED
        BY <4>1, <4>2
    <3> QED
      BY <1>0, <2>0, <2>2, <3>1, SameKeeps DEF RetryReadFailed
  <2>3. CASE RetryReadSucceeded(r)
    <3>1. retrier'[r] = Resting \/ (retrier'[r].step = "queue" /\ retrier'[r].action \in Events)
      BY <1>0, <2>3 DEF RetryReadSucceeded, TypeOK, OfTheCalls
    <3> QED
      BY <1>0, <2>0, <2>3, <3>1, SameKeeps DEF RetryReadSucceeded
  <2>4. CASE RetryQueue(r)
    <3>1. retrier'[r] = Resting /\ retrier[r].action \in Events
      BY <1>0, <2>4 DEF RetryQueue, TypeOK, OfTheCalls
    <3>2. CASE retrier[r].active
      BY <1>0, <2>0, <2>4, <3>1, <3>2, QueuedKeeps DEF RetryQueue
    <3>3. CASE ~retrier[r].active
      BY <1>0, <2>0, <2>4, <3>1, <3>3, SameKeeps DEF RetryQueue
    <3> QED
      BY <3>2, <3>3
  <2> QED
    BY <1>5, <2>1, <2>2, <2>3, <2>4 DEF RetryStep
<1>6. ASSUME NEW i \in DOMAIN rows, ManualRead(i)
      PROVE  OfTheCalls' /\ OwnerWorks' /\ StallsAreFaults'
  <2>1. manual'.step = "queue" /\ manual'.action \in Events
    BY <1>6 DEF ManualRead, OfTheCalls
  <2> QED
    BY <1>0, <1>6, <2>1, SameKeeps DEF ManualRead
<1>7. CASE ManualAdd
  <2>1. manual.action \in Events
    BY <1>7 DEF ManualAdd, OfTheCalls
  <2> QED
    BY <1>0, <1>7, <2>1, QueuedKeeps DEF ManualAdd
<1>8. CASE SwitchEndpoint
  BY <1>0, <1>8, SameKeeps DEF SwitchEndpoint
<1>9. CASE UNCHANGED vars
  BY <1>0, <1>9, SameKeeps DEF vars
<1> QED
  BY <1>1, <1>2, <1>3, <1>4, <1>5, <1>6, <1>7, <1>8, <1>9 DEF Next

\* The setting stays, and what was recorded stays recorded.
LEMMA SettingStays ==
  ASSUME TypeInv, [Next]_vars
  PROVE  /\ Quiet' = Quiet /\ FewFaults' = FewFaults /\ UNCHANGED actionOf
         /\ Recorded => Recorded'
<1>1. UNCHANGED actionOf
  BY DEF Next, vars, callVars, retryVars, CallStep, WorkerStep, WorkerFault, RetryStep, DispatchRead, DispatchAdd,
     DispatchReadFail, Take, SignFail, Send, FindRow, WriteRow, LogFail, End, Crash, Stall, Requeue,
     RetryStart, RetryReadFailed, RetryReadSucceeded, RetryQueue, ManualRead, ManualAdd, SwitchEndpoint
<1>2. env'.plan = env.plan /\ received \subseteq received'
  BY StepShape
<1>3. Len(rows) \in Nat
  BY DEF TypeInv, TypeOK
<1>4. Len(rows) > 0 => Len(rows') > 0
  <2>1. CASE rows' = rows
    BY <2>1
  <2>2. ASSUME NEW w \in Workers, WriteRow(w)
        PROVE  Len(rows) > 0 => Len(rows') > 0
    BY <1>3, <2>2, Written
  <2> QED
    BY <2>1, <2>2, StepShape
<1> QED
  BY <1>1, <1>2, <1>4 DEF Quiet, OneEvent, Relayed, FewFaults, Recorded

\* The cost of a job is a number.
LEMMA CostType ==
  ASSUME NEW queue \in [JobIds -> Job \cup {NoJob, Done}], NEW id \in JobIds,
         queue[id].state \in {"waiting", "active", "stalled"}
  PROVE  /\ queue[id] \in Job /\ queue[id].stalls \in 0..1
         /\ queue[id].left \in 0..Attempts /\ Attempts - queue[id].left \in Nat
  BY BoundsAssumption DEF Job, NoJob, Done

\* Costs that grow by the faults of the step stay within the faults.
LEMMA CostKept ==
  ASSUME TypeInv, TypeInv', AttemptsCost,
         \A id \in JobIds : Live(id)' =>
           \/ Spent(id)' = 0
           \/ Live(id) /\ Spent(id)' = Spent(id) /\ env'.faults <= env.faults
           \/ Live(id) /\ Spent(id)' = Spent(id) + 1 /\ env'.faults = env.faults - 1
  PROVE  AttemptsCost'
<1>1. /\ env.faults \in 0..MaxFaults /\ env'.faults \in 0..MaxFaults /\ MaxFaults \in Nat
      /\ jobs \in [JobIds -> Job \cup {NoJob, Done}] /\ Attempts \in Nat
  BY BoundsAssumption DEF TypeInv, TypeOK
<1> SUFFICES ASSUME NEW id \in JobIds, Live(id)'
             PROVE  Spent(id)' <= MaxFaults - env'.faults
  BY DEF AttemptsCost
<1>2. CASE Spent(id)' = 0
  BY <1>1, <1>2
<1>3. CASE Live(id) /\ Spent(id)' \in {Spent(id), Spent(id) + 1}
  <2>1. Spent(id) \in Nat
    <3>1. jobs[id].stalls \in 0..1 /\ Attempts - jobs[id].left \in Nat
      BY <1>1, <1>3, CostType DEF Live
    <3> QED
      BY <3>1 DEF Spent
  <2>2. Spent(id) <= MaxFaults - env.faults
    BY <1>3 DEF AttemptsCost
  <2> QED
    BY <1>1, <1>3, <2>1, <2>2
<1> QED
  BY <1>2, <1>3

\* Nothing is done to jobs and workers but that a job may be queued, and retries find
\* nothing.
LEMMA IdleKeeps ==
  ASSUME TypeInv, TypeInv', Unrecorded, OwnerWorks, UNCHANGED worker, env'.faults <= env.faults,
         \A id \in JobIds :
           \/ jobs'[id] = jobs[id]
           \/ /\ jobs'[id].state = "waiting" /\ jobs'[id].owner = None /\ jobs'[id].row = 0
              /\ jobs'[id].left = Attempts /\ jobs'[id].stalls = 0,
         \A r \in Retriers : retrier'[r] = retrier[r] \/ retrier'[r].step \in {"idle", "failed"},
         manual' = manual \/ manual' = Resting
  PROVE  Unrecorded'
<1>1. Resting.step = "idle" /\ Attempts - Attempts = 0
  BY BoundsAssumption DEF Resting
<1>2. NothingToRetry'
  BY <1>1 DEF Unrecorded, NothingToRetry, Live, Sending
<1>3. NoneSucceeded'
  BY DEF Unrecorded, NoneSucceeded
<1>4. AttemptsCost'
  <2>1. ASSUME NEW id \in JobIds, Live(id)'
        PROVE  Spent(id)' = 0 \/ (Live(id) /\ Spent(id)' = Spent(id))
    <3>1. CASE jobs'[id] = jobs[id]
      BY <2>1, <3>1 DEF Live, Spent, AtEndOf
    <3>2. CASE /\ jobs'[id].state = "waiting" /\ jobs'[id].left = Attempts /\ jobs'[id].stalls = 0
      BY <1>1, <3>2 DEF Spent, AtEndOf
    <3> QED
      BY <3>1, <3>2
  <2> QED
    BY <2>1, CostKept DEF Unrecorded
<1> QED
  BY <1>2, <1>3, <1>4 DEF Unrecorded

\* A worker goes on with a job whose attempt has not succeeded; one that comes to its end
\* without a row in the log has met a fault.
LEMMA AttemptKeeps ==
  ASSUME TypeInv, TypeInv', Unrecorded, OwnerWorks, NEW w \in Workers, Sending(w),
         \A v \in Workers : v # w => worker'[v] = worker[v],
         worker'[w] # Resting, ~worker'[w].ok, Sending(w)' => worker'[w].row = 0,
         \/ worker'[w].step # "end" /\ env' = env
         \/ worker'[w].step = "end" /\ env'.faults = env.faults - 1,
         UNCHANGED <<jobs, retrier, manual>>
  PROVE  Unrecorded'
<1>1. NothingToRetry' /\ NoneSucceeded'
  BY DEF Unrecorded, NothingToRetry, NoneSucceeded, Live, Sending
<1>2. env.faults \in 0..MaxFaults /\ env'.faults \in 0..MaxFaults /\ MaxFaults \in Nat
  BY BoundsAssumption DEF TypeInv, TypeOK
<1>3. AttemptsCost'
  <2>1. ASSUME NEW id \in JobIds, Live(id)
        PROVE  \/ Spent(id)' = Spent(id)
               \/ Spent(id)' = Spent(id) + 1 /\ env'.faults = env.faults - 1
    <3>1. jobs[id] \in Job /\ jobs[id].stalls \in 0..1 /\ Attempts - jobs[id].left \in Nat
      BY <2>1, CostType DEF TypeInv, TypeOK, Live
    <3>2. jobs[id].state = "active" => jobs[id].owner \in Workers
      BY <2>1, <3>1 DEF OwnerWorks, Job
    <3>3. CASE jobs[id].state = "active" /\ jobs[id].owner = w
      <4>1. ~AtEndOf(id)
        BY <3>3 DEF AtEndOf, Sending
      <4> QED
        BY <3>1, <3>3, <4>1 DEF Spent, AtEndOf
    <3>4. CASE ~(jobs[id].state = "active" /\ jobs[id].owner = w)
      BY <3>2, <3>4 DEF Spent, AtEndOf
    <3> QED
      BY <3>3, <3>4
  <2>2. env'.faults <= env.faults
    BY <1>2
  <2>3. \A id \in JobIds : Live(id)' = Live(id)
    BY DEF Live
  <2> QED
    BY <2>1, <2>2, <2>3, CostKept DEF Unrecorded
<1> QED
  BY <1>1, <1>3 DEF Unrecorded

\* A worker leaves its job, which pays for its attempt or its death.
LEMMA GoneKeeps ==
  ASSUME TypeInv, TypeInv', Unrecorded, OwnerWorks, NEW w \in Workers,
         worker' = [worker EXCEPT ![w] = Resting],
         \A i \in JobIds :
           \/ jobs'[i] = jobs[i] /\ (Live(i) => jobs[i].owner # w)
           \/ jobs'[i] = Done
           \/ /\ Live(i) /\ jobs'[i].row = jobs[i].row
              /\ \/ Spent(i)' = Spent(i)
                 \/ Spent(i)' = Spent(i) + 1 /\ env'.faults = env.faults - 1,
         env' = env \/ env'.faults = env.faults - 1,
         UNCHANGED <<retrier, manual>>
  PROVE  Unrecorded'
<1>1. Done.state = "done" /\ Resting.step = "idle"
  BY DEF Done, Resting
<1>2. \A v \in Workers : (v # w => worker'[v] = worker[v]) /\ worker'[w] = Resting
  BY DEF TypeInv, TypeOK
<1>3. NothingToRetry' /\ NoneSucceeded'
  BY <1>1, <1>2 DEF Unrecorded, NothingToRetry, NoneSucceeded, Live, Sending
<1>4. env'.faults <= env.faults
  BY BoundsAssumption DEF TypeInv, TypeOK
<1>5. AttemptsCost'
  <2>1. ASSUME NEW id \in JobIds, Live(id)', jobs'[id] = jobs[id], Live(id) => jobs[id].owner # w
        PROVE  Live(id) /\ Spent(id)' = Spent(id)
    <3>1. Live(id)
      BY <2>1 DEF Live
    <3>2. jobs[id] \in Job /\ (jobs[id].state = "active" => jobs[id].owner \in Workers \ {w})
      BY <2>1, <3>1, JobShape DEF TypeInv, Live, OwnerWorks, Job
    <3> QED
      BY <1>2, <2>1, <3>1, <3>2 DEF Spent, AtEndOf
  <2>2. \A id \in JobIds : Live(id)' => jobs'[id] # Done
    BY <1>1 DEF Live
  <2> QED
    BY <1>4, <2>1, <2>2, CostKept DEF Unrecorded
<1> QED
  BY <1>3, <1>5 DEF Unrecorded

\* While nothing is recorded, every step keeps it so that nothing can be retried, that
\* attempts cost faults, and that no job is through.
LEMMA UnrecordedStep ==
  ASSUME TypeInv, TypeInv', OwnerWorks, StallsAreFaults, Unrecorded, Quiet, ~Recorded', [Next]_vars
  PROVE  Unrecorded' /\ (FewFaults /\ NoneDone => NoneDone')
<1> USE DEF callVars, retryVars
<1>0. /\ worker \in [Workers -> Busy \cup {Resting}] /\ jobs \in [JobIds -> Job \cup {NoJob, Done}]
      /\ env.faults \in 0..MaxFaults /\ MaxFaults \in Nat /\ Attempts \in Nat \ {0}
      /\ Resting.step = "idle" /\ NoJob.state = "none" /\ Done.state = "done" /\ NoJob # Done
      /\ env \in [plan : SUBSET (FaultKinds \cup UseKinds), faults : 0..MaxFaults, retries : 0..MaxRetries]
  BY BoundsAssumption DEF TypeInv, TypeOK, Resting, NoJob, Done
<1>a. ~Recorded /\ DOMAIN rows = {} /\ received' = {} /\ Len(rows') \in Nat /\ Len(rows') = 0
  <2>1. ~Recorded
    BY SettingStays
  <2>2. rows \in Seq(Row) /\ rows' \in Seq(Row) /\ Len(rows) \in Nat /\ Len(rows') \in Nat
    BY DEF TypeInv, TypeOK
  <2>3. Len(rows) = 0 /\ Len(rows') = 0 /\ received' = {}
    BY <2>1, <2>2 DEF Recorded
  <2>4. DOMAIN rows = 1..Len(rows)
    BY <2>2
  <2> QED
    BY <2>1, <2>2, <2>3, <2>4
<1>b. ASSUME NEW f, Fault(f)
      PROVE  env'.faults = env.faults - 1 /\ f # "signFail"
  BY <1>0, <1>b DEF Fault, Quiet
<1>c. ASSUME NEW u, Retry(u)
      PROVE  env'.faults <= env.faults
  BY <1>0, <1>c DEF Retry
<1>1. ASSUME NEW c \in Calls, CallStep(c) \/ DispatchReadFail(c)
      PROVE  Unrecorded' /\ (NoneDone => NoneDone')
  <2>1. CASE DispatchAdd(c)
    <3>1. \A id \in JobIds :
            \/ jobs'[id] = jobs[id]
            \/ jobs'[id] = [state |-> "waiting", owner |-> None, action |-> actionOf[c],
                            row |-> 0, left |-> Attempts, stalls |-> 0]
      BY <2>1, QueuedShape DEF DispatchAdd
    <3>2. \A id \in JobIds :
            \/ jobs'[id] = jobs[id]
            \/ /\ jobs'[id].state = "waiting" /\ jobs'[id].owner = None /\ jobs'[id].row = 0
               /\ jobs'[id].left = Attempts /\ jobs'[id].stalls = 0
      BY <3>1
    <3>3. UNCHANGED <<worker, retrier, manual, env>>
      BY <2>1 DEF DispatchAdd
    <3>4. env'.faults <= env.faults
      BY <1>0, <3>3
    <3> QED
      BY <1>0, <3>2, <3>3, <3>4, IdleKeeps DEF NoneDone
  <2>2. CASE DispatchRead(c)
    <3>1. UNCHANGED <<jobs, worker, retrier, manual, env>>
      BY <2>2 DEF DispatchRead
    <3> QED
      BY <1>0, <3>1, IdleKeeps DEF NoneDone
  <2>3. CASE DispatchReadFail(c)
    <3>1. UNCHANGED <<jobs, worker, retrier, manual>> /\ env'.faults <= env.faults
      BY <1>0, <1>b, <2>3 DEF DispatchReadFail
    <3> QED
      BY <3>1, IdleKeeps DEF NoneDone
  <2> QED
    BY <1>1, <2>1, <2>2, <2>3 DEF CallStep
<1>2. ASSUME NEW w \in Workers, NEW id \in JobIds, Take(w, id)
      PROVE  Unrecorded' /\ (NoneDone => NoneDone')
  <2>1. jobs[id] \in Job /\ jobs[id].state = "waiting" /\ worker[w] = Resting
        /\ jobs[id].stalls \in 0..1 /\ Attempts - jobs[id].left \in Nat
    BY <1>0, <1>2, CostType DEF Take
  <2>2. /\ jobs'[id] = [jobs[id] EXCEPT !.state = "active", !.owner = w]
        /\ \A i \in JobIds : i # id => jobs'[i] = jobs[i]
        /\ worker'[w] = [step |-> "send", id |-> id, action |-> jobs[id].action,
                         row |-> jobs[id].row, ok |-> FALSE]
        /\ \A v \in Workers : v # w => worker'[v] = worker[v]
        /\ UNCHANGED <<retrier, manual, env>>
    BY <1>0, <1>2 DEF Take
  <2>3. /\ jobs'[id].state = "active" /\ jobs'[id].owner = w /\ jobs'[id].row = jobs[id].row
        /\ jobs'[id].left = jobs[id].left /\ jobs'[id].stalls = jobs[id].stalls
        /\ worker'[w].step = "send" /\ worker'[w].row = jobs[id].row /\ worker'[w].ok = FALSE
    BY <2>1, <2>2 DEF Job
  <2>4. NothingToRetry' /\ NoneSucceeded'
    BY <2>1, <2>2, <2>3 DEF Unrecorded, NothingToRetry, NoneSucceeded, Live, Sending
  <2>5. AttemptsCost'
    <3>1. Live(id) /\ Spent(id)' = Spent(id)
      BY <2>1, <2>3 DEF Live, Spent, AtEndOf
    <3>2. ASSUME NEW i \in JobIds, i # id, Live(i)'
          PROVE  Live(i) /\ Spent(i)' = Spent(i)
      <4>1. Live(i) /\ jobs[i] \in Job /\ jobs'[i] = jobs[i]
        BY <1>0, <2>2, <3>2, JobShape DEF TypeInv, Live
      <4>2. jobs[i].state = "active" => jobs[i].owner \in Workers /\ jobs[i].owner # w
        BY <2>1, <4>1 DEF OwnerWorks, Job
      <4> QED
        BY <2>2, <4>1, <4>2 DEF Spent, AtEndOf
    <3> QED
      BY <1>0, <2>2, <3>1, <3>2, CostKept DEF Unrecorded
  <2>6. NoneDone => NoneDone'
    BY <1>0, <2>2, <2>3 DEF NoneDone
  <2> QED
    BY <2>4, <2>5, <2>6 DEF Unrecorded
<1>3. ASSUME NEW w \in Workers, WorkerStep(w) \/ WorkerFault(w)
      PROVE  Unrecorded' /\ (FewFaults /\ NoneDone => NoneDone')
  <2>1. CASE Send(w) \/ FindRow(w) \/ LogFail(w)
    <3>1. worker[w] \in AtWork /\ Sending(w) /\ UNCHANGED <<jobs, retrier, manual>> /\ worker[w] # Resting
      BY <1>0, <2>1, WorkerShape DEF Send, FindRow, LogFail, Sending
    <3>2. worker[w].row = 0 /\ worker[w].ok = FALSE
      BY <3>1 DEF Unrecorded, NothingToRetry, NoneSucceeded, AtWork
    <3>3. \A v \in Workers : v # w => worker'[v] = worker[v]
      BY <1>0, <2>1 DEF Send, FindRow, LogFail
    <3>4. /\ worker'[w].step # "idle" /\ worker'[w].ok = FALSE
          /\ worker'[w].step # "end" => worker'[w].row = 0 /\ env' = env
          /\ worker'[w].step = "end" => env'.faults = env.faults - 1
      <4>1. CASE Send(w)
        <5>1. PICK arrives, ok \in BOOLEAN :
                /\ ok => arrives
                /\ worker' = [worker EXCEPT ![w] = [worker[w] EXCEPT !.step = "find", !.ok = ok]]
                /\ received' = IF arrives THEN received \cup {worker[w].action} ELSE received
          BY <4>1 DEF Send, Quiet
        <5>2. ~arrives /\ ok = FALSE
          BY <1>a, <5>1
        <5> QED
          BY <1>0, <3>1, <3>2, <4>1, <5>1, <5>2 DEF AtWork, Send
      <4>2. CASE FindRow(w)
        <5>1. Len(rows) = 0
          BY <1>a DEF Recorded, TypeInv, TypeOK
        <5> QED
          BY <1>0, <3>1, <3>2, <4>2, <5>1 DEF AtWork, FindRow
      <4>3. CASE LogFail(w)
        BY <1>0, <1>b, <3>1, <3>2, <4>3 DEF LogFail, Finished
      <4> QED
        BY <2>1, <4>1, <4>2, <4>3
    <3>5. worker'[w] # Resting
      BY <1>0, <3>4
    <3>6. Unrecorded'
      BY <3>1, <3>3, <3>4, <3>5, AttemptKeeps DEF Sending
    <3> QED
      BY <3>1, <3>6 DEF NoneDone
  <2>2. ~WriteRow(w)
    <3>1. ASSUME WriteRow(w)
          PROVE  FALSE
      <4>1. worker[w].row = 0
        BY <3>1, Written DEF Unrecorded, NothingToRetry, Sending
      <4>2. Len(rows') = Len(rows) + 1 /\ Len(rows) \in Nat
        BY <3>1, <4>1, Written DEF TypeInv, TypeOK
      <4> QED
        BY <1>a, <4>2
    <3> QED
      BY <3>1
  <2>3. ~SignFail(w)
    BY <1>b DEF SignFail
  <2>4. CASE End(w)
    <3>1. worker[w] # Resting /\ worker[w] \in AtEnd
      BY <1>0, <2>4, WorkerShape DEF End
    <3>2. worker[w].ok = FALSE /\ worker[w].step = "end"
      BY <3>1 DEF Unrecorded, NoneSucceeded, AtEnd
    <3>3. \A i \in JobIds :
            \/ jobs'[i] = jobs[i] /\ (Live(i) => jobs[i].owner # w)
            \/ /\ i = worker[w].id /\ jobs[i] \in Job /\ Live(i) /\ jobs[i].owner = w
               /\ jobs'[i] = AfterRun(i, FALSE)
      <4> DEFINE new == AfterRun(worker[w].id, FALSE)
      <4>1. jobs' = IF jobs[worker[w].id] # Done /\ jobs[worker[w].id].owner = w
                     THEN [jobs EXCEPT ![worker[w].id] = new] ELSE jobs
        BY <2>4, <3>2 DEF End
      <4> HIDE DEF new
      <4>2. \A i \in JobIds :
              \/ jobs'[i] = jobs[i] /\ (Live(i) => jobs[i].owner # w)
              \/ /\ i = worker[w].id /\ jobs[i] \in Job /\ Live(i) /\ jobs[i].owner = w
                 /\ jobs'[i] = new
        BY <1>0, <3>1, <4>1, OwnJob
      <4> QED
        BY <4>2 DEF new
    <3>4. \A i \in JobIds : i = worker[w].id /\ jobs[i] \in Job /\ jobs[i].owner = w /\ Live(i) =>
            /\ jobs[i].state = "active" /\ AtEndOf(i)
            /\ jobs[i].stalls \in 0..1 /\ jobs[i].left \in 0..Attempts /\ Attempts - jobs[i].left \in Nat
      BY <1>0, <3>1, <3>2, OwnJob, CostType DEF AtEndOf, Live
    <3>5. ASSUME NEW i \in JobIds, i = worker[w].id, jobs[i] \in Job, Live(i), jobs[i].owner = w,
                 jobs'[i] = AfterRun(i, FALSE)
          PROVE  \/ jobs'[i] = Done /\ ~FewFaults
                 \/ jobs'[i].row = jobs[i].row /\ Spent(i)' = Spent(i) /\ jobs'[i] # Done
      <4>1. jobs[i].state = "active" /\ AtEndOf(i) /\ jobs[i].stalls \in 0..1 /\ jobs[i].left \in 0..Attempts
            /\ Attempts - jobs[i].left \in Nat
        BY <3>4, <3>5
      <4>2. CASE jobs[i].left <= 1
        <5>1. Spent(i) >= Attempts
          BY <1>0, <4>1, <4>2 DEF Spent
        <5>2. Spent(i) <= MaxFaults - env.faults
          BY <3>5 DEF Unrecorded, AttemptsCost
        <5>3. Spent(i) \in Nat
          BY <1>0, <4>1 DEF Spent
        <5> QED
          BY <1>0, <3>5, <4>2, <5>1, <5>2, <5>3 DEF AfterRun, FewFaults
      <4>3. CASE ~(jobs[i].left <= 1)
        <5>1. jobs'[i] = [jobs[i] EXCEPT !.state = "waiting", !.owner = None, !.left = @ - 1]
          BY <3>5, <4>3 DEF AfterRun
        <5>2. jobs'[i].state = "waiting" /\ jobs'[i].row = jobs[i].row /\ jobs'[i].left = jobs[i].left - 1
              /\ jobs'[i].stalls = jobs[i].stalls
          BY <3>5, <5>1 DEF Job
        <5> QED
          BY <1>0, <4>1, <5>2 DEF Spent, AtEndOf
      <4> QED
        BY <4>2, <4>3
    <3>6. Unrecorded'
      BY <2>4, <3>3, <3>5, GoneKeeps DEF End
    <3> QED
      BY <3>3, <3>5, <3>6 DEF NoneDone
  <2>5. CASE Crash(w)
    <3>1. worker[w] # Resting /\ env'.faults = env.faults - 1 /\ UNCHANGED <<retrier, manual>>
          /\ worker' = [worker EXCEPT ![w] = Resting]
      BY <1>b, <2>5 DEF Crash
    <3>2. \A i \in JobIds :
            \/ jobs'[i] = jobs[i] /\ (Live(i) => jobs[i].owner # w)
            \/ /\ i = worker[w].id /\ jobs[i] \in Job /\ Live(i) /\ jobs[i].owner = w
               /\ jobs'[i] = [jobs[i] EXCEPT !.state = "stalled", !.owner = None]
      <4> DEFINE new == [jobs[worker[w].id] EXCEPT !.state = "stalled", !.owner = None]
      <4>1. jobs' = IF jobs[worker[w].id] # Done /\ jobs[worker[w].id].owner = w
                     THEN [jobs EXCEPT ![worker[w].id] = new] ELSE jobs
        BY <2>5 DEF Crash
      <4> HIDE DEF new
      <4>2. \A i \in JobIds :
              \/ jobs'[i] = jobs[i] /\ (Live(i) => jobs[i].owner # w)
              \/ /\ i = worker[w].id /\ jobs[i] \in Job /\ Live(i) /\ jobs[i].owner = w
                 /\ jobs'[i] = new
        BY <1>0, <3>1, <4>1, OwnJob
      <4> QED
        BY <4>2 DEF new
    <3>3. ASSUME NEW i \in JobIds, jobs[i] \in Job, Live(i), jobs[i].owner = w,
                 jobs'[i] = [jobs[i] EXCEPT !.state = "stalled", !.owner = None]
          PROVE  /\ jobs'[i].row = jobs[i].row /\ jobs'[i] # Done
                 /\ Spent(i)' = Spent(i) \/ Spent(i)' = Spent(i) + 1
      <4>1. jobs[i].state = "active" /\ jobs[i].stalls \in 0..1 /\ Attempts - jobs[i].left \in Nat
        BY <1>0, <3>1, <3>3, OwnJob, CostType DEF Live
      <4>2. jobs'[i].state = "stalled" /\ jobs'[i].row = jobs[i].row /\ jobs'[i].left = jobs[i].left
            /\ jobs'[i].stalls = jobs[i].stalls
        BY <3>3 DEF Job
      <4> QED
        BY <1>0, <4>1, <4>2 DEF Spent, AtEndOf
    <3>4. \A i \in JobIds :
            \/ jobs'[i] = jobs[i] /\ (Live(i) => jobs[i].owner # w)
            \/ /\ Live(i) /\ jobs'[i].row = jobs[i].row /\ jobs'[i] # Done
               /\ \/ Spent(i)' = Spent(i)
                  \/ Spent(i)' = Spent(i) + 1 /\ env'.faults = env.faults - 1
      BY <3>1, <3>2, <3>3
    <3>5. Unrecorded'
      BY <3>1, <3>4, GoneKeeps
    <3> QED
      BY <3>4, <3>5 DEF NoneDone
  <2> QED
    BY <1>3, <2>1, <2>2, <2>3, <2>4, <2>5 DEF WorkerStep, WorkerFault
<1>4. ASSUME NEW id \in JobIds, Stall(id) \/ Requeue(id)
      PROVE  Unrecorded' /\ (FewFaults /\ NoneDone => NoneDone')
  <2>1. /\ jobs[id] \in Job /\ Live(id) /\ jobs[id].stalls \in 0..1 /\ Attempts - jobs[id].left \in Nat
        /\ UNCHANGED <<worker, retrier, manual>>
        /\ \A i \in JobIds : i # id => jobs'[i] = jobs[i]
    BY <1>0, <1>4, CostType DEF Stall, Requeue, Live
  <2>2. \/ jobs'[id] = Done /\ ~FewFaults /\ env' = env
        \/ /\ jobs'[id].row = jobs[id].row /\ jobs'[id] # Done
           /\ \/ Spent(id)' = Spent(id) /\ env'.faults <= env.faults
              \/ Spent(id)' = Spent(id) + 1 /\ env'.faults = env.faults - 1
    <3>1. CASE Stall(id)
      <4>1. jobs' = [jobs EXCEPT ![id] = [jobs[id] EXCEPT !.state = "stalled", !.owner = None]]
        BY <3>1 DEF Stall
      <4>2. jobs'[id].state = "stalled" /\ jobs'[id].row = jobs[id].row /\ jobs'[id].left = jobs[id].left
            /\ jobs'[id].stalls = jobs[id].stalls /\ jobs[id].state = "active"
            /\ env'.faults = env.faults - 1
        BY <1>0, <1>b, <2>1, <3>1, <4>1 DEF Stall, Job
      <4> QED
        BY <1>0, <2>1, <4>2 DEF Spent, AtEndOf
    <3>2. CASE Requeue(id) /\ jobs[id].stalls = 0
      <4>1. jobs' = [jobs EXCEPT ![id] = [jobs[id] EXCEPT !.state = "waiting", !.stalls = 1]] /\ env' = env
        BY <3>2 DEF Requeue
      <4>2. jobs'[id].state = "waiting" /\ jobs'[id].row = jobs[id].row /\ jobs'[id].left = jobs[id].left
            /\ jobs'[id].stalls = 1 /\ jobs[id].state = "stalled" /\ env'.faults <= env.faults
        BY <1>0, <2>1, <3>2, <4>1 DEF Requeue, Job
      <4> QED
        BY <1>0, <2>1, <3>2, <4>2 DEF Spent, AtEndOf
    <3>3. CASE Requeue(id) /\ jobs[id].stalls # 0
      <4>1. jobs'[id] = Done /\ env' = env /\ jobs[id].state = "stalled"
        BY <1>0, <3>3 DEF Requeue
      <4>2. Spent(id) >= 2 /\ Spent(id) \in Nat
        BY <1>0, <2>1, <3>3, <4>1 DEF Spent, AtEndOf
      <4>3. Spent(id) <= MaxFaults - env.faults
        BY <2>1 DEF Unrecorded, AttemptsCost
      <4>4. MaxFaults > 1
        BY <1>0, <4>2, <4>3
      <4> QED
        BY <1>0, <4>1, <4>4 DEF FewFaults, StallsAreFaults
    <3> QED
      BY <1>4, <2>1, <3>1, <3>2, <3>3
  <2>3. NothingToRetry' /\ NoneSucceeded'
    BY <1>0, <2>1, <2>2 DEF Unrecorded, NothingToRetry, NoneSucceeded, Live, Sending
  <2>4. AttemptsCost'
    <3>1. ASSUME NEW i \in JobIds, i # id, Live(i)'
          PROVE  Live(i) /\ Spent(i)' = Spent(i)
      BY <2>1, <3>1 DEF Live, Spent, AtEndOf
    <3>2. env'.faults <= env.faults
      BY <1>0, <2>2
    <3> QED
      BY <1>0, <2>1, <2>2, <3>1, <3>2, CostKept DEF Unrecorded, Live
  <2> QED
    BY <2>1, <2>2, <2>3, <2>4 DEF Unrecorded, NoneDone
<1>5. ASSUME NEW r \in Retriers, RetryStart(r) \/ RetryStep(r)
      PROVE  Unrecorded' /\ (NoneDone => NoneDone')
  <2>1. ~RetryReadSucceeded(r) /\ ~RetryQueue(r)
    BY DEF RetryReadSucceeded, RetryQueue, Unrecorded, NothingToRetry
  <2>2. CASE RetryStart(r) \/ RetryReadFailed(r)
    <3>1. retrier'[r].step \in {"idle", "failed"}
      BY <1>0, <1>a, <2>2 DEF RetryStart, RetryReadFailed, TypeInv, TypeOK
    <3>2. /\ \A s \in Retriers : s # r => retrier'[s] = retrier[s]
          /\ UNCHANGED <<jobs, worker, manual>>
      BY <2>2 DEF RetryStart, RetryReadFailed, TypeInv, TypeOK
    <3>3. env'.faults <= env.faults
      BY <1>0, <1>c, <2>2 DEF RetryStart, RetryReadFailed
    <3> QED
      BY <3>1, <3>2, <3>3, IdleKeeps DEF NoneDone
  <2> QED
    BY <1>5, <2>1, <2>2 DEF RetryStep
<1>6. ASSUME NEW i \in DOMAIN rows, ManualRead(i)
      PROVE  FALSE
  BY <1>a, <1>6
<1>7. ~ManualAdd
  BY DEF ManualAdd, Unrecorded, NothingToRetry
<1>8. CASE SwitchEndpoint \/ UNCHANGED vars
  <2>1. UNCHANGED <<jobs, worker, retrier, manual, env>>
    BY <1>8 DEF SwitchEndpoint, vars
  <2> QED
    BY <1>0, <2>1, IdleKeeps DEF NoneDone
<1> QED
  BY <1>1, <1>2, <1>3, <1>4, <1>5, <1>6, <1>7, <1>8 DEF Next

\* Until something is recorded every queued event is still waiting; after that it is
\* the one received or the one whose rows the log has.
LEMMA LossInvCovers ==
  ASSUME TypeInv, SuccessWasReceived, LossInv
  PROVE  NeverLost
<1> SUFFICES ASSUME Quiet, FewFaults, NEW id \in JobIds, NEW c \in Calls, jobs[id] # NoJob
             PROVE  Accounted(actionOf[c])
  BY DEF NeverLost
<1>1. \A e \in Events : e = actionOf[c]
  BY DEF Events, Quiet, OneEvent
<1>2. CASE received # {}
  BY <1>1, <1>2 DEF LossInv, OfTheCalls, Accounted
<1>3. CASE Len(rows) > 0
  <2>1. 1 \in DOMAIN rows /\ rows[1] \in Row
    BY <1>3 DEF TypeInv, TypeOK
  <2>2. rows[1].action = actionOf[c]
    BY <1>1, <2>1 DEF LossInv, OfTheCalls
  <2>3. CASE rows[1].success
    BY <2>1, <2>2, <2>3 DEF SuccessWasReceived, Quiet, Accounted
  <2>4. CASE ~rows[1].success
    BY <2>1, <2>2, <2>4 DEF Failed, Accounted
  <2> QED
    BY <2>3, <2>4
<1>4. CASE ~Recorded
  <2>1. jobs[id] # Done
    BY <1>4 DEF LossInv, NoneDone
  <2>2. Live(id)
    BY <2>1 DEF TypeInv, TypeOK, Job, Live
  <2>3. jobs[id].action = actionOf[c]
    BY <1>1, <2>2 DEF LossInv, OfTheCalls
  <2> QED
    BY <2>1, <2>3 DEF Waiting, Accounted
<1> QED
  BY <1>2, <1>3, <1>4 DEF Recorded

\* The event of a transaction that has one, sent over HTTP with a secret that can be
\* read, is waiting, received, or in the log as a failure once it was queued, as long as
\* the faults are fewer than the attempts of its job and do not stall it twice: whatever
\* workers race, rows they overwrite, retries add and endpoints answer.
\* EventuallyAccounted rests on it.
THEOREM NoneLost == Spec => []NeverLost
<1> DEFINE Inv == TypeInv /\ SuccessWasReceived /\ OutcomeTrue /\ LossInv
<1>1. Init => Inv
  <2> SUFFICES ASSUME Init PROVE Inv
    OBVIOUS
  <2>1. TypeInv
    BY TypeInit
  <2>2. /\ rows = <<>> /\ received = {} /\ Len(rows) = 0 /\ DOMAIN rows = {}
        /\ \A id \in JobIds : jobs[id].state = "none" /\ jobs[id] # Done
        /\ \A w \in Workers : worker[w] = Resting /\ worker[w].step = "idle"
        /\ \A r \in Retriers : retrier[r].step = "idle"
        /\ manual.step = "idle"
    BY DEF Init, Resting, NoJob, Done
  <2>3. LossInv
    BY <2>2 DEF LossInv, NoneDone, OfTheCalls, OwnerWorks, StallsAreFaults, Unrecorded, NothingToRetry, NoneSucceeded,
       AttemptsCost, Live, Sending
  <2> QED
    BY <2>1, <2>2, <2>3 DEF SuccessWasReceived, OutcomeTrue
<1>2. Inv /\ [Next]_vars => Inv'
  <2> SUFFICES ASSUME Inv, [Next]_vars PROVE Inv'
    OBVIOUS
  <2>1. TypeInv'
    BY TypeStep
  <2>2. SuccessWasReceived' /\ OutcomeTrue'
    BY OutcomeStep
  <2>3. OfTheCalls' /\ OwnerWorks' /\ StallsAreFaults'
    BY StructureStep DEF LossInv
  <2>4. ASSUME Quiet', ~Recorded'
        PROVE  Unrecorded' /\ (FewFaults' => NoneDone')
    <3>1. Quiet /\ ~Recorded /\ FewFaults' = FewFaults
      BY <2>4, SettingStays
    <3>2. Unrecorded /\ (FewFaults => NoneDone)
      BY <3>1 DEF LossInv, NoneDone
    <3> QED
      BY <2>1, <2>4, <3>1, <3>2, UnrecordedStep DEF LossInv
  <2>5. LossInv'
    BY <2>3, <2>4 DEF LossInv, NoneDone
  <2> QED
    BY <2>1, <2>2, <2>5
<1>3. Inv => NeverLost
  BY LossInvCovers
<1> QED
  BY <1>1, <1>2, <1>3, PTL DEF Spec
=============================================================================
