--------------------------- MODULE WebhookDelivery ---------------------------
(***************************************************************************)
(* The webhooks of one transaction to one endpoint: the dispatcher queues  *)
(* a job for each event, workers send it and write the delivery log, and   *)
(* failed deliveries are queued again by the retry of an organization and  *)
(* by hand.  Endpoints share nothing but the queue, and the log is looked  *)
(* up by transaction, endpoint and transaction type.                       *)
(*                                                                         *)
(* An event is named by its action, the status it announces.  The charge   *)
(* of a first attempt is in UsageMetering; what the endpoint answers is an *)
(* input; the pause before another attempt is not modelled, since a worker *)
(* may take a waiting job at any time.                                     *)
(***************************************************************************)
EXTENDS Integers, Sequences, FiniteSets

CONSTANTS Calls,         \* calls of dispatchTerminalWebhook (tracker, AML worker)
          Actions,       \* the terminal statuses they may announce
          Workers,       \* slots of the {webhook-delivery} queue
          Retriers,      \* slots of the {webhook-retry} queue
          Attempts,      \* 5 in the code: attempts of a queued delivery
          MaxJobs,       \* bound: deliveries queued in a behaviour
          Plans,         \* bound: the environment of a behaviour acts within one of these sets
          MaxFaults,     \* bound: faults in a behaviour
          MaxRetries,    \* bound: retries of either kind
          None

FaultKinds == {"crash", "stall", "logFail", "signFail", "readFail"}
UseKinds == {"retry", "manual", "switch", "relay"}

ASSUME WorkersAssumption ==
  /\ IsFiniteSet(Workers)
  /\ None \notin Workers /\ None \notin Actions
ASSUME BoundsAssumption ==
  /\ Attempts \in Nat \ {0} /\ MaxJobs \in Nat
  /\ MaxFaults \in Nat /\ MaxRetries \in Nat
  /\ Plans \subseteq SUBSET (FaultKinds \cup UseKinds)

VARIABLES
  active,            \* isActive of the endpoint
  actionOf, call,    \* the event of each call, and how far the call is
  jobs,              \* the delivery queue
  worker,            \* what each worker does: step, job, its event, outcome and log row
  rows,              \* webhook_deliveries, in the order of createdAt
  retrier, manual,   \* the retry of the organization, the retry by hand
  env,               \* what the environment may do, and how often
  received           \* history: events the endpoint has processed

callVars == <<actionOf, call>>
retryVars == <<retrier, manual>>
vars == <<active, callVars, jobs, worker, rows, retryVars, env, received>>

JobIds == 1..MaxJobs
NoJob == [state |-> "none"]
Done == [state |-> "done"]
Job == [state : {"waiting", "active", "stalled"}, owner : Workers \cup {None},
        action : Actions, row : Nat, left : 0..Attempts, stalls : 0..1]
Resting == [step |-> "idle"]
Busy == [step : {"send", "find", "write"}, id : JobIds, action : Actions, row : Nat,
         ok : BOOLEAN] \cup [step : {"end"}, id : JobIds, ok : BOOLEAN]
Row == [action : Actions, success : BOOLEAN]

Init ==
  /\ active = TRUE
  /\ actionOf \in [Calls -> Actions]
  /\ call = [c \in Calls |-> "due"]
  /\ jobs = [id \in JobIds |-> NoJob]
  /\ worker = [w \in Workers |-> Resting]
  /\ rows = <<>>
  /\ retrier = [r \in Retriers |-> Resting]
  /\ manual = Resting
  /\ env \in [plan : Plans, faults : {MaxFaults}, retries : {MaxRetries}]
  /\ received = {}

Fault(f) ==
  /\ f \in env.plan
  /\ env.faults > 0
  /\ env' = [env EXCEPT !.faults = @ - 1]

Retry(u) ==
  /\ u \in env.plan
  /\ env.retries > 0
  /\ env' = [env EXCEPT !.retries = @ - 1]

\* The endpoint is on localhost: events go to a Redis channel, not over HTTP.
Relayed == "relay" \in env.plan

\* Queue.add without a job id: a job of its own, with the next number.
Queued(action, row, attempts) ==
  \E id \in JobIds :
    /\ jobs[id] = NoJob
    /\ \A lower \in 1..(id - 1) : jobs[lower] # NoJob
    /\ jobs' = [jobs EXCEPT ![id] = [state |-> "waiting", owner |-> None, action |-> action,
                                     row |-> row, left |-> attempts, stalls |-> 0]]
-----------------------------------------------------------------------------
(* dispatchTerminalWebhook *)

\* The matching endpoints are read ...
DispatchRead(c) ==
  /\ call[c] = "due"
  /\ call' = [call EXCEPT ![c] = IF active THEN "found" ELSE "done"]
  /\ UNCHANGED <<active, actionOf, jobs, worker, rows, retryVars, env, received>>

\* ... a failed read counts as no endpoints ...
DispatchReadFail(c) ==
  /\ Fault("readFail")
  /\ call[c] = "due"
  /\ call' = [call EXCEPT ![c] = "done"]
  /\ UNCHANGED <<active, actionOf, jobs, worker, rows, retryVars, received>>

\* ... and a delivery is queued with a copy of the endpoint.
DispatchAdd(c) ==
  /\ call[c] = "found"
  /\ call' = [call EXCEPT ![c] = "done"]
  /\ Queued(actionOf[c], 0, Attempts)
  /\ UNCHANGED <<active, actionOf, worker, rows, retryVars, env, received>>
-----------------------------------------------------------------------------
(* WebhookProcessor.process *)

Take(w, id) ==
  /\ worker[w] = Resting
  /\ jobs[id].state = "waiting"
  /\ jobs' = [jobs EXCEPT ![id].state = "active", ![id].owner = w]
  /\ worker' = [worker EXCEPT ![w] =
       [step |-> "send", id |-> id, action |-> jobs[id].action, row |-> jobs[id].row, ok |-> FALSE]]
  /\ UNCHANGED <<active, callVars, rows, retryVars, env, received>>

Finished(busy, ok) == [step |-> "end", id |-> busy.id, ok |-> ok]

\* The secret cannot be decrypted: the job ends as completed, unsent and unlogged.
SignFail(w) ==
  /\ Fault("signFail")
  /\ worker[w].step = "send"
  /\ worker' = [worker EXCEPT ![w] = Finished(@, TRUE)]
  /\ UNCHANGED <<active, callVars, jobs, rows, retryVars, received>>

\* The request: answered with 2xx, or not, or processed without a good answer
\* in time.  A relayed event counts as sent whether or not anybody listens.
Send(w) ==
  /\ worker[w].step = "send"
  /\ \E arrives, ok \in BOOLEAN :
       /\ IF Relayed THEN ok ELSE ok => arrives
       /\ worker' = [worker EXCEPT ![w].step = "find", ![w].ok = ok]
       /\ received' = IF arrives THEN received \cup {worker[w].action} ELSE received
  /\ UNCHANGED <<active, callVars, jobs, rows, retryVars, env>>

\* Mutant: the row of another delivery is taken for this one, and kept.
FindRowFirst(w) ==
  /\ worker[w].step = "find"
  /\ worker' = [worker EXCEPT ![w].step = "write", ![w].row = 0]
  /\ UNCHANGED <<active, callVars, jobs, rows, retryVars, env, received>>

\* The row is the one the job names, else the latest of the transaction.
FindRow(w) ==
  /\ worker[w].step = "find"
  /\ worker' = [worker EXCEPT ![w].step = "write",
                              ![w].row = IF @ = 0 THEN Len(rows) ELSE @]
  /\ UNCHANGED <<active, callVars, jobs, rows, retryVars, env, received>>

\* Mutant: the outcome is written and the payload of the first attempt stays.
WriteRowOutcome(w) ==
  /\ worker[w].step = "write"
  /\ worker' = [worker EXCEPT ![w] = Finished(@, @.ok)]
  /\ rows' = IF worker[w].row = 0
               THEN Append(rows, [action |-> worker[w].action, success |-> worker[w].ok])
               ELSE [rows EXCEPT ![worker[w].row].success = worker[w].ok]
  /\ UNCHANGED <<active, callVars, jobs, retryVars, env, received>>

\* The row found is overwritten; none found, one is added.
WriteRow(w) ==
  /\ worker[w].step = "write"
  /\ worker' = [worker EXCEPT ![w] = Finished(@, @.ok)]
  /\ LET row == [action |-> worker[w].action, success |-> worker[w].ok]
     IN  rows' = IF worker[w].row = 0 THEN Append(rows, row)
                 ELSE [rows EXCEPT ![worker[w].row] = row]
  /\ UNCHANGED <<active, callVars, jobs, retryVars, env, received>>

\* The log cannot be read or written: that is logged, nothing else.
LogFail(w) ==
  /\ Fault("logFail")
  /\ worker[w].step \in {"find", "write"}
  /\ worker' = [worker EXCEPT ![w] = Finished(@, @.ok)]
  /\ UNCHANGED <<active, callVars, jobs, rows, retryVars, received>>

\* Mutant: a failed attempt is the last one, whatever the job has left.
AfterRunLast(id, ok) == Done

\* Mutant: the attempts are counted and never compared with their limit.
AfterRunForever(id, ok) ==
  IF ok THEN Done ELSE [jobs[id] EXCEPT !.state = "waiting", !.owner = None, !.left = @ - 1]

\* A job that succeeded is removed; one that failed waits for its next attempt
\* or is given up.
AfterRun(id, ok) ==
  IF ok \/ jobs[id].left <= 1 THEN Done
  ELSE [jobs[id] EXCEPT !.state = "waiting", !.owner = None, !.left = @ - 1]

\* A worker that no longer owns its job cannot finish it.
End(w) ==
  /\ worker[w].step = "end"
  /\ LET id == worker[w].id
     IN  jobs' = IF jobs[id] # Done /\ jobs[id].owner = w
                   THEN [jobs EXCEPT ![id] = AfterRun(id, worker[w].ok)] ELSE jobs
  /\ worker' = [worker EXCEPT ![w] = Resting]
  /\ UNCHANGED <<active, callVars, rows, retryVars, env, received>>

\* The process of a worker dies.
Crash(w) ==
  /\ Fault("crash")
  /\ worker[w] # Resting
  /\ LET id == worker[w].id
     IN  jobs' = IF jobs[id] # Done /\ jobs[id].owner = w
                   THEN [jobs EXCEPT ![id].state = "stalled", ![id].owner = None] ELSE jobs
  /\ worker' = [worker EXCEPT ![w] = Resting]
  /\ UNCHANGED <<active, callVars, rows, retryVars, received>>

\* A worker that runs loses the lock of its job (the event loop was blocked).
Stall(id) ==
  /\ Fault("stall")
  /\ jobs[id].state = "active"
  /\ jobs' = [jobs EXCEPT ![id].state = "stalled", ![id].owner = None]
  /\ UNCHANGED <<active, callVars, worker, rows, retryVars, received>>

\* BullMQ queues a stalled job again once (maxStalledCount is 1).
Requeue(id) ==
  /\ jobs[id].state = "stalled"
  /\ jobs' = [jobs EXCEPT ![id] = IF @.stalls = 0 THEN [@ EXCEPT !.state = "waiting", !.stalls = 1]
                                  ELSE Done]
  /\ UNCHANGED <<active, callVars, worker, rows, retryVars, env, received>>
-----------------------------------------------------------------------------
(* WebhookRetryProcessor.process *)

\* The endpoints are read first ...
RetryStart(r) ==
  /\ Retry("retry")
  /\ retrier[r] = Resting
  /\ retrier' = [retrier EXCEPT ![r] = [step |-> "failed", active |-> active]]
  /\ UNCHANGED <<active, callVars, jobs, worker, rows, manual, received>>

\* ... then the failed deliveries, without which nothing is left to do ...
RetryReadFailed(r) ==
  /\ retrier[r].step = "failed"
  /\ LET failed == {rows[i].action : i \in {k \in DOMAIN rows : ~rows[k].success}}
     IN  retrier' = [retrier EXCEPT ![r] = IF failed = {} THEN Resting
                       ELSE [step |-> "succeeded", active |-> @.active, failed |-> failed]]
  /\ UNCHANGED <<active, callVars, jobs, worker, rows, manual, env, received>>

\* ... then the successful ones, which hide every failed delivery of the same
\* transaction to the same endpoint; one of the others is to be sent again ...
RetryReadSucceeded(r) ==
  /\ retrier[r].step = "succeeded"
  /\ IF \E i \in DOMAIN rows : rows[i].success
       THEN retrier' = [retrier EXCEPT ![r] = Resting]
       ELSE \E action \in retrier[r].failed :
              retrier' = [retrier EXCEPT ![r] =
                [step |-> "queue", active |-> @.active, action |-> action]]
  /\ UNCHANGED <<active, callVars, jobs, worker, rows, manual, env, received>>

\* ... unless the endpoint was inactive.
RetryQueue(r) ==
  /\ retrier[r].step = "queue"
  /\ IF retrier[r].active THEN Queued(retrier[r].action, 0, Attempts) ELSE UNCHANGED jobs
  /\ retrier' = [retrier EXCEPT ![r] = Resting]
  /\ UNCHANGED <<active, callVars, worker, rows, manual, env, received>>
-----------------------------------------------------------------------------
(* The retry route of a delivery, and the endpoint in the dashboard *)

\* Only a delivery that has not succeeded may be retried ...
ManualRead(i) ==
  /\ Retry("manual")
  /\ manual = Resting
  /\ ~rows[i].success
  /\ manual' = [step |-> "queue", row |-> i, action |-> rows[i].action]
  /\ UNCHANGED <<active, callVars, jobs, worker, rows, retrier, received>>

\* ... and is sent once, whether or not the endpoint is active.
ManualAdd ==
  /\ manual.step = "queue"
  /\ Queued(manual.action, manual.row, 1)
  /\ manual' = Resting
  /\ UNCHANGED <<active, callVars, worker, rows, retrier, env, received>>

SwitchEndpoint ==
  /\ "switch" \in env.plan
  /\ active' = ~active
  /\ UNCHANGED <<callVars, jobs, worker, rows, retryVars, env, received>>
-----------------------------------------------------------------------------

CallStep(c) == DispatchRead(c) \/ DispatchAdd(c)
WorkerStep(w) == Send(w) \/ FindRow(w) \/ WriteRow(w) \/ End(w)
WorkerFault(w) == SignFail(w) \/ LogFail(w) \/ Crash(w)
RetryStep(r) == RetryReadFailed(r) \/ RetryReadSucceeded(r) \/ RetryQueue(r)

Next ==
  \/ \E c \in Calls : CallStep(c) \/ DispatchReadFail(c)
  \/ \E w \in Workers, id \in JobIds : Take(w, id)
  \/ \E w \in Workers : WorkerStep(w) \/ WorkerFault(w)
  \/ \E id \in JobIds : Stall(id) \/ Requeue(id)
  \/ \E r \in Retriers : RetryStart(r) \/ RetryStep(r)
  \/ \E i \in DOMAIN rows : ManualRead(i)
  \/ ManualAdd
  \/ SwitchEndpoint

Spec == Init /\ [][Next]_vars

\* The workers of the queue keep taking jobs and running them, and BullMQ finds
\* the stalled ones.  Calls, retries, edits and faults are free.
Fairness ==
  /\ WF_vars(\E w \in Workers, id \in JobIds : Take(w, id))
  /\ \A w \in Workers : WF_vars(WorkerStep(w))
  /\ \A id \in JobIds : WF_vars(Requeue(id))

FairSpec == Spec /\ Fairness
-----------------------------------------------------------------------------
(* Properties *)

TypeOK ==
  /\ active \in BOOLEAN
  /\ actionOf \in [Calls -> Actions]
  /\ call \in [Calls -> {"due", "found", "done"}]
  /\ jobs \in [JobIds -> Job \cup {NoJob, Done}]
  /\ worker \in [Workers -> Busy \cup {Resting}]
  /\ rows \in Seq(Row)
  /\ retrier \in [Retriers -> {Resting} \cup [step : {"failed"}, active : BOOLEAN]
        \cup [step : {"succeeded"}, active : BOOLEAN, failed : SUBSET Actions]
        \cup [step : {"queue"}, active : BOOLEAN, action : Actions]]
  /\ manual \in {Resting} \cup
        [step : {"queue"}, row : Nat \ {0}, action : Actions]
  /\ env \in [plan : SUBSET (FaultKinds \cup UseKinds), faults : 0..MaxFaults,
             retries : 0..MaxRetries]
  /\ received \subseteq Actions

\* The log claims a success only for an event that the endpoint has processed,
\* although rows are overwritten by jobs of other events, by stalled workers and
\* by retries (the upsert at the end of WebhookProcessor.process).
SuccessWasReceived ==
  ~Relayed => \A i \in DOMAIN rows : rows[i].success => rows[i].action \in received

\* The lookup before the write is not atomic, but duplicates come only from
\* workers that looked at the same time: a transaction never has more rows for
\* an endpoint than there are workers.
RowsOfRacersOnly == Len(rows) <= Cardinality(Workers)

\* What a reader of the log may rely on, for all its races: an event it shows as
\* delivered was, and it shows no event more often than two workers can.
LogIsHonest == SuccessWasReceived /\ RowsOfRacersOnly

OneEvent == \A c, d \in Calls : actionOf[c] = actionOf[d]
Waiting(a) == \E id \in JobIds : jobs[id] \notin {NoJob, Done} /\ jobs[id].action = a
Failed(a) == \E i \in DOMAIN rows : rows[i].action = a /\ ~rows[i].success

\* An event that was queued is processed by the endpoint or found in the log as
\* a failed delivery, which can be retried: one crash, stall or failure to write
\* the log does not lose it silently (End, AfterRun, Requeue; a transaction
\* with a single event, whose rows no other event overwrites).
EventuallyAccounted ==
  \A a \in Actions :
    (Waiting(a) /\ OneEvent /\ ~Relayed /\ "signFail" \notin env.plan)
      ~> (a \in received \/ Failed(a))

\* The log is append-only evidence, as its collection says: a record keeps its
\* event, and a success stays one.  It does not hold (README): records are
\* found by transaction and overwritten.
EvidenceKept ==
  [][\A i \in DOMAIN rows :
       /\ rows'[i].action = rows[i].action
       /\ rows[i].success => rows'[i].success]_vars
=============================================================================
