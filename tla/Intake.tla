------------------------------- MODULE Intake -------------------------------
(***************************************************************************)
(* The intake of one transaction of a Payments app (POST sync): a client   *)
(* that sends it again, the lock of five seconds, the row, and the AML     *)
(* screening of its sender, whose verdict reaches the app only with the    *)
(* webhook of the final transaction: the one the tracker dispatches, from  *)
(* the row it read when its job began, or one that the AML job dispatches  *)
(* when it finds the transaction final.  How a tracker finishes is         *)
(* TxLifecycle's; here it does, once, or dies.                             *)
(***************************************************************************)
EXTENDS Integers, Sequences, FiniteSets

CONSTANTS Senders,      \* requests at one time, all for the same key
          MaxSends,     \* bound: requests sent
          MaxLapses,    \* bound: locks that expire under a request
          MaxBreaks,    \* bound: commands that fail, processes that die
          NoSender

ASSUME IntakeAssumption ==
  /\ IsFiniteSet(Senders) /\ NoSender \notin Senders
  /\ MaxSends \in Nat /\ MaxLapses \in Nat /\ MaxBreaks \in Nat

VARIABLES
  syncLock,   \* Redis: whose SET lock:sync holds
  rows,       \* Postgres: the rows of the key, with amlStatus
  jobs,       \* BullMQ: the tracking job and the AML job, deduplicated by id
  sender,     \* where each request is
  tracker,    \* the tracking job: the row it read
  screening,  \* the AML job: the check's outcome, the row its update returned
  sent, lapses, breaks,
  told,       \* history: the amlStatus of every payload dispatched
  staleRead,  \* history: the screening ended between the tracker's read and its update
  broken      \* history: a dispatch or an update of the two jobs failed

intakeVars == <<syncLock, rows, jobs, sender, tracker, screening, sent, lapses, breaks,
                told, staleRead, broken>>
jobState == <<tracker, screening, told, staleRead, broken>>

Verdicts == {"passed", "flagged", "failed"}
AmlStatus == Verdicts \cup {"pending", "not_applicable"}
Row == [aml : AmlStatus, final : BOOLEAN]
JobStage == {"none", "waiting", "active", "ended"}

IntakeInit ==
  /\ syncLock = NoSender /\ rows = <<>>
  /\ jobs = [track |-> "none", aml |-> "none"]
  /\ sender = [s \in Senders |-> [at |-> "idle", aml |-> FALSE]]
  /\ tracker = NoSender /\ screening = NoSender
  /\ sent = 0 /\ lapses = 0 /\ breaks = 0
  /\ told = {} /\ staleRead = FALSE /\ broken = FALSE

Move(s, from, to) ==
  /\ sender[s].at = from
  /\ sender' = [sender EXCEPT ![s] = [at |-> to, aml |-> @.aml /\ to \notin {"unlock", "idle"}]]
-----------------------------------------------------------------------------
(* SyncController.syncTransaction *)

\* A valid body; the guard's entry of the app says whether it is screened.
Send(s, aml) ==
  /\ sent < MaxSends /\ sent' = sent + 1
  /\ sender[s].at = "idle"
  /\ sender' = [sender EXCEPT ![s] = [at |-> "lock", aml |-> aml]]
  /\ UNCHANGED <<syncLock, rows, jobs, lapses, breaks, jobState>>

\* SET NX EX 5.
AcquireLock(s) ==
  /\ syncLock = NoSender /\ Move(s, "lock", "read")
  /\ syncLock' = s
  /\ UNCHANGED <<rows, jobs, sent, lapses, breaks, jobState>>

\* (Who did not get the lock deletes it as well.)
RefusedUnlocks(s) ==
  /\ syncLock # NoSender /\ Move(s, "lock", "unlock")
  /\ UNCHANGED <<syncLock, rows, jobs, sent, lapses, breaks, jobState>>

\* Not acquired: a duplicate if the row is there already, else refused.
RefusedSync(s) ==
  /\ syncLock # NoSender /\ Move(s, "lock", "idle")
  /\ UNCHANGED <<syncLock, rows, jobs, sent, lapses, breaks, jobState>>

\* A row that exists makes it a duplicate; a foreign invoice or a provider that
\* the app lacks (30 seconds stale at most) refuses it.
ReadExisting(s) ==
  /\ \E next \in {"insert", "unlock"} : Move(s, "read", next) /\ (rows # <<>> => next = "unlock")
  /\ UNCHANGED <<syncLock, rows, jobs, sent, lapses, breaks, jobState>>

\* The unique index is on the key and the time of creation: a second row of the
\* key is no violation.
Insert(s) ==
  /\ Move(s, "insert", "track")
  /\ rows' = Append(rows, [aml |-> IF sender[s].aml THEN "pending" ELSE "not_applicable",
                           final |-> FALSE])
  /\ UNCHANGED <<syncLock, jobs, sent, lapses, breaks, jobState>>

Queued(job) == jobs' = [jobs EXCEPT ![job] = IF @ = "none" THEN "waiting" ELSE @]

EnqueueTracking(s) ==
  /\ Move(s, "track", IF sender[s].aml THEN "screen" ELSE "unlock")
  /\ Queued("track")
  /\ UNCHANGED <<syncLock, rows, sent, lapses, breaks, jobState>>

EnqueueScreening(s) ==
  /\ Move(s, "screen", "unlock")
  /\ Queued("aml")
  /\ UNCHANGED <<syncLock, rows, sent, lapses, breaks, jobState>>

\* finally: a DEL of the lock, whoever holds it by now.
ReleaseSyncLock(s) ==
  /\ Move(s, "unlock", "idle")
  /\ syncLock' = NoSender
  /\ UNCHANGED <<rows, jobs, sent, lapses, breaks, jobState>>

\* A command of the handler fails; the lock is released.
SendFails(s) ==
  /\ breaks < MaxBreaks /\ breaks' = breaks + 1
  /\ \E at \in {"read", "insert", "track", "screen"} : Move(s, at, "unlock")
  /\ UNCHANGED <<syncLock, rows, jobs, sent, lapses, jobState>>

\* The process dies, or the DEL fails, which is swallowed.
SendDies(s) ==
  /\ breaks < MaxBreaks /\ breaks' = breaks + 1
  /\ sender[s].at # "idle" /\ Move(s, sender[s].at, "idle")
  /\ UNCHANGED <<syncLock, rows, jobs, sent, lapses, jobState>>

\* Five seconds: under its request, or left by one that died.
LapseLock ==
  /\ syncLock # NoSender
  /\ IF sender[syncLock].at \in {"idle", "lock"}
       THEN UNCHANGED lapses
       ELSE lapses < MaxLapses /\ lapses' = lapses + 1
  /\ syncLock' = NoSender
  /\ UNCHANGED <<rows, jobs, sender, sent, breaks, jobState>>
-----------------------------------------------------------------------------
(* RouterService: the tracking job *)

intake == <<syncLock, sender, sent, lapses>>
TrackerEnds == jobs' = [jobs EXCEPT !.track = "ended"] /\ tracker' = NoSender
ScreeningEnds == jobs' = [jobs EXCEPT !.aml = "ended"] /\ screening' = NoSender

\* The row it reads is the one it dispatches from.
TrackerRead(i) ==
  /\ jobs.track = "waiting"
  /\ i \in 1..Len(rows)
  /\ IF rows[i].final
       THEN TrackerEnds
       ELSE jobs' = [jobs EXCEPT !.track = "active"] /\ tracker' = rows[i]
  /\ UNCHANGED <<intake, rows, breaks, screening, told, staleRead, broken>>

\* The terminal update, of every row of the key.
TrackerFinishes ==
  /\ jobs.track = "active" /\ ~tracker.final
  /\ rows' = [i \in 1..Len(rows) |-> [rows[i] EXCEPT !.final = TRUE]]
  /\ tracker' = [tracker EXCEPT !.final = TRUE]
  /\ staleRead' = (staleRead \/ \E i \in 1..Len(rows) : rows[i].aml # tracker.aml)
  /\ UNCHANGED <<intake, jobs, breaks, screening, told, broken>>

TrackerDispatches ==
  /\ jobs.track = "active" /\ tracker.final
  /\ told' = told \cup {tracker.aml}
  /\ TrackerEnds
  /\ UNCHANGED <<intake, rows, breaks, screening, staleRead, broken>>

TrackerBreaks ==
  /\ breaks < MaxBreaks /\ breaks' = breaks + 1
  /\ jobs.track = "active" /\ TrackerEnds
  /\ broken' = TRUE
  /\ UNCHANGED <<intake, rows, screening, told, staleRead>>
-----------------------------------------------------------------------------
(* AmlProcessor.process and AmlService.checkAml *)

\* Cached or asked for: the report of the address, or an error (no keys, the
\* service fails).  The dispatch of this job comes from the row its update returned.
Check(outcome) ==
  /\ jobs.aml = "waiting" /\ jobs' = [jobs EXCEPT !.aml = "active"]
  /\ screening' = [at |-> "update", verdict |-> outcome, row |-> NoSender]
  /\ UNCHANGED <<intake, rows, breaks, tracker, told, staleRead, broken>>

SaveVerdict(i) ==
  /\ jobs.aml = "active" /\ screening.at = "update"
  /\ i \in 1..Len(rows)
  /\ rows' = [k \in 1..Len(rows) |-> [rows[k] EXCEPT !.aml = screening.verdict]]
  /\ screening' = [screening EXCEPT !.at = "dispatch", !.row = rows'[i]]
  /\ UNCHANGED <<intake, jobs, breaks, tracker, told, staleRead, broken>>

\* (The webhook is left to the tracker.)
TellNobody ==
  /\ jobs.aml = "active" /\ screening.at = "dispatch"
  /\ ScreeningEnds
  /\ UNCHANGED <<intake, rows, breaks, tracker, told, staleRead, broken>>

TellVerdict ==
  /\ jobs.aml = "active" /\ screening.at = "dispatch"
  /\ told' = IF screening.row.final THEN told \cup {screening.row.aml} ELSE told
  /\ ScreeningEnds
  /\ UNCHANGED <<intake, rows, breaks, tracker, staleRead, broken>>

\* The update or the dispatch fails: "failed" takes the place of the verdict,
\* and the same steps follow; the second failure ends the job.
ScreeningFails ==
  /\ breaks < MaxBreaks /\ breaks' = breaks + 1
  /\ jobs.aml = "active"
  /\ IF screening.verdict = "failed"
       THEN ScreeningEnds /\ broken' = TRUE
       ELSE /\ screening' = [at |-> "update", verdict |-> "failed", row |-> NoSender]
            /\ UNCHANGED <<jobs, broken>>
  /\ UNCHANGED <<intake, rows, tracker, told, staleRead>>

\* The worker dies; the job is found stalled and run again.
ScreeningStalls ==
  /\ breaks < MaxBreaks /\ breaks' = breaks + 1
  /\ jobs.aml = "active" /\ jobs' = [jobs EXCEPT !.aml = "waiting"]
  /\ screening' = NoSender
  /\ UNCHANGED <<intake, rows, tracker, told, staleRead, broken>>
-----------------------------------------------------------------------------
SendStep(s) ==
  \/ AcquireLock(s) \/ RefusedSync(s) \/ ReadExisting(s) \/ Insert(s)
  \/ EnqueueTracking(s) \/ EnqueueScreening(s) \/ ReleaseSyncLock(s)

IntakeNext ==
  \/ \E s \in Senders : SendStep(s) \/ SendFails(s) \/ SendDies(s) \/ \E on \in BOOLEAN : Send(s, on)
  \/ LapseLock
  \/ \E i \in 1..Len(rows) : TrackerRead(i) \/ SaveVerdict(i)
  \/ TrackerFinishes \/ TrackerDispatches \/ TrackerBreaks
  \/ \E outcome \in Verdicts : Check(outcome)
  \/ TellVerdict \/ ScreeningFails \/ ScreeningStalls

IntakeSpec == IntakeInit /\ [][IntakeNext]_intakeVars
-----------------------------------------------------------------------------
(* Properties *)

IntakeTypeOK ==
  /\ syncLock \in Senders \cup {NoSender}
  /\ rows \in Seq(Row)
  /\ jobs \in [{"track", "aml"} -> JobStage]
  /\ told \subseteq AmlStatus

\* A key sent again and again has one row, and one more for every lock that
\* expired under its request: the DEL without an owner, which frees another
\* request's lock, adds none.
OneRowPerLock == Len(rows) <= 1 + lapses

\* Once both jobs are through, the app was told the verdict that stands, unless
\* the screening ended while the transaction was being tracked (the payload
\* then says "pending", for good) or a dispatch failed.
ScreeningTold ==
  jobs.aml = "ended" /\ jobs.track = "ended" /\ Len(rows) = 1
    => staleRead \/ broken \/ rows[1].aml \in told

\* What the sender of a transaction is promised: one row, one verdict.
IntakeSound == OneRowPerLock /\ ScreeningTold
=============================================================================
