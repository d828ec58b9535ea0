------------------------------- MODULE Outbox -------------------------------
(***************************************************************************)
(* The outbox: an event "sync-redis-quota", written by whoever changed the *)
(* organization's quota (code that is not in the repository), makes        *)
(* OutboxProcessorService drop the guard's caches of the organization and  *)
(* of its app and queue a run of its failed webhooks.  The job comes every *)
(* five seconds, so a slow run on one server overlaps the next one on      *)
(* another: both work from the row as they read it.                        *)
(***************************************************************************)
EXTENDS Integers, FiniteSets

CONSTANTS Runs,         \* runs of the job at one time
          MaxFaults     \* bound: commands that fail, servers that die

ASSUME OutboxAssumption == IsFiniteSet(Runs) /\ MaxFaults \in Nat

VARIABLES
  event,       \* Postgres: the row of outbox_events
  caches,      \* Redis: entries of the guard older than the event
  retryOrg,    \* BullMQ: whether a retry-org job was queued for it
  schedulers,  \* BullMQ: job schedulers of the queue
  run,         \* the runs
  faults,
  tried        \* history: runs of the event that failed and said so

outboxVars == <<event, caches, retryOrg, schedulers, run, faults, tried>>
outside == <<caches, retryOrg, schedulers>>

Registered == {"processor", "cleanup"}
NoRun == [at |-> "idle", attempts |-> 0]
MaxEventAttempts == 4

OutboxInit ==
  /\ \E kind \in {"quota", "noOrganization", "unknown"} :
       event = [kind |-> kind, status |-> "pending", attempts |-> 0, due |-> TRUE]
  /\ caches = {"limit", "secret", "public", "notified"} /\ retryOrg = FALSE
  /\ schedulers = {"stale"}
  /\ run = [r \in Runs |-> NoRun]
  /\ faults = 0 /\ tried = 0

Applied == caches = {} /\ retryOrg
-----------------------------------------------------------------------------
(* OutboxInitializerService *)

\* A server boots: the stale schedulers go, which may fail, and its own come.
Register(pruned) ==
  /\ schedulers # Registered
  /\ schedulers' = (IF pruned THEN schedulers \cap Registered ELSE schedulers) \cup Registered
  /\ UNCHANGED <<event, caches, retryOrg, run, faults, tried>>
-----------------------------------------------------------------------------
(* OutboxProcessorService.process *)

RunGoes(r, from, to) == run[r].at = from /\ run' = [run EXCEPT ![r].at = to]

Select(r) ==
  /\ "processor" \in schedulers /\ run[r].at = "idle"
  /\ event.status = "pending" /\ event.due
  /\ run' = [run EXCEPT ![r] = [at |-> "handle", attempts |-> event.attempts]]
  /\ UNCHANGED <<event, outside, faults, tried>>

\* An event of another type is given up on at once, one without an organization
\* has nothing to do.
Handle(r) ==
  /\ RunGoes(r, "handle", CASE event.kind = "quota" -> "limit"
                       [] event.kind = "noOrganization" -> "mark"
                       [] OTHER -> "giveUp")
  /\ UNCHANGED <<event, outside, faults, tried>>

\* The four DELs, one after the other: limit, secret key, public key, flag.
AfterDel == [limit |-> "secret", secret |-> "public", public |-> "notified", notified |-> "retry"]
Bust(r) ==
  /\ run[r].at \in DOMAIN AfterDel
  /\ caches' = caches \ {run[r].at}
  /\ RunGoes(r, run[r].at, AfterDel[run[r].at])
  /\ UNCHANGED <<event, retryOrg, schedulers, faults, tried>>

\* The organization has quota again: its failed webhooks are sent once more.
QueueRetry(r) ==
  /\ RunGoes(r, "retry", "mark")
  /\ retryOrg' = TRUE
  /\ UNCHANGED <<event, caches, schedulers, faults, tried>>

\* An update by id: nothing if the row is gone.
EventBecomes(status, attempts, due) ==
  event' = IF event.status = "deleted" THEN event
           ELSE [event EXCEPT !.status = status, !.attempts = attempts, !.due = due]

Mark(r) ==
  /\ RunGoes(r, "mark", "idle")
  /\ EventBecomes("processed", event.attempts, event.due)
  /\ UNCHANGED <<outside, faults, tried>>

GiveUp(r) ==
  /\ RunGoes(r, "giveUp", "idle")
  /\ EventBecomes("failed", event.attempts, event.due)
  /\ UNCHANGED <<outside, faults, tried>>

\* A command fails: the catch decides on the attempts that the run had read.
Fail(r) ==
  /\ faults < MaxFaults /\ faults' = faults + 1
  /\ run[r].at \in DOMAIN AfterDel \cup {"retry", "mark", "giveUp"}
  /\ run' = [run EXCEPT ![r] = [at |-> "catch", attempts |-> @.attempts + 1]]
  /\ UNCHANGED <<event, outside, tried>>

\* (One attempt less before it is given up on.)
CatchTooEarly(r) ==
  /\ RunGoes(r, "catch", "idle")
  /\ EventBecomes(IF run[r].attempts < MaxEventAttempts - 1 THEN "pending" ELSE "failed", run[r].attempts, FALSE)
  /\ tried' = tried + 1
  /\ UNCHANGED <<outside, faults>>

\* Again in a minute, five, an hour; the fourth failure is the last.
Catch(r) ==
  /\ RunGoes(r, "catch", "idle")
  /\ EventBecomes(IF run[r].attempts < MaxEventAttempts THEN "pending" ELSE "failed",
             run[r].attempts, run[r].attempts >= MaxEventAttempts)
  /\ tried' = tried + 1
  /\ UNCHANGED <<outside, faults>>

\* The server dies, or the update of the catch fails: nothing is written.
Die(r) ==
  /\ faults < MaxFaults /\ faults' = faults + 1
  /\ run[r].at # "idle" /\ run' = [run EXCEPT ![r] = NoRun]
  /\ UNCHANGED <<event, outside, tried>>

ComesDue ==
  /\ event.status = "pending" /\ ~event.due
  /\ event' = [event EXCEPT !.due = TRUE]
  /\ UNCHANGED <<outside, run, faults, tried>>

\* cleanup-events: what was processed seven days ago.
CleanUp ==
  /\ "cleanup" \in schedulers /\ event.status = "processed"
  /\ event' = [event EXCEPT !.status = "deleted"]
  /\ UNCHANGED <<outside, run, faults, tried>>

OutboxStep(r) ==
  Select(r) \/ Handle(r) \/ Bust(r) \/ QueueRetry(r) \/ Mark(r) \/ GiveUp(r) \/ Catch(r)

OutboxNext ==
  \/ \E pruned \in BOOLEAN : Register(pruned)
  \/ \E r \in Runs : OutboxStep(r) \/ Fail(r) \/ Die(r)
  \/ ComesDue \/ CleanUp

OutboxSpec == OutboxInit /\ [][OutboxNext]_outboxVars
-----------------------------------------------------------------------------
(* Properties *)

OutboxTypeOK ==
  /\ event.status \in {"pending", "processed", "failed", "deleted"}
  /\ event.attempts \in 0..MaxEventAttempts
  /\ \A r \in Runs : run[r].attempts \in 0..MaxEventAttempts
  /\ faults \in 0..MaxFaults /\ tried \in 0..MaxFaults

\* An event of an organization's quota that is marked as processed, or that
\* was cleaned up, had every effect, though not all in one run; one that is
\* given up on had them too (another run marked it, and its row was written
\* over by a slower one that failed), or failed four times: runs that overlap
\* lose attempts, and never add one.
QuotaEventHonored ==
  event.kind = "quota" =>
    /\ event.status \in {"processed", "deleted"} => Applied
    /\ event.status = "failed" => tried >= MaxEventAttempts
=============================================================================
