----------------------------- MODULE Partitions -----------------------------
(***************************************************************************)
(* The monthly partitions of transactions and webhook_deliveries: made for *)
(* this month and the two after it when a server boots and every midnight, *)
(* dropped when the retention of the delivery logs passes, made for past   *)
(* months by a Cloud import.  Redlock lets one instance maintain them at a *)
(* time; any statement may fail, and a night may be missed.                *)
(***************************************************************************)
EXTENDS Integers, Sequences, SequencesExt

CONSTANTS KeepMonths,   \* RETENTION.WEBHOOK_DELIVERY_MONTHS
          LastMonth,    \* bound: months pass
          Never

ASSUME PartitionAssumption == KeepMonths \in Nat \ {0} /\ LastMonth \in Nat /\ Never \notin Int

VARIABLES
  month,      \* the calendar month, in UTC
  attached,   \* Postgres: the monthly partitions of each table
  detached,   \* Postgres: delivery tables that are no partition any more and not dropped
  job,        \* the maintenance that runs: its statements to come
  ensuredIn,  \* history: the month when partitions were last made, all of them
  droppedIn   \* history: the month when expired partitions were last dropped, all of them

partitionVars == <<month, attached, detached, job, ensuredIn, droppedIn>>
tables == <<attached, detached>>
done == <<ensuredIn, droppedIn>>

Logs == "webhook_deliveries"
Tables == {"transactions", Logs}
Months == -KeepMonths..(LastMonth + 2)   \* the months before 0 come with an import
NoJob == [task |-> "none", todo |-> <<>>, complete |-> TRUE]

PartitionInit ==
  /\ month = 0 /\ detached = {} /\ job = NoJob
  /\ attached = [t \in Tables |-> {}]
  /\ ensuredIn = Never /\ droppedIn = Never

Expired(m) == month >= m + KeepMonths

\* A run works off its statements one by one.
Begins(task, todo) ==
  /\ job = NoJob /\ job' = [NoJob EXCEPT !.task = task, !.todo = todo]
  /\ UNCHANGED <<month, tables, done>>
Does(task) == job.task = task /\ job.todo # <<>> /\ job' = [job EXCEPT !.todo = Tail(@)]
-----------------------------------------------------------------------------
NextMonth ==
  /\ month < LastMonth /\ job = NoJob
  /\ month' = month + 1
  /\ UNCHANGED <<tables, job, done>>

InMonths(months) ==
  [i \in 1..Len(months) |-> <<"transactions", months[i]>>] \o [i \in 1..Len(months) |-> <<Logs, months[i]>>]

\* (This month and the next.)
EnsureTwoMonths == Begins("ensure", InMonths(<<month, month + 1>>))

\* ensurePartitions: this month and the two after it.
Ensure == Begins("ensure", InMonths(<<month, month + 1, month + 2>>))

\* CREATE TABLE IF NOT EXISTS: nothing, where a detached table has the name.
Create(t, m) ==
  attached' = IF t = Logs /\ m \in detached THEN attached ELSE [attached EXCEPT ![t] = @ \cup {m}]

CreatePartition ==
  /\ Does("ensure") /\ Create(Head(job.todo)[1], Head(job.todo)[2])
  /\ UNCHANGED <<month, detached, done>>

\* An import makes the months of its deliveries, of an old file expired ones too
\* (those of its transactions are never dropped and matter to nobody here).
ImportMonth(m) ==
  /\ m <= month /\ Create(Logs, m)
  /\ droppedIn' = IF Expired(m) THEN Never ELSE droppedIn
  /\ job' = IF Expired(m) /\ job.task = "drop" THEN [job EXCEPT !.complete = FALSE] ELSE job
  /\ UNCHANGED <<month, detached, ensuredIn>>

\* dropExpiredPartitions: what is a partition now, and has expired.
DropExpired == Begins("drop", SetToSeq({m \in attached[Logs] : Expired(m)}))

\* DETACH, and then DROP, which may fail: no later run finds the table.
DropPartition(dropped) ==
  /\ Does("drop")
  /\ attached' = [attached EXCEPT ![Logs] = @ \ {Head(job.todo)}]
  /\ detached' = IF dropped THEN detached ELSE detached \cup {Head(job.todo)}
  /\ UNCHANGED <<month, done>>

\* A statement fails: the next partition is tried (bound: one of a run fails).
StatementFails ==
  /\ job.todo # <<>> /\ job.complete
  /\ job' = [job EXCEPT !.todo = Tail(@), !.complete = FALSE]
  /\ UNCHANGED <<month, tables, done>>

FinishMaintenance ==
  LET When(task, last) == IF job.task = task /\ job.complete THEN month ELSE last IN
  /\ job.task # "none" /\ job.todo = <<>> /\ job' = NoJob
  /\ ensuredIn' = When("ensure", ensuredIn)
  /\ droppedIn' = When("drop", droppedIn)
  /\ UNCHANGED <<month, tables>>

PartitionNext ==
  \/ NextMonth \/ Ensure \/ CreatePartition \/ DropExpired
  \/ StatementFails \/ FinishMaintenance
  \/ \E m \in Months : ImportMonth(m)
  \/ \E dropped \in BOOLEAN : DropPartition(dropped)

PartitionSpec == PartitionInit /\ [][PartitionNext]_partitionVars
-----------------------------------------------------------------------------
(* Properties *)

PartitionTypeOK ==
  /\ month \in 0..LastMonth
  /\ attached \in [Tables -> SUBSET Months] /\ detached \subseteq Months
  /\ {ensuredIn, droppedIn} \subseteq 0..LastMonth \cup {Never}

\* Whatever nights are missed, statements fail and past months come with an
\* import: a row that is inserted now finds its partition for two months after
\* the last run that made them, however much the retention drops; and after a
\* night whose DROPs went through, no delivery log is past its time, but for a
\* table that an earlier night detached and failed to drop: no run finds it again.
PartitionsInTime ==
  /\ ensuredIn # Never /\ month <= ensuredIn + 2 => \A t \in Tables : month \in attached[t]
  /\ droppedIn = month /\ job.task = "none" =>
       \A m \in Months : Expired(m) => m \notin attached[Logs]
=============================================================================
