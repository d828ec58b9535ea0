---------------------------- MODULE CloudImport ----------------------------
(***************************************************************************)
(* The import of an organization from the Cloud edition: an admin confirms *)
(* with a step-up token, one import runs at a time under a lock, plans     *)
(* from what the node has, writes the configuration row by row, then the   *)
(* transactions and the deliveries, and at the end hands the transactions  *)
(* that are still pending to the trackers.  A run may stop anywhere (a     *)
(* database error, the admin closes the page, the process dies), and the   *)
(* admin imports again, the same export or a later one.                    *)
(***************************************************************************)
EXTENDS Integers, FiniteSets

CONSTANTS Imports,      \* imports at one time, of one organization
          Txs,          \* its transactions, each one a batch
          MaxImports,   \* bound: imports confirmed
          MaxStops,     \* bound: runs that stop half way
          Free

ASSUME ImportAssumption == MaxImports \in Nat /\ MaxStops \in Nat

VARIABLES
  tokens,    \* Redis: import tokens not yet redeemed
  running,   \* Redis: whose {cloud-import}:running is
  node,      \* Postgres: the configuration rows imported so far
  txRows,    \* Postgres: the transactions imported so far
  trackJobs, \* BullMQ: transactions handed to the trackers
  import,    \* the imports
  confirmed, stops,
  unqueued,  \* history: rows that a run wrote as pending and stopped before queueing
  doneRuns   \* history: imports that reported "done"

importVars == <<tokens, running, node, txRows, trackJobs, import, confirmed, stops, unqueued, doneRuns>>
nodeState == <<node, txRows, trackJobs>>
history == <<unqueued, doneRuns>>

Config == {"organization", "owner", "app", "payment", "endpoint", "invoice", "delivery"}
Export == [version : {1}, pending : {TRUE}] \cup [version : {2}, pending : BOOLEAN]
ASSUME FreeAssumption == Free \notin Imports \cup [version : {1, 2}, pending : BOOLEAN]

NoImport == [at |-> "idle", file |-> Free, create |-> {}, endpoint |-> FALSE, left |-> {}, pending |-> {}]

ImportInit ==
  /\ tokens = 0 /\ running = Free
  /\ node = {} /\ txRows = [t \in Txs |-> Free] /\ trackJobs = {}
  /\ import = [i \in Imports |-> NoImport]
  /\ confirmed = 0 /\ stops = 0
  /\ unqueued = {} /\ doneRuns = 0

ImportStep(i, from, to) == import[i].at = from /\ import' = [import EXCEPT ![i].at = to]
-----------------------------------------------------------------------------
(* The routes *)

\* authorize: the step-up is passed; the token is good for five minutes.
Authorize ==
  /\ confirmed < MaxImports /\ confirmed' = confirmed + 1
  /\ tokens' = tokens + 1
  /\ UNCHANGED <<running, nodeState, import, stops, history>>

ImportTokenExpires ==
  /\ tokens > 0 /\ tokens' = tokens - 1
  /\ UNCHANGED <<running, nodeState, import, confirmed, stops, history>>

\* (The token is not looked at.)
ApplyUnconfirmed(i, file) ==
  /\ tokens' = tokens - 1
  /\ import[i].at = "idle"
  /\ IF running = Free
       THEN /\ running' = i
            /\ import' = [import EXCEPT ![i] = [NoImport EXCEPT !.at = "plan", !.file = file]]
       ELSE UNCHANGED <<running, import>>
  /\ UNCHANGED <<nodeState, confirmed, stops, history>>

\* apply: GETDEL of the token, then SET NX EX 3600 of the lock; refused as busy.
Apply(i, file) ==
  /\ tokens > 0 /\ tokens' = tokens - 1
  /\ import[i].at = "idle"
  /\ IF running = Free
       THEN /\ running' = i
            /\ import' = [import EXCEPT ![i] = [NoImport EXCEPT !.at = "plan", !.file = file]]
       ELSE UNCHANGED <<running, import>>
  /\ UNCHANGED <<nodeState, confirmed, stops, history>>

\* The DEL of the lock asks for no owner.
Ends(i) == import' = [import EXCEPT ![i] = NoImport] /\ running' = Free

Stops(i) ==
  /\ stops < MaxStops /\ stops' = stops + 1
  /\ import[i].at # "idle"
  /\ unqueued' = unqueued \cup import[i].pending
  /\ UNCHANGED <<tokens, nodeState, confirmed, doneRuns>>

\* An error of a step (the stream of the file included), or the admin leaves.
Break(i) == Stops(i) /\ Ends(i)

\* The process dies and the lock stays.
ImporterDies(i) ==
  /\ Stops(i)
  /\ import' = [import EXCEPT ![i] = NoImport]
  /\ UNCHANGED running

\* An hour later: after a process died, or under an import that takes as long.
LockRunsOut ==
  /\ running # Free /\ running' = Free
  /\ UNCHANGED <<tokens, nodeState, import, confirmed, stops, history>>
-----------------------------------------------------------------------------
(* applyExport: the plan, and writeConfig *)

\* What the node has already is kept; an endpoint may be left out.
Plan(i) ==
  /\ import[i].at = "plan"
  /\ \E refused \in SUBSET {"endpoint"} :
       import' = [import EXCEPT ![i].at = "organization",
                                ![i].create = Config \ (node \cup refused),
                                ![i].endpoint = refused = {},
                                ![i].left = Txs]
  /\ UNCHANGED <<tokens, running, nodeState, confirmed, stops, history>>

\* The organization, and the admin as its owner, in a transaction each and only
\* when the plan found no organization.
ImportOrganization(i) ==
  LET new == "organization" \in import[i].create IN
  /\ ~ (new /\ "organization" \in node)     \* the id is taken by now: the run breaks
  /\ ImportStep(i, "organization", IF new THEN "owner" ELSE "app")
  /\ node' = node \cup {"organization"}
  /\ UNCHANGED <<tokens, running, txRows, trackJobs, confirmed, stops, history>>

ImportOwner(i) ==
  /\ ImportStep(i, "owner", "app")
  /\ node' = node \cup {"owner"}
  /\ UNCHANGED <<tokens, running, txRows, trackJobs, confirmed, stops, history>>

ImportApp(i) ==
  /\ ~ ("app" \in import[i].create \cap node)
  /\ ImportStep(i, "app", "payment")
  /\ node' = node \cup {"app"}
  /\ UNCHANGED <<tokens, running, txRows, trackJobs, confirmed, stops, history>>

\* Plain inserts: a row that is there by now is left alone.
InsertPayment(i) ==
  /\ ImportStep(i, "payment", "endpoint")
  /\ node' = node \cup ({"payment"} \cap import[i].create)
  /\ UNCHANGED <<tokens, running, txRows, trackJobs, confirmed, stops, history>>

\* A refusal is no failure: the endpoint is left out, and so are its deliveries.
ImportEndpoint(i, ok) ==
  LET asked == "endpoint" \in import[i].create
      taken == "endpoint" \in node
  IN /\ import[i].at = "endpoint"
     /\ ok => asked /\ ~taken
     /\ import' = [import EXCEPT ![i].at = "invoice", ![i].endpoint = @ /\ (asked => ok)]
     /\ node' = IF ok THEN node \cup {"endpoint"} ELSE node
     /\ UNCHANGED <<tokens, running, txRows, trackJobs, confirmed, stops, history>>

InsertInvoice(i) ==
  /\ ImportStep(i, "invoice", "transactions")
  /\ node' = node \cup ({"invoice"} \cap import[i].create)
  /\ UNCHANGED <<tokens, running, txRows, trackJobs, confirmed, stops, history>>
-----------------------------------------------------------------------------
(* writeTransactions, writeDeliveries, queuePending *)

Newer(i, t) == txRows[t] = Free \/ txRows[t].version < import[i].file.version
WrittenPending(i, t) == Newer(i, t) /\ import[i].file.pending

Write(i, t, pending) ==
  /\ import[i].at = "transactions" /\ t \in import[i].left
  /\ txRows' = IF Newer(i, t) THEN [txRows EXCEPT ![t] = import[i].file] ELSE txRows
  /\ import' = [import EXCEPT ![i].left = @ \ {t}, ![i].pending = pending]
  /\ UNCHANGED <<tokens, running, node, trackJobs, confirmed, stops, history>>

\* (Only the last batch is remembered.)
WriteForgetsBatches(i, t) == Write(i, t, IF WrittenPending(i, t) THEN {t} ELSE {})

\* A batch: inserted, or updated if the export's row is newer; the rows of the
\* batch that were written, and not the unchanged ones, are to be tracked.
WriteTransactions(i, t) ==
  Write(i, t, import[i].pending \cup (IF WrittenPending(i, t) THEN {t} ELSE {}))

WriteDeliveries(i) ==
  /\ import[i].left = {} /\ ImportStep(i, "transactions", "queue")
  /\ node' = IF import[i].endpoint THEN node \cup {"delivery"} ELSE node
  /\ UNCHANGED <<tokens, running, txRows, trackJobs, confirmed, stops, history>>

QueuePending(i, t) ==
  /\ import[i].at = "queue" /\ t \in import[i].pending
  /\ trackJobs' = trackJobs \cup {t}
  /\ import' = [import EXCEPT ![i].pending = @ \ {t}]
  /\ UNCHANGED <<tokens, running, node, txRows, confirmed, stops, history>>

Done(i) ==
  /\ import[i].at = "queue" /\ import[i].pending = {}
  /\ Ends(i)
  /\ doneRuns' = doneRuns + 1
  /\ UNCHANGED <<tokens, nodeState, confirmed, stops, unqueued>>

\* The node's tracker finishes a transaction, and leaves updated_at as it was.
TrackerFinishesImported(t) ==
  /\ t \in trackJobs /\ trackJobs' = trackJobs \ {t}
  /\ txRows' = [txRows EXCEPT ![t].pending = FALSE]
  /\ unqueued' = unqueued \ {t}
  /\ UNCHANGED <<tokens, running, node, import, confirmed, stops, doneRuns>>

ImportNext ==
  \/ Authorize \/ ImportTokenExpires \/ LockRunsOut
  \/ \E i \in Imports :
       \/ \E file \in Export : Apply(i, file)
       \/ Break(i) \/ ImporterDies(i) \/ Plan(i)
       \/ ImportOrganization(i) \/ ImportOwner(i) \/ ImportApp(i) \/ InsertPayment(i)
       \/ \E ok \in BOOLEAN : ImportEndpoint(i, ok)
       \/ InsertInvoice(i) \/ WriteDeliveries(i) \/ Done(i)
       \/ \E t \in Txs : WriteTransactions(i, t) \/ QueuePending(i, t)
  \/ \E t \in Txs : TrackerFinishesImported(t)

ImportSpec == ImportInit /\ [][ImportNext]_importVars
-----------------------------------------------------------------------------
(* Properties *)

ImportTypeOK ==
  /\ tokens \in 0..MaxImports /\ doneRuns \in 0..MaxImports
  /\ running \in Imports \cup {Free}
  /\ node \subseteq Config
  /\ txRows \in [Txs -> Export \cup {Free} \cup [version : {1}, pending : {FALSE}]]
  /\ trackJobs \cup unqueued \subseteq Txs

\* "Transactions that were still pending in the Cloud are handed to this node's
\* trackers": no pending row is forgotten by two imports of different exports
\* and the trackers that finish in between, unless the run that wrote it
\* stopped before it queued.
PendingIsTracked ==
  \A t \in Txs : txRows[t] # Free /\ txRows[t].pending =>
    \/ t \in trackJobs \cup unqueued
    \/ \E i \in Imports : t \in import[i].pending

\* "Running the import again finishes it": whoever reads "done" owns the
\* organization that was imported.
DoneMakesOwner == doneRuns > 0 => "owner" \in node
=============================================================================
