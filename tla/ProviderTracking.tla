--------------------------- MODULE ProviderTracking ---------------------------
(***************************************************************************)
(* How the trackers find out what became of a transaction: the providers   *)
(* an app has for it, the two stages of a UserOperation (the bundler's     *)
(* receipt, then the transaction of its bundle), the waiting of the EVM    *)
(* tracker, the polling of Solana, Gelato and Safe, their time limits, and *)
(* the hash that the row keeps between launches.  Locks, jobs and webhooks *)
(* around a launch are TxLifecycle's: here one tracker runs at a time.     *)
(***************************************************************************)
EXTENDS Naturals

CONSTANTS MaxLaunches,    \* bound: trackers launched
          MaxTroubles     \* bound: writes that fail, workers that die, endpoints refused

ASSUME LaunchBounds == MaxLaunches \in Nat /\ MaxTroubles \in Nat

TrackerKinds == {"evm", "userOp", "solana", "gelato", "safe"}
Reports == {"Success", "Failed", "Replaced"}

VARIABLES
  via,         \* the kind of tracker
  settings,    \* what the app and the operator have set that this kind can use
  chain,       \* what became of it: "open", "Success", "Failed", "Replaced"
  bundled,     \* userOp: the transaction of its bundle is mined, with success
  row,         \* status, and whether the hash is known (kept for userOp only)
  stage,       \* the tracker: "off", "bundler", "receipt", "poll", "write"
  report,      \* what the tracker writes: status and hash
  bufferedHash,\* the hash of stage 1 waits in the batch buffer
  launches, troubles,  \* counters of the bounds
  timedOut,    \* history: the last report is that of a time limit
  retriedHash  \* history: a row was retried with the hash of its failed bundle

trackingVars == <<via, settings, chain, bundled, row, stage, report, bufferedHash,
                  launches, troubles, timedOut, retriedHash>>
chainVars == <<via, settings, chain, bundled>>
countVars == <<launches, troubles>>
pastVars == <<timedOut, retriedHash>>

SettingsOf(kind) ==
  CASE kind \in {"evm", "solana"} -> {"appRpc", "publicRpc"}
    [] kind = "userOp" -> {"appRpc", "publicRpc", "clientBundler", "pimlicoKey"}
    [] kind = "gelato" -> {"gelatoKey"}
    [] kind = "safe" -> {"safeService"}

TrackingTypeOK ==
  /\ via \in TrackerKinds /\ settings \subseteq SettingsOf(via)
  /\ chain \in {"open"} \cup Reports /\ bundled \in BOOLEAN
  /\ row \in [status : {"pending"} \cup Reports, hash : BOOLEAN]
  /\ stage \in {"off", "bundler", "receipt", "poll", "write"}
  /\ report \in [status : Reports, hash : BOOLEAN] /\ bufferedHash \in BOOLEAN
  /\ launches \in 0..MaxLaunches /\ troubles \in 0..MaxTroubles
  /\ timedOut \in BOOLEAN /\ retriedHash \in BOOLEAN

NoReport == [status |-> "Failed", hash |-> FALSE]

TrackingInit ==
  /\ via \in TrackerKinds /\ settings \in SUBSET SettingsOf(via)
  /\ chain = "open" /\ bundled = FALSE
  /\ row = [status |-> "pending", hash |-> FALSE]
  /\ stage = "off" /\ report = NoReport /\ bufferedHash = FALSE
  /\ launches = 0 /\ troubles = 0 /\ timedOut = FALSE /\ retriedHash = FALSE

Trouble == troubles < MaxTroubles /\ troubles' = troubles + 1
-----------------------------------------------------------------------------
(* The chain and the providers *)

\* A UserOperation is mined in a bundle, whose transaction succeeds even when
\* the operation reverts; one that is refused is in no bundle.
Decide ==
  /\ chain = "open"
  /\ \/ chain' = "Success" /\ bundled' = (via = "userOp")
     \/ chain' = "Failed" /\ bundled' \in {FALSE, via = "userOp"}
     \/ via \in {"evm", "safe"} /\ chain' = "Replaced" /\ bundled' = FALSE
  /\ UNCHANGED <<via, settings, row, stage, report, bufferedHash, countVars, pastVars>>

\* The host of an endpoint that a customer chose resolves to an address that
\* is not allowed: from now on the trackers skip it (isUsableRpcUrl).
RefuseEndpoint ==
  /\ Trouble
  /\ \E endpoint \in settings \cap {"appRpc", "clientBundler"} : settings' = settings \ {endpoint}
  /\ UNCHANGED <<via, chain, bundled, row, stage, report, bufferedHash, launches, pastVars>>

RpcKnown == settings \cap {"appRpc", "publicRpc"} # {}
BundlerKnown == settings \cap {"clientBundler", "pimlicoKey"} # {}
-----------------------------------------------------------------------------
(* A launch; without a provider it throws, and the row stays as it is *)

Launch(step) ==
  /\ stage = "off" /\ row.status = "pending"
  /\ launches < MaxLaunches
  /\ launches' = launches + 1
  /\ stage' = step
  /\ UNCHANGED <<chainVars, row, report, bufferedHash, troubles, pastVars>>

LaunchEvm == via = "evm" /\ RpcKnown /\ Launch("receipt")
LaunchSolana == via = "solana" /\ RpcKnown /\ Launch("poll")
LaunchGelato == via = "gelato" /\ "gelatoKey" \in settings /\ Launch("poll")
LaunchSafe == via = "safe" /\ "safeService" \in settings /\ Launch("poll")
\* With a hash in the row stage 1 is skipped.
LaunchUserOp ==
  /\ via = "userOp" /\ BundlerKnown /\ RpcKnown
  /\ Launch(IF row.hash THEN "receipt" ELSE "bundler")

Reporting(status, hash) ==
  /\ stage' = "write"
  /\ report' = [status |-> status, hash |-> hash]
  /\ UNCHANGED <<chainVars, row, bufferedHash, countVars, retriedHash>>

\* Mutant: stage 1 takes the receipt of the bundle for that of the operation.
BundledUnchecked ==
  /\ stage = "bundler" /\ bundled
  /\ bufferedHash' = TRUE
  /\ stage' = "receipt"
  /\ UNCHANGED <<chainVars, row, report, countVars, pastVars>>

\* Stage 1: the bundler has a receipt of success.  Its hash goes to the buffer
\* of non-terminal updates, and stage 2 follows ...
Bundled ==
  /\ stage = "bundler" /\ chain = "Success"
  /\ bufferedHash' = TRUE
  /\ stage' = "receipt"
  /\ UNCHANGED <<chainVars, row, report, countVars, pastVars>>
\* ... or the receipt has no hash, and the success is final.
BundledWithoutHash ==
  /\ stage = "bundler" /\ chain = "Success"
  /\ Reporting("Success", FALSE) /\ timedOut' = FALSE
\* The operation failed, and the hash of its bundle, if any, goes to the row;
\* or the bundler has no receipt in time.
OperationFailed ==
  /\ stage = "bundler"
  /\ \/ chain = "Failed" /\ Reporting("Failed", bundled) /\ timedOut' = FALSE
     \/ Reporting("Failed", FALSE) /\ timedOut' = TRUE

\* Stage 2: the receipt of the bundle's transaction, which is mined already and
\* so is not replaced, or its time limit.
ReceiptOfBundle ==
  /\ via = "userOp" /\ stage = "receipt" /\ bundled
  /\ Reporting("Success", TRUE) /\ timedOut' = FALSE
BundleTimesOut ==
  /\ via = "userOp" /\ stage = "receipt"
  /\ Reporting("Failed", TRUE) /\ timedOut' = TRUE

\* The EVM tracker: the receipt of the transaction or of the one that took
\* its nonce, or the time limit.
ReceiptOfTransaction ==
  /\ via = "evm" /\ stage = "receipt" /\ chain # "open"
  /\ Reporting(chain, FALSE) /\ timedOut' = FALSE
TransactionTimesOut ==
  /\ via = "evm" /\ stage = "receipt"
  /\ Reporting("Failed", FALSE) /\ timedOut' = TRUE

\* The pollers: what became of it, or a time limit (an expired blockhash, an
\* hour at Gelato, a day at Safe), which is reported as a failure.
Polled(outcomes) ==
  /\ stage = "poll"
  /\ \/ chain \in outcomes /\ Reporting(chain, FALSE) /\ timedOut' = FALSE
     \/ Reporting("Failed", FALSE) /\ timedOut' = TRUE
SolanaAnswers == via = "solana" /\ Polled({"Success", "Failed"})
GelatoAnswers == via = "gelato" /\ Polled({"Success", "Failed"})
SafeAnswers == via = "safe" /\ Polled(Reports)
-----------------------------------------------------------------------------
(* The terminal write, the buffer, the retry *)

\* A known hash stays when the report has none; the buffered update is evicted.
WriteReport ==
  /\ stage = "write"
  /\ row' = [status |-> report.status, hash |-> row.hash \/ report.hash]
  /\ stage' = "off" /\ report' = NoReport /\ bufferedHash' = FALSE
  /\ UNCHANGED <<chainVars, countVars, pastVars>>

\* The write fails, or the worker dies at any step: the buffer is lost with the
\* worker, and a later job launches the tracker again.
WriteFails ==
  /\ stage = "write" /\ Trouble
  /\ stage' = "off" /\ report' = NoReport
  /\ UNCHANGED <<chainVars, row, bufferedHash, launches, pastVars>>
TrackerDies ==
  /\ stage # "off" /\ Trouble
  /\ stage' = "off" /\ report' = NoReport /\ bufferedHash' = FALSE
  /\ UNCHANGED <<chainVars, row, launches, pastVars>>

FlushHash ==
  /\ bufferedHash /\ row.status = "pending"
  /\ row' = [row EXCEPT !.hash = TRUE]
  /\ bufferedHash' = FALSE
  /\ UNCHANGED <<chainVars, stage, report, countVars, pastVars>>

\* A retry resets the status, not the hash: the dashboard's that of a failed or
\* replaced transaction, the engine's that of any, evicting what its own
\* process, which may be the tracker's, has in the buffer.
RetryTracking ==
  /\ \/ row.status \in {"Failed", "Replaced"} /\ UNCHANGED bufferedHash
     \/ bufferedHash' \in {bufferedHash, FALSE}
  /\ row' = [row EXCEPT !.status = "pending"]
  /\ retriedHash' = (retriedHash \/ (row.hash /\ chain = "Failed"))
  /\ UNCHANGED <<chainVars, stage, report, countVars, timedOut>>

TrackingNext ==
  \/ Decide \/ RefuseEndpoint
  \/ LaunchEvm \/ LaunchSolana \/ LaunchGelato \/ LaunchSafe \/ LaunchUserOp
  \/ Bundled \/ BundledWithoutHash \/ OperationFailed \/ ReceiptOfBundle \/ BundleTimesOut
  \/ ReceiptOfTransaction \/ TransactionTimesOut
  \/ SolanaAnswers \/ GelatoAnswers \/ SafeAnswers
  \/ WriteReport \/ WriteFails \/ TrackerDies \/ FlushHash \/ RetryTracking

TrackingSpec == TrackingInit /\ [][TrackingNext]_trackingVars
-----------------------------------------------------------------------------
\* Whatever the provider, the writes that failed, the deaths between the two
\* stages and the retries: a Success or Replaced in the row is what the chain
\* says, and a Failed is too or is the end of a time limit.  The one exception
\* is a UserOperation retried with the hash of the bundle it failed in (see
\* SuccessIsReal).
ReportedIsReal ==
  /\ row.status = "Success" => chain = "Success" \/ retriedHash
  /\ row.status = "Replaced" => chain = "Replaced"
  /\ row.status = "Failed" => chain = "Failed" \/ timedOut

\* Stage 1 is skipped "if tx.hash is already populated (e.g. resuming tracking
\* across restarts)", so a hash in the row is that of an operation that
\* succeeded: no row says Success of a transaction that failed.
SuccessIsReal == row.status = "Success" => chain = "Success"
=============================================================================
