-------------------------- MODULE TrackedTransaction --------------------------
(***************************************************************************)
(* What the engine promises for one transaction that is tracked by one     *)
(* tracker at a time and never retried: it becomes final once, with one    *)
(* status, is announced with that status and only then, and the invoice it *)
(* pays follows the same status after the announcement.  TxLifecycle is    *)
(* shown to implement it for trackers that are awaited.                    *)
(***************************************************************************)

VARIABLES status,       \* "pending" or a terminal status
          announced,    \* statuses announced by a webhook
          invoice       \* the invoice the transaction pays

vars == <<status, announced, invoice>>

Terminal == {"Success", "Failed", "Replaced"}

Init ==
  /\ status = "pending"
  /\ announced = {}
  /\ invoice = "pending"

Finish(s) ==
  /\ status = "pending"
  /\ status' = s
  /\ UNCHANGED <<announced, invoice>>

Announce ==
  /\ status # "pending"
  /\ announced = {}
  /\ announced' = {status}
  /\ UNCHANGED <<status, invoice>>

\* The invoice is settled by the announced status.
Settle ==
  /\ announced # {}
  /\ invoice = "pending"
  /\ invoice' = IF status = "Success" THEN "paid" ELSE "failed"
  /\ UNCHANGED <<status, announced>>

Next ==
  \/ \E s \in Terminal : Finish(s)
  \/ Announce
  \/ Settle

Spec == Init /\ [][Next]_vars
=============================================================================
