---------------------------- MODULE UsageBilling ----------------------------
(***************************************************************************)
(* What the metering of Quasar promises for one organization: units are    *)
(* charged by requests and deliveries, and every unit is billed to the     *)
(* organization row once.  How the units travel (Redis buckets, batches, a *)
(* ledger) is not visible here; UsageMetering is shown to implement it.    *)
(***************************************************************************)
EXTENDS Naturals

CONSTANT Weights            \* the amounts one request or delivery may cost

VARIABLES unbilled,         \* units charged and not yet on the organization row
          billed,           \* units on the organization row (quotaUsed)
          open              \* the organization exists

vars == <<unbilled, billed, open>>

Init ==
  /\ unbilled = 0
  /\ billed = 0
  /\ open = TRUE

\* A request or a webhook delivery costs `w` units.
Charge(w) ==
  /\ unbilled' = unbilled + w
  /\ UNCHANGED <<billed, open>>

\* Some of the waiting units reach the organization row, none is kept twice.
Bill(n) ==
  /\ open
  /\ n <= unbilled
  /\ unbilled' = unbilled - n
  /\ billed' = billed + n
  /\ UNCHANGED open

\* The organization is deleted: nothing is promised about its waiting units.
Close ==
  /\ open
  /\ open' = FALSE
  /\ unbilled' \in Nat
  /\ UNCHANGED billed

Forget ==
  /\ ~open
  /\ unbilled' \in Nat
  /\ UNCHANGED <<billed, open>>

Next ==
  \/ \E w \in Weights : Charge(w)
  \/ \E n \in 1..unbilled : Bill(n)
  \/ Close
  \/ Forget

Spec == Init /\ [][Next]_vars
=============================================================================
