------------------------------- MODULE MCLive -------------------------------
(* What the metering, the caches of the guard, the counters of attempts and  *)
(* the request of a webhook bring to an end, checked in one run: they share  *)
(* no variable; in a behaviour one of them, the part, acts, and the others   *)
(* keep their initial states, in which no cache or counter has anything to   *)
(* do and the request has not begun.                                         *)
EXTENDS MCUsageMetering, GuardCache, AttemptLimits, WebhookRequest

VARIABLE part

liveVars == <<part, vars, guardVars, limitVars, requestState>>

LiveInit ==
  /\ part \in {"metering", "guard", "limits", "request"}
  /\ Init /\ GuardInit /\ LimitInit /\ RequestInit

LiveNext ==
  \/ part = "metering" /\ Next /\ UNCHANGED <<part, guardVars, limitVars, requestState>>
  \/ part = "guard" /\ GuardNext /\ UNCHANGED <<part, vars, limitVars, requestState>>
  \/ part = "limits" /\ LimitNext /\ UNCHANGED <<part, vars, guardVars, requestState>>
  \/ part = "request" /\ RequestNext /\ UNCHANGED <<part, vars, guardVars, limitVars>>

\* The fairness of UsageMetering, where it acts: its crons always may.
MeteringFairness ==
  \A r \in Replicas :
    /\ WF_vars(part = "metering" /\ CronStep(r))
    /\ WF_vars(part = "metering" /\ Restart(r))

LiveSpec ==
  LiveInit /\ [][LiveNext]_liveVars
  /\ MeteringFairness /\ GuardFairness /\ LimitFairness /\ RequestFairness
-----------------------------------------------------------------------------
\* The type invariants of the three (that of UsageMetering is checked by the run usage).
CountersTypeOK == GuardTypeOK /\ LimitTypeOK /\ RequestTypeOK
=============================================================================
