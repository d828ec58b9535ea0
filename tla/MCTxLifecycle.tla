---------------------------- MODULE MCTxLifecycle ----------------------------
(***************************************************************************)
(* Instances of TxLifecycle for TLC: two replicas with one worker slot     *)
(* each, or two slots on one replica.                                      *)
(***************************************************************************)
EXTENDS TxLifecycle, TLC

CONSTANTS r1, r2, t1, t2

MCReplicas == {r1, r2}
MCTrackers == {t1, t2}
MCHostOf == t1 :> r1 @@ t2 :> r2
MCOneReplica == {r1}
MCSameHost == t1 :> r1 @@ t2 :> r1

MCAwaited == {"awaited"}
MCDetached == {"detached"}
MCAllKinds == {"awaited", "batch", "detached"}

MCNone == {}

MCOutcomes == {"Success", "Failed"}
MCAllOutcomes == {"Success", "Failed", "Replaced"}

Plan(kinds, n) == [kinds |-> kinds, left |-> n]
MCNoFaults == {Plan({}, 0)}
MCAwaitedFaults == {Plan(FaultKinds, 4)}
MCCrash == {Plan({"crash"}, 1)}
MCOneOutcome == {"Success"}

\* What may go wrong where everything must become final: a death of the server
\* for a transaction that is awaited or polled on, of the request for one that
\* is awaited or sent as a batch, with a retry, a queue that fails or two other
\* faults for an awaited one.
MCFinalPlansOf ==
  [awaited  |-> {Plan({"crash", "dbFail", "launchFail", "queueFail", "requestCrash"}, 1), Plan({"requestCrash", "retry"}, 1),
                 Plan({"dbFail", "launchFail", "lockLost", "markFail", "requestCrash", "verifyFail"}, 2)},
   batch    |-> {Plan({"launchFail", "requestCrash"}, 1)},
   detached |-> {Plan({"crash", "dbFail"}, 1)}]
MCFinalPlans == UNION {MCFinalPlansOf[kind] : kind \in Kinds}
MCFinalInit == Init /\ faults \in MCFinalPlansOf[tracker]
MCFinalSpec == MCFinalInit /\ [][Next]_vars /\ Fairness
=============================================================================
