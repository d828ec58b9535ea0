-------------------------- MODULE MCUsageMetering --------------------------
(***************************************************************************)
(* Instances of UsageMetering for TLC.                                     *)
(***************************************************************************)
EXTENDS UsageMetering, TLC

\* A request that costs nothing, a small one and a larger one.
MCWeights == {0, 1, 2}
MCOneWeight == {1}

\* A limit that refuses every charge and one that refuses none.
MCLimits == {0, 100}

\* Faults under which no unit is lost or doubled ...
MCSafePlan == {{"crash", "dbFail", "redisFail", "deliveryAbort", "orgDeleted", "shutdown"}}
\* ... and two sets under which one or the other may happen.
MCHarmPlans == {{"crash", "reclaimCrash", "dbFail", "replayFail", "ackLost", "redisFail"},
                {"crash", "dbFail", "redisFail", "lockLost"}}
MCPlans == MCSafePlan \cup MCHarmPlans
MCLivePlan == {{"crash", "dbFail", "redisFail", "shutdown"}}
MCShutdownPlan == {{"shutdown"}}

ReplicaSymmetry == Permutations(Replicas)
=============================================================================
