SPECIFICATION MCFinalSpec
CONSTANTS
  None = None
  r1 = r1
  r2 = r2
  t1 = t1
  t2 = t2
  Replicas <- MCOneReplica
  Trackers <- MCTrackers
  HostOf <- MCSameHost
  Kinds <- MCAllKinds
  Outcomes <- MCOneOutcome
  RetryKinds <- MCAwaited
  MaxRetries = 1
  CanAge = TRUE
  Plans <- MCFinalPlans
  MaxFaults = 2
INVARIANT MarkerAfterCommit
PROPERTY EventuallyFinal
 
CHECK_DEADLOCK FALSE
