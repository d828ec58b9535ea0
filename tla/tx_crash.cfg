SPECIFICATION FairSpec
CONSTANTS
  None = None
  r1 = r1
  r2 = r2
  t1 = t1
  t2 = t2
  Replicas <- MCReplicas
  Trackers <- MCTrackers
  HostOf <- MCHostOf
  Kinds <- MCAwaited
  Outcomes <- MCOneOutcome
  RetryKinds <- MCNone
  MaxRetries = 0
  CanAge = FALSE
  Plans <- MCCrash
  MaxFaults = 1
PROPERTY EventuallyAnnounced
CHECK_DEADLOCK FALSE
