SPECIFICATION Spec
CONSTANTS
  None = None
  r1 = r1
  r2 = r2
  t1 = t1
  t2 = t2
  Replicas <- MCReplicas
  Trackers <- MCTrackers
  HostOf <- MCHostOf
  Kinds <- MCDetached
  Outcomes <- MCOutcomes
  RetryKinds <- MCNone
  MaxRetries = 0
  CanAge = FALSE
  Plans <- MCNoFaults
  MaxFaults = 0
INVARIANT AnnouncedOnce
CHECK_DEADLOCK FALSE
