SPECIFICATION AwaitedSpec
CONSTANTS
  None = None
  r1 = r1
  r2 = r2
  t1 = t1
  t2 = t2
  Replicas <- MCReplicas
  Trackers <- MCTrackers
  HostOf <- MCHostOf
  Kinds <- MCAwaited
  Outcomes <- MCAllOutcomes
  RetryKinds <- MCNone
  MaxRetries = 0
  CanAge = FALSE
  Plans <- MCAwaitedFaults
  MaxFaults = 4
  Accounts = {u1, u2}
  Admins = {u1}
  Requests = {r1, r2}
  MaxOrgs = 4
  MaxRequests = 4
  AppIds = {p1, p2}
  MaxOwned = 2
  MaxApps = 1
  ExportedApps = {p1}
  MaxWritten = 5
  MaxDamages = 1
INVARIANTS TypeOK WorkspaceSound ReadIsWritten
 
CHECK_DEADLOCK FALSE
