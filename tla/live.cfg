SPECIFICATION LiveSpec
CONSTANTS
  Replicas = {r1, r2}
  Deliveries = {}
  Weights = {0, 1, 2}
  WebhookWeight = 1
  Limits <- MCLimits
  Grant = 3
  Overdraft = 1
  MaxRequests = 2
  FaultPlans <- MCLivePlan
  MaxFaults = 2
  NoKey = NoKey
  Guards = {g1}
  MaxKey = 2
  MaxChanges = 2
  Absent = Absent
  Clients = {i1, i2}
  Limit = 2
  MaxTries = 5
  MaxLost = 1
  MaxRedirects = 2
  MaxBytes = 2
INVARIANTS CountersTypeOK StaleEntryExplained 
PROPERTIES  CachesRecover LockoutEnds RequestEnds
CHECK_DEADLOCK FALSE
