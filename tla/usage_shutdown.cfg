SPECIFICATION Spec
CONSTANTS
  Replicas = {r1, r2}
  Deliveries = {d1}
  Weights <- MCWeights
  WebhookWeight = 1
  Limits <- MCLimits
  Grant = 3
  Overdraft = 1
  MaxRequests = 2
  FaultPlans <- MCShutdownPlan
  MaxFaults = 2
  NoKey = NoKey
PROPERTY ShutdownFlushesUsage
SYMMETRY ReplicaSymmetry
