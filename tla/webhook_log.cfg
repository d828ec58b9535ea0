SPECIFICATION FairSpec
CONSTANTS
  Calls = {c1, c2}
  Actions <- MCActions
  Workers = {w1, w2}
  Retriers = {x1}
  Attempts = 2
  MaxJobs = 2
  Plans <- MCPlans
  MaxFaults = 1
  MaxRetries = 1
  None = None
INVARIANT TypeOK
INVARIANT LogIsHonest
PROPERTY EventuallyAccounted
CHECK_DEADLOCK FALSE
