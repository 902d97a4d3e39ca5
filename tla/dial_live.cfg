SPECIFICATION FairSpec
CONSTANTS
  Workers = {w1}
  MaxRetries = 1
  ProviderBudget = 1
  MaxDeferrals = 1
  MaxDeliveries = 2
  MaxBacklog = 1
  MaxRuns = 2
  Outcomes = {"error", "noanswer", "dropped", "optout"}
  Env = {"redisLoss", "crash"}
  MaxFaults = 1
INVARIANTS
  
  DialingHasAttempt
 
\* A settled contact may have nothing left to happen to it.
CHECK_DEADLOCK FALSE
