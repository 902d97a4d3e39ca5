SPECIFICATION Spec
CONSTANTS
  Workers = {w1, w2}
  MaxRetries = 0
  ProviderBudget = 1
  MaxDeferrals = 1
  MaxDeliveries = 2
  MaxBacklog = 1
  MaxRuns = 2
  Outcomes = {}
  Env = {"config", "stop", "crash", "batch", "window", "pause", "guardExpiry", "suppress", "complete", "backpressure"}
  MaxFaults = 1
SYMMETRY MCSymmetry
INVARIANTS
  
  GuardHasJob
\* A settled contact may have nothing left to happen to it.
CHECK_DEADLOCK FALSE
