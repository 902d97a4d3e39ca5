SPECIFICATION Spec
CONSTANTS
  Workers = {w1}
  MaxRetries = 1
  ProviderBudget = 1
  MaxDeferrals = 1
  MaxDeliveries = 2
  MaxBacklog = 2
  MaxRuns = 2
  Outcomes = {"ended", "unknown"}
  Env = {"ambiguous", "deadline", "lookupDown", "swallow", "reject", "webhookAbort", "unparked"}
  MaxFaults = 2
INVARIANTS
  TypeOK
  CountMatchesClaims
PROPERTY KeepsContract
\* A settled contact may have nothing left to happen to it.
CHECK_DEADLOCK FALSE
