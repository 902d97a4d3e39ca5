SPECIFICATION GateSpec
CONSTANTS
  Workers = {w1, w2}
  Campaigns = {c1}
  GlobalCps = 3
  CampaignCps = 2
  ProviderCps = 2
  ConcurrencyLimit = 2
  DialCap = 1
  SecondTicks = 1
  ControlTTL = 1
  BudgetTTL = 1
  ErrorThreshold = 1
  OpenTicks = 1
  MaxTime = 2
  MaxSwitches = 1
  MaxFaults = 1
SYMMETRY Symmetry
INVARIANTS
  CpsWithinLimit
  CountersCoverAdmissions
  OneLateDial
  BoundedOvershoot

  
\* Behaviours end at MaxTime.
CHECK_DEADLOCK FALSE
