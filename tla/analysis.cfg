SPECIFICATION AnalysisSpec
CONSTANTS
  Analyses = {a1, a2}
  Workers = {w1, w2}
  MaxAttempts = 2
  InitialDelay = FALSE
  Cap = 1
  MaxSlots = 1
  MaxPolls = 1
  MaxDays = 1
  MaxFaults = 0
SYMMETRY MCSymmetry
INVARIANTS
  AnalysisTypeOK
  LedgerMatchesRows
  LedgerWithinCap
  RequestsBounded
PROPERTIES
  LatestClaimWrites
  FinishedIsFinal
\* When every analysis is finished and acked, nothing is left to do.
CHECK_DEADLOCK FALSE
