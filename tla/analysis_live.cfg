SPECIFICATION AnalysisFairSpec
CONSTANTS
  Analyses = {a1, a2}
  Workers = {w1}
  MaxAttempts = 1
  InitialDelay = FALSE
  Cap = 1
  MaxSlots = 1
  MaxPolls = 1
  MaxDays = 2
  MaxFaults = 1
PROPERTY AnalysisSettles
\* When every analysis is finished and acked, nothing is left to do.
CHECK_DEADLOCK FALSE
