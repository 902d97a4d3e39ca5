SPECIFICATION ConvFairSpec
CONSTANTS
  Fields = {f1}
  MaxDeclines = 2
  MaxUnclear = 2
  MaxAttempts = 2
  MaxTurns = 2
  MaxPrompts = 1
  MaxLLMRetries = 1
  MaxRegenerations = 1
  MaxInterrupts = 1
  Heard = {"affirmative", "negative", "objection", "unclear"}
  Env = {"cacheLoss"}
INVARIANTS
  NoPersisting
  OptOutHeard
  OptOutHonoured
PROPERTIES
  
  ReconnectReadsLatest
  
\* Every contact comes to rest.
CHECK_DEADLOCK FALSE
