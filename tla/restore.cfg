SPECIFICATION RestoreSpec
CONSTANTS
  a = a
  b = b
  g = g
  h = h
  phone = phone
  Contacts = {a, b}
  Campaigns = {g, h}
  Numbers = {phone}
  CampaignOf <- MCCampaignOf
  NumberOf <- MCNumberOf
  Kinds = {"messages"}
  Enabled = {"contacts"}
  Batch = 1
  Runs = {}
  Erasers = {e1}
  MaxHolds = 1
  MaxErasures = 1
  MaxCalls = 1
  MaxCrashes = 0
  MaxEdits = 2
  MaxRestores = 1
INVARIANTS
  ErasureIsComplete
  OptOutSurvives
\* A person whose data is gone may have nothing left to happen to it.
CHECK_DEADLOCK FALSE
