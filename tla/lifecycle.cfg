SPECIFICATION RestoreSpec
CONSTANTS
  a = a
  b = b
  g = g
  h = h
  phone = phone
  Contacts = {a, b}
  Campaigns = {g, h}
  Numbers = {phone}
  CampaignOf <- MCCampaignOf
  NumberOf <- MCNumberOf
  Kinds = {"messages", "analysis"}
  Enabled = {"messages", "analysis", "contacts"}
  Batch = 1
  Runs = {r1, r2}
  Erasers = {e1, e2}
  MaxHolds = 2
  MaxErasures = 2
  MaxCalls = 1
  MaxCrashes = 1
  MaxEdits = 0
  MaxRestores = 0
INVARIANT LifecycleTypeOK
PROPERTIES
  HoldProtects
  NoCallAfterErasure
\* A person whose data is gone may have nothing left to happen to it.
CHECK_DEADLOCK FALSE
SYMMETRY Symmetry
