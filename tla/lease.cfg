SPECIFICATION LeaseSpec
CONSTANTS
  Workers = {w1, w2}
  Holders <- MCHolders
  Scopes <- MCScopes
  ScopesOf <- MCScopesOf
  Limit <- MCLimit
  Ttl = 2
  MaxLeases = 3
  MaxTime = 4
SYMMETRY MCSymmetry
INVARIANTS
  LeaseTypeOK
  ScopeWithinLimit
  AllScopesOrNone
  OneLiveLeasePerHolder
PROPERTY OnlyOwnerFrees
\* A behaviour ends when its MaxLeases ids are drawn and expired.
CHECK_DEADLOCK FALSE
