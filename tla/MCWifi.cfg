SPECIFICATION WifiSpec
CONSTANTS
  Lowest = 2
  Wrap = 8
  ConnectTimeout = 1
  RetryInterval = 3
  PromoteInterval = 3
  PromoteWatch = 2
  MaxAssociate = 1
  Reach <- MCReach
  Pref <- MCPref
  NoPref = NoPref
  MaxEvents = 2
INVARIANTS
  WifiTypeOK
  OffWhenDisabled
  StatusTellsAttempt
PROPERTIES
  StaysReachable
