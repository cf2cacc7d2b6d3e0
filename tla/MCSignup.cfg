CONSTANTS
  c1 = c1
  c2 = c2
  g1 = g1
  g2 = g2
  k1 = k1
  k2 = k2
  None = None
  Controllers <- TwoControllers
  Operations <- TwoOperations
  Keys <- TwoKeys
  Faults = {"crash", "connection", "timeout", "expiry", "poll"}
  MaxFaults = 1
  Outputs = {"first", "second"}
SPECIFICATION LiveSpec
CHECK_DEADLOCK FALSE
INVARIANTS OneGenesis KeepsAccess
PROPERTIES SetupAuthorityEnds SignupFinishes
