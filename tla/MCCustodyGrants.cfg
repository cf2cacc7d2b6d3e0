CONSTANTS
  q1 = q1
  q2 = q2
  g1 = g1
  g2 = g2
  None = None
  Calls <- TwoCalls
  Grants <- TwoGrants
  MaxKey = 3
  MaxGeneration = 3
  MaxSigned = 1
  Faults = {"crash", "timeout", "expiry", "own", "mirror"}
  MaxFaults = 0
SPECIFICATION Spec
CHECK_DEADLOCK FALSE
INVARIANTS GrantsFollow
