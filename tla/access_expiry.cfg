SPECIFICATION Spec
CONSTANTS
  Workers = {w1}
  Keys = {k1, k2}
  Clients = {c1}
  MaxFailures = 1
  MaxIssued = 3
  None = None
SYMMETRY Symmetric
CHECK_DEADLOCK FALSE
INVARIANT ExpiryIsHonoured
