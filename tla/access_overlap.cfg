SPECIFICATION Spec
CONSTANTS
  Workers = {w1, w2}
  Keys = {k1, k2, k3}
  Clients = {c1}
  MaxFailures = 1
  MaxIssued = 3
  None = None
SYMMETRY Symmetric
CHECK_DEADLOCK FALSE
INVARIANTS
  TypeOK
  NoCallAfterWithdrawal
  FileKeyWorks
  OldMcpKeysStop
PROPERTY HonoursPromise
