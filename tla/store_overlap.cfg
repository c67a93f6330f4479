SPECIFICATION Spec
CONSTANTS
  Workers = {w1, w2}
  MaxId = 2
  MaxDate = 0
  Numbers = {"E1", "e1"}
  Canon <- MCCanon
  Ssns = {"s1"}
  Departments = {}
  Titles = {}
  Statuses = {"Active"}
  NULL = NULL
  NoRow = NoRow
  NewRows <- OverlapNew
  Edits <- OverlapEdits
SYMMETRY WorkerSymmetry
INVARIANTS
  TypeOK
  TableIntegrity
  ArchiveStamped
PROPERTY FollowsRules
