SPECIFICATION Spec
CONSTANTS
  Workers = {w1, w2}
  MaxId = 3
  MaxProvider = 1
  MaxOwners = 1
  Names = {"robby", "ann", "ann-2"}
  Roles = {"admin", "view_only"}
  InitialName = "robby"
  NewUsers <- MCNewUsers
  Patches <- MCPatches
  Settings <- MCSettings
  Subjects = {"s"}
  SsoNames <- MCSsoNames
  NULL = NULL
  NoRow = NoRow
SYMMETRY WorkerSymmetry
INVARIANTS
  TypeOK
  AdministratorRemains
  AccountsResolve
PROPERTIES
  DisabledStaysDisabled
