SPECIFICATION Spec
CONSTANTS
  Workers = {w1, w2}
  MaxId = 1
  MaxDate = 1
  Numbers = {"E1"}
  Canon <- MCCanon
  Ssns = {}
  Departments = {"d1", "d2"}
  Titles = {"t1"}
  Statuses = {"Active", "Left"}
  NULL = NULL
  NoRow = NoRow
  NewRows <- DatesNew
  Edits <- DatesEdits
SYMMETRY WorkerSymmetry
PROPERTIES
  DatesCrossOnlyWhenStale
  FollowsRules
