SPECIFICATION Spec
CONSTANTS
  Workers = {w1}
  MaxId = 1
  MaxDate = 1
  Numbers = {"E1"}
  Canon <- MCCanon
  Ssns = {}
  Departments = {}
  Titles = {}
  Statuses = {"Active", "Left"}
  NULL = NULL
  NoRow = NoRow
  NewRows <- TerminateNew
  Edits = {}
PROPERTY TerminateIsIdempotent
