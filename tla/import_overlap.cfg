SPECIFICATION Spec
CONSTANTS
  k1 = k1
  k2 = k2
  e1 = e1
  Workers = {w1, w2}
  Emps = {e1}
  Keys = {k1, k2}
  Types = {"text", "number"}
  Raws = {"7", "word"}
  Parses <- MCParses
  Shapes <- MCShapes
  Inputs <- MCInputs
  Mappings <- MCMappings
  Cells <- MCCells
  None = None
SYMMETRY WorkerSymmetry
INVARIANTS
  TypeOK
  AppliedOnce
PROPERTIES
  
  SavedComplete
  OtherValuesKept
