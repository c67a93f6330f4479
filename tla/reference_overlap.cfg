SPECIFICATION Spec
CONSTANTS
  NotActive = NotActive
  OnLeave = OnLeave
  Engineering = Engineering
  Engineer = Engineer
  Chicago = Chicago
  US = US
  Illinois = Illinois
  sample = sample
  other = other
  None = None
  Workers = {w1, w2}
  People = {sample, other}
  Names = {NotActive, OnLeave, Engineering, Engineer, Chicago, US, Illinois}
  Kind <- MCKind
  Parent <- MCParent
  Defaults <- MCDefaults
  System <- MCSystem
  SampleRefs <- MCSamples
  Bodies <- MCBodies
  Choices <- MCChoices
INVARIANTS
  TypeOK
  ReferencesResolve
  SystemRowsStay
PROPERTIES
  ResetRestoresDefaults
  ClearedLogSaysSo
SYMMETRY Symmetry
