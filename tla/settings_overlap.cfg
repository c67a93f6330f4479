SPECIFICATION Spec
CONSTANTS
  Workers = {w1, w2}
  Windows = {0, 30}
  Default = 30
  ours1 = ours1
  ours2 = ours2
  SecretKeys <- MCKeys
  Archives <- MCArchives
  Empty = Empty
  None = None
SYMMETRY WorkerKeySymmetry
INVARIANTS
  TypeOK
  CacheFollowsSetting
  SecretsOpen
PROPERTY ForeverIsForever
