SPECIFICATION FairSpec
CONSTANTS
  Workers = {w1, w2}
  Tokens = {t1, t2, t3}
  MaxFailures = 2
  None = None
CHECK_DEADLOCK FALSE
INVARIANTS
  TypeOK
  AcceptedOnRecord
  
  

  
  
