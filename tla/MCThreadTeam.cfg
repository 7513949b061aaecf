CONSTANTS
  Workers = {w1, w2, w3}
  Callers = {c1, c2}
  NoJob = NoJob
  Modulus = 2
SPECIFICATION FairSpec
INVARIANTS
  LiveComplete
PROPERTIES
  ImplementsFanOut
  OwnerReturns
CHECK_DEADLOCK FALSE
