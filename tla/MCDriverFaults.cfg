CONSTANTS
  NumRanks = 2
  InitialDt = 2
  MinimumDt = 1
  MaximumDt = 2
  Growth = 2
  RetryDivisor = 2
  MaximumRetries = 1
  RatioLimit = 2
  MaxTime = 3
  MaxStep = 2
  MaxGeneration = 4
  RestartPoints <- TwoRestarts
  CertificateBound <- OneEach
  MaximumSweeps = 2
  Statuses = {"ok", "retryable", "recouple", "fatal", "mpi"}
  MpiErrors = TRUE
SPECIFICATION FairDriverSpec
INVARIANTS
  DriverTypeOK
  AttemptStartsClean
  DecisionsConsistent
  CommittedTogether
  WarmStartSound
  RetiredIfReliable
PROPERTIES
  AdvanceReturns
CHECK_DEADLOCK FALSE
