CONSTANTS
  NumRanks = 2
  InitialDt = 2
  MinimumDt = 1
  MaximumDt = 2
  Growth = 2
  RetryDivisor = 2
  MaximumRetries = 1
  RatioLimit = 2
  MaxTime = 2
  MaxStep = 2
  MaxGeneration = 3
  RestartPoints <- LateRestart
  CertificateBound <- OneKeepsTwo
SPECIFICATION Spec
INVARIANTS
  TypeOK
  AcceptedHistoriesAgree
  ProposalCurrent
  SecondOrderNeedsHistory
PROPERTIES
  GenerationsRetired
CHECK_DEADLOCK FALSE
