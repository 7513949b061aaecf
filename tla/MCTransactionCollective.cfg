CONSTANTS
  NumRanks = 2
  NumFields = 1
  NumSources = 1
  SourceCapacity = 1
  Slots = {flux}
  FluxSlot = flux
  MaxRevision = 6
  ExternalBound = 0
  AttemptBound = 1
  MutationBound = 4
SPECIFICATION Spec
INVARIANTS
  IndInv
  FatalFailureWins
CHECK_DEADLOCK FALSE
