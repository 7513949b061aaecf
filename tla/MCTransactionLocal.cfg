CONSTANTS
  NumRanks = 1
  NumFields = 1
  NumSources = 3
  SourceCapacity = 2
  Slots = {flux, derived}
  FluxSlot = flux
  MaxRevision = 7
  ExternalBound = 1
  AttemptBound = 2
  MutationBound = 6
SPECIFICATION Spec
INVARIANTS
  AcceptCertificateComplete
  CommittedCachesCurrent
  CatalogWithinCapacity
PROPERTIES
  NoCommitAfterWriterLost
  ImplementsTimeLevels
CHECK_DEADLOCK FALSE
