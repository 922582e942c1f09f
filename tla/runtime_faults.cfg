SPECIFICATION Spec
CONSTANTS
  Domains = {"dialog"}
  Redelivered = {"dialog"}
  Rederived = {"dialog"}
  MaxRevision = 4
  MaxFailures = 1
  MaxEffectFailures = 1
  MaxCrashes = 1
CHECK_DEADLOCK FALSE
INVARIANTS
  StartedIsDurable
  ReceiptsAreTrue
  ViewInOrder
  OneEffectPerKey
  CommandsAccounted
  SnapshotCarriesOwed
PROPERTIES
  KeepsWriteAhead
