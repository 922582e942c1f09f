SPECIFICATION FairSpec
CONSTANTS
  Domains = {"tool", "dialog"}
  Redelivered = {"dialog"}
  Rederived = {"dialog"}
  MaxRevision = 3
  MaxFailures = 1
  MaxEffectFailures = 0
  MaxCrashes = 1
CHECK_DEADLOCK FALSE
PROPERTY LanesAreIndependent
