SPECIFICATION FairMigrationSpec
CHECK_DEADLOCK FALSE
CONSTANTS
  r1 = r1
  Requests = {r1}
  NewIds = {n1}
  Versions <- MCVersions
  lo = lo
  LegacyIds = {lo, lc}
  LegacyCurrent = lc
  MaxVersionsValues = {2}
  DefaultMaxVersions = 2
  Scenarios <- MCScenarios
  Sites <- MCSites
  BaseKey = base
  None = none
INVARIANTS
    CopiesKeepTheirBytes
    LastSaveStaysCurrent
PROPERTIES
    MigrationLosesNothing
    OrphansAreCollected
