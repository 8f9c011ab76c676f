SPECIFICATION Spec
CONSTANTS
  r1 = r1
  r2 = r2
  Requests = {r1, r2}
  NewIds = {n1, n2}
  Versions <- MCVersions
  LegacyIds = {lo, lc}
  LegacyCurrent = lc
  MaxVersionsValues = {1, 2}
  DefaultMaxVersions = 2
  Scenarios <- MCScenarios
  BaseKey = base
  None = none
SYMMETRY MCSymmetry
VIEW MCView
INVARIANT CurrentIsListed
INVARIANT DownloadServesWanted
INVARIANT HistoryNeverDangles
INVARIANT CurrentIsLastSave
CHECK_DEADLOCK FALSE
