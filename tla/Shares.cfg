SPECIFICATION Spec
CONSTANTS
  r1 = r1
  r2 = r2
  a1 = a1
  a2 = a2
  Requests = {r1, r2}
  Sweeper = sweeper
  Attachments = {a1, a2}
  Blob = blob
  Scenarios <- MCScenarios
SYMMETRY MCSymmetry
INVARIANT ServedOnlyWhileOpen
INVARIANT OpenShareHasBytes
INVARIANT PurgedLeavesNothing
CHECK_DEADLOCK FALSE
