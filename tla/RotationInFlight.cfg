SPECIFICATION Spec
CONSTANTS
  c1 = c1
  c2 = c2
  r1 = r1
  r2 = r2
  v1 = v1
  a1 = a1
  a2 = a2
  s0 = s0
  s1 = s1
  s2 = s2
  Clients = {c1, c2}
  Requests = {r1, r2}
  Vaults = {v1}
  Attachments = {a1, a2}
  VaultOf <- MCVaultOf
  Secrets = {s0, s1, s2}
  FirstSecret = s0
  None = none
  Keep = keep
  Scenarios <- MCTwoCalm
INVARIANT NothingUnderDeadKeys
CHECK_DEADLOCK FALSE
