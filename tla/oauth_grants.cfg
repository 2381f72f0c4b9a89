SPECIFICATION GrantsSpec
CONSTANTS
  a = a
  b = b
  c = c
  ClientIds = {a, b, c}
  Capacity = 2
  RefreshCapacity = 3
  CodeTtl = 1
  Ttl = 2
  RefreshTtls = {0, 3}
  MaxTime = 5
  MaxRequests = 3
  MaxIssues = 4
SYMMETRY ClientSymmetry
INVARIANTS NothingOutlivesItsGrant PromisesAreKept
CHECK_DEADLOCK FALSE
