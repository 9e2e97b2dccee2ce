SPECIFICATION Spec
CONSTANTS
  n1 = n1
  a1 = a1
  bad = bad
  Requests = {t1, t2}
  Names = {n1}
  Avatars = {a1, bad}
  Valid = {a1}
  Wants <- Mixed
  UsesDevice = TRUE
  Workers = 2
  MaxFaults = 2
INVARIANTS TypeOK RetryRepairs CacheIsRow
