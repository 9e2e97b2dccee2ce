SPECIFICATION FairSpec
CONSTANTS
  n1 = n1
  a1 = a1
  bad = bad
  Requests = {t1, t2, t3}
  Names = {n1}
  Avatars = {}
  Valid = {}
  Wants <- NameOnly
  UsesDevice = TRUE
  Workers = 2
  MaxFaults = 0
PROPERTY EveryCallReturns
CHECK_DEADLOCK FALSE
