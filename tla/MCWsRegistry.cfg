SPECIFICATION FairSpec
CONSTANTS
  Sessions = {s1, s2}
  Platforms = {p1}
  Sources = {matrix, telegram}
  Matrix = matrix
  Casters = {b1, b2}
  MaxClients = 1
  Capacity = 1
  MaxBroadcasts = 2
INVARIANTS
  TypeOK
  NeverUndercounted
  WithinLimit
  ReceivesInOrder
PROPERTIES
  BroadcastReturns
  DeadIsForgotten
CHECK_DEADLOCK FALSE
