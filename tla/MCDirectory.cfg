SPECIFICATION Spec
CONSTANTS
  h1 = h1
  h2 = h2
  p1 = p1
  p2 = p2
  u1 = u1
  u2 = u2
  Platforms = {p1, p2}
  Urls = {u1, u2}
  Owners = {alice}
  AutoInvite = {}
  Handlers = {h1, h2}
  Limits = {0, 2}
  MaxLimit = 2
  MaxCalls = 5
  MaxFaults = 2
INVARIANTS TypeOK WalkComplete IdNamesOne RoomOrganised SpaceReused
CONSTRAINT OneSubject
SYMMETRY Similar
CHECK_DEADLOCK FALSE
