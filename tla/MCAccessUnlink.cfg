SPECIFICATION Spec
CONSTANTS
  ann = ann
  bob = bob
  ghost = ghost
  w1 = w1
  w2 = w2
  MatrixRooms = {r1, r2}
  Platforms = {p}
  ExternalRooms = {x}
  Events = {}
  Messages = {}
  MaxRoomId = 2
  Users = {ann, bob}
  Puppets = {ghost}
  Bot = bot
  Home <- HomeOf
  Configs <- Open
  Levels = {0, 50}
  Workers = {w1}
  MaxEvents = 1
  MaxChanges = 2
  MaxFaults = 1
INVARIANTS UnlinksItsRoom
CHECK_DEADLOCK FALSE
