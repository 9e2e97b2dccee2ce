SPECIFICATION Spec
CONSTANTS
  ann = ann
  bob = bob
  ghost = ghost
  w1 = w1
  w2 = w2
  MatrixRooms = {r1, r2}
  Platforms = {p}
  ExternalRooms = {x}
  Events = {}
  Messages = {}
  MaxRoomId = 2
  Users = {ann, bob}
  Puppets = {ghost}
  Bot = bot
  Home <- HomeOf
  Configs <- Various
  Levels = {0, 50}
  Workers = {w1, w2}
  MaxEvents = 2
  MaxChanges = 2
  MaxFaults = 1
INVARIANTS DeedsWarranted CommandOrMessage
SYMMETRY Similar
CHECK_DEADLOCK FALSE
