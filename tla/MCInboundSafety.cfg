SPECIFICATION Spec
SYMMETRY Symmetry
CONSTANTS
  MatrixRooms = {m1, m2, m3, m4, m5, m6}
  Platforms = {p}
  ExternalRooms = {x1}
  Events = {e1, e2, e3, e4, e5, e6}
  Messages = {k1}
  MaxRoomId = 6
  Requests = {t1, t2}
  MaxFaults = 2
INVARIANTS
  AckedOnRecord
  NoResend
  PuppetInRoom
  BotInMappedRooms
