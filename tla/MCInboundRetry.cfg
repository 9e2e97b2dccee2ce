SPECIFICATION FairSpec
CONSTANTS
  MatrixRooms = {m1, m2, m3, m4}
  Platforms = {p}
  ExternalRooms = {x1}
  Events = {e1, e2, e3, e4}
  Messages = {k1}
  MaxRoomId = 4
  Requests = {t1, t2}
  MaxFaults = 1
PROPERTIES
  EventuallyAcked
