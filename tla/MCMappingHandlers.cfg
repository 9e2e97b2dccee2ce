SPECIFICATION Spec
SYMMETRY Symmetry
CONSTANTS
  MatrixRooms = {m1, m2}
  Platforms = {p, q}
  ExternalRooms = {x1, x2}
  Events = {e1}
  Messages = {k1, k2}
  MaxRoomId = 3
INVARIANTS
  TypeOK
  MessageOnItsPlatform
  UpsertEstablishes
PROPERTIES
  ImplementsLinkTable
