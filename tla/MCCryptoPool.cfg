SPECIFICATION Spec
CONSTANTS
  c1 = c1
  c2 = c2
  c3 = c3
  p1 = p1
  p2 = p2
  Calls = {c1, c2, c3}
  Puppets = {p1, p2}
  Bot = bot
  Members = {alice}
  MaxDevices = 2
  Scenarios <- Various
INVARIANTS SealedForTold NoMachineMissed OneMachine Published AttachmentMatchesEvent EncryptedOnceKnown SomeHandlerRuns
SYMMETRY Slots
CHECK_DEADLOCK FALSE
