SPECIFICATION Spec
CONSTANTS
  ask = ask
  answer = answer
  reaction = reaction
  here = here
  there = there
  MatrixRooms = {m}
  Platforms = {here, there}
  ExternalRooms = {x}
  Events = {ask, answer, reaction}
  Messages = {ask, answer, reaction, ext}
  MaxRoomId = 2
  Transactions <- Script
  Author <- Sender
  Target <- About
  Human = human
  Parsable = {here, there}
  Relay = TRUE
  Subscribed <- Everything
  MaxProcessed = 1
  MaxFaults = 0
  MaxBreaks = 1
  MaxCrashes = 0
  MaxUnlinks = 0
INVARIANT RowPerTarget
CHECK_DEADLOCK FALSE
