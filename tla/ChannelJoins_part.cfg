SPECIFICATION Spec
CONSTANTS
  Lobby = lobby
  Rooms = {lobby, other}
  NoRoom = none
  Guest = TRUE
  MaxRecent = 2
  MaxCmds = 2
  MaxEvents = 2
INVARIANT PartSticks
CHECK_DEADLOCK FALSE
