SPECIFICATION Spec
CONSTANTS
  Lobby = lobby
  Rooms = {lobby, other}
  NoRoom = none
  Guest = FALSE
  MaxRecent = 2
  MaxCmds = 2
  MaxEvents = 1
INVARIANTS
  TypeOK
  ActivePresent
  MembersShown
  MembersRemembered
CHECK_DEADLOCK FALSE
