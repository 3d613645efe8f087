SPECIFICATION Spec
CONSTANTS
  Rooms = {a, b}
  NoRoom = none
  HistLimit = 2
  MaxLog = 3
  Budgets <- Situations
SYMMETRY RoomSymmetry
INVARIANTS
  TypeOK
  BadgeAgrees
PROPERTIES
  LiveCounts
  KeepsPromise
CHECK_DEADLOCK FALSE
