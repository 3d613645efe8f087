SPECIFICATION Spec
CONSTANTS
  OwnNicks = {ann, ann2}
  OtherNicks = {bob}
  Texts = {hello, bye}
  MaxRows = 3
  HistLimit = 3
  MaxLog = 3
  MaxUp = 1
  MaxWire = 1
  MaxLost = 0
  MaxTurns = 1
SYMMETRY NameSymmetry
INVARIANTS
  TypeOK
  OneRowPerMessage
  LatestShown
  NothingMissed
  EchoReplacesRow
PROPERTY TombstoneStays
CHECK_DEADLOCK FALSE
