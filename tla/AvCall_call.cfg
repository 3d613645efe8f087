SPECIFICATION Spec
CONSTANTS
  Rooms = {a, b}
  NeedToken = TRUE
  MaxSid = 3
  Budgets <- Situations
SYMMETRY RoomSymmetry
INVARIANTS
  TypeOK
  ShownMediaIsReal
  NoHiddenMedia
  ServerAgrees
  PrivacyKept
  RedialComes
CHECK_DEADLOCK FALSE
