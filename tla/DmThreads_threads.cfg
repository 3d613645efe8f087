SPECIFICATION Spec
CONSTANTS
  Nicks = {ann, bob}
  Dids = {didA, didB}
  Guest = guest
  Nobody = nobody
  Unknown = unknown
  Budgets <- Situations
SYMMETRY NameSymmetry
INVARIANTS
  TypeOK
  SdkNeverStale
  PeersOwnThread
  InOneThread
  EchoMeetsLocal
CHECK_DEADLOCK FALSE
