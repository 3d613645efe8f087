SPECIFICATION Spec
CONSTANTS
  Nicks = {ann, bob}
  Dids = {didA, didB}
  Guest = guest
  Nobody = nobody
  Unknown = unknown
  Budgets <- Moving
INVARIANT RoutingNeverStale
CHECK_DEADLOCK FALSE
