SPECIFICATION Spec
CONSTANTS
  Nicks = {ann, bob}
  Dids = {didA, didB}
  Guest = guest
  Nobody = nobody
  Unknown = unknown
  Budgets <- Back
INVARIANT EchoLandsWithRow
CHECK_DEADLOCK FALSE
