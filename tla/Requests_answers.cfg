SPECIFICATION Spec
CONSTANTS
  Nicks = {ann, bob}
  Handles = {bob}
  Channels = {a, b}
  Queries = {al, bo}
  None = none
  Short = short
  Budgets <- Situations
INVARIANTS
  TypeOK
  SpinnersEnd
  ShownIsAsked
  RetrySafe
  DraftSurvives
CHECK_DEADLOCK FALSE
