SPECIFICATION LiveSpec
CONSTANTS
  Mobile = FALSE
  MaxAttempts = 2
  MaxCmds = 2
  MaxEvents = 1
  SdkAhead = 1
INVARIANTS
  TypeOK
  BackoffSettled
  IntentionalIsBacked
  NoHang
  RecoveryNeverStalls
PROPERTIES
  ConnectingEnds
  RecoveryCompletes
CHECK_DEADLOCK FALSE
