SPECIFICATION Spec
CONSTANTS
  Mobile = TRUE
  MaxAttempts = 1
  MaxCmds = 2
  MaxEvents = 2
  SdkAhead = 1
INVARIANTS
  DiskBacked
  NoHang
  NoHiddenSession
CHECK_DEADLOCK FALSE
