SPECIFICATION Spec
CONSTANTS
  Mobile = FALSE
  MaxAttempts = 1
  MaxCmds = 2
  MaxEvents = 2
  SdkAhead = 1
INVARIANT LogoutSticks
CHECK_DEADLOCK FALSE
