CONSTANTS
  Reqs = {r1, r2, r3}
  Failed = Failed
  ConnLimit = 0
  Fds = {1}
  MaxSalt = 2
  Bit31 = {FALSE}
  FaultySend = FALSE
SPECIFICATION FairSpec
ACTION_CONSTRAINT StaysInited
PROPERTIES
  CallbackAlways
CHECK_DEADLOCK FALSE
