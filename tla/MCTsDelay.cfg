CONSTANTS
  Reqs = {r1, r2, r3}
  Failed = Failed
  ConnLimit = 0
  Fds = {1}
  MaxSalt = 3
  Bit31 = {TRUE, FALSE}
  FaultySend = TRUE
SPECIFICATION Spec
PROPERTIES
  IsRpc
  TimerEndsOwn
CHECK_DEADLOCK FALSE
