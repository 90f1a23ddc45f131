CONSTANTS
  Reqs = {r1, r2, r3}
  Failed = Failed
  ConnLimit = 0
  Fds = {1}
  MaxSalt = 2
  Bit31 = {TRUE}
  FaultySend = FALSE
SPECIFICATION Spec
ACTION_CONSTRAINT StaysInited
INVARIANTS
  NoQueryRunning
CHECK_DEADLOCK FALSE
