CONSTANTS
  Reqs = {r1, r2}
  Failed = Failed
  ConnLimit = 1
  Fds = {1, 2}
  MaxSalt = 2
  Bit31 = {TRUE}
  FaultySend = FALSE
SPECIFICATION FairSpec
ACTION_CONSTRAINT StaysInited
INVARIANTS
  TypeOK
  
PROPERTIES
  
  TimerEndsOwn
