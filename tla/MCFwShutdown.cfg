CONSTANTS
  Fds = {1, 2}
  ThreadCount = 2
  Clients = {c1}
  Callbacks = {}
  MaxSalt = 2
  MaxMsgs = 1
  MaxTasks = 2
  FaultyEpoll = TRUE
SPECIFICATION FairSpec
ACTION_CONSTRAINT NoConnect
INVARIANTS
  TypeOK
  
  ObserverContract
  
  OnlyAcceptsLeak
PROPERTIES
  StopTerminates
CHECK_DEADLOCK FALSE
