CONSTANTS
  Fds = {1, 2, 3}
  ThreadCount = 2
  Clients = {c1}
  Callbacks = {}
  MaxSalt = 2
  MaxMsgs = 0
  MaxTasks = 2
  FaultyEpoll = FALSE
SPECIFICATION Spec
ACTION_CONSTRAINT NoConnect
ACTION_CONSTRAINT StaysUp
INVARIANTS
  AddFindsFdFree
  
