CONSTANTS
  Fds = {1}
  ThreadCount = 1
  Clients = {c1}
  Callbacks = {}
  MaxSalt = 2
  MaxMsgs = 0
  MaxTasks = 3
  FaultyEpoll = FALSE
SPECIFICATION Spec
ACTION_CONSTRAINT NoServer
ACTION_CONSTRAINT StaysUp
PROPERTIES
  CloseOnlyNamed
