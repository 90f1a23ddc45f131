CONSTANTS
  Fds = {1}
  ThreadCount = 1
  Clients = {c1}
  Callbacks = {0}
  MaxSalt = 2
  MaxMsgs = 2
  MaxTasks = 2
  FaultyEpoll = FALSE
SPECIFICATION Spec
ACTION_CONSTRAINT NoServer
ACTION_CONSTRAINT StaysUp
ACTION_CONSTRAINT CallbackSendsOne
INVARIANTS
  NoMisdelivery
  SenderOrder
  
  ObserverContract

  
