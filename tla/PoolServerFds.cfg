\* Two workers but one descriptor: no directory can be opened while a client is
\* answered, and accept() fails as long as the descriptor is in use.
SPECIFICATION FairSpec
CONSTANTS
  c1 = c1
  c2 = c2
  c3 = c3
  ThreadCount = 2
  Clients = {c1, c2, c3}
  PathCount <- AllPolite
  Quitters = {}
  Fds = {f1}
  NoFd = NoFd
  NoClient = NoClient
  Backlog = 3
PROPERTIES PoliteServed
CHECK_DEADLOCK FALSE
