\* Two workers, three clients of which one may leave at any moment, and three
\* descriptors: opendir() may still fail, accept() never does, and a number is
\* reused at once or not.
SPECIFICATION Spec
CONSTANTS
  c1 = c1
  c2 = c2
  c3 = c3
  ThreadCount = 2
  Clients = {c1, c2, c3}
  PathCount <- AllPolite
  Quitters = {c3}
  Fds = {f1, f2, f3}
  NoFd = NoFd
  NoClient = NoClient
  Backlog = 3
SYMMETRY FdSymmetry
INVARIANTS TypeOK SlotProtocol OneHolder NoDescriptorLeak AnsweredInFull CapacityAccounted
PROPERTIES HandoverKept ServiceSpec
\* The server ends when SIGPIPE kills it, and idles when all clients are served.
CHECK_DEADLOCK FALSE
