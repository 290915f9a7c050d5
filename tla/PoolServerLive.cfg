\* Two workers and descriptors enough: three, as main accepts while its own
\* slot holds nothing, and one worker at most has a connection and a directory
\* then.  c3, whose request is the empty line only, may also fall silent or
\* leave at any moment: the other two clients must still be served.
SPECIFICATION FairSpec
CONSTANTS
  c1 = c1
  c2 = c2
  c3 = c3
  ThreadCount = 2
  Clients = {c1, c2, c3}
  PathCount <- OneMalformed
  Quitters = {c3}
  Fds = {f1, f2, f3}
  NoFd = NoFd
  NoClient = NoClient
  Backlog = 1
PROPERTIES PoliteServed
CHECK_DEADLOCK FALSE
