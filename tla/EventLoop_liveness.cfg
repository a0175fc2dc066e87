CONSTANTS
  MaxConnections = 1
  MaxEvents = 1
  Fds = {f1, f2}
  Clients = {c1, c2}
  ServerSocket = server
  ZeroFd = zero
  NoClient = none
SPECIFICATION FairSpec
PROPERTIES
  HangUpIsReclaimed
  BacklogIsServed
  StopsUnlessRaced
