CONSTANTS
  MaxConnections = 1
  MaxEvents = 1
  Fds = {f1, f2}
  Clients = {c1, c2}
  ServerSocket = server
  ZeroFd = zero
  NoClient = none
SPECIFICATION Spec
SYMMETRY Symmetry
PROPERTY
  RefusedOnlyWhenOneIsFull
CHECK_DEADLOCK FALSE
