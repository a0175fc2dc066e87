CONSTANTS
  MaxConnections = 2
  MaxEvents = 2
  Fds = {f1, f2, f3}
  Clients = {c1, c2, c3}
  ServerSocket = server
  ZeroFd = zero
  NoClient = none
SPECIFICATION Spec
SYMMETRY Symmetry
INVARIANTS
  LookupFindsOwner
  NeverCrashes
  NoStaleEvent
  NoLeak
  DeafOnlyByRace
PROPERTIES
  RefusedOnlyWhenFull
  ImplementsTable
  LivesAsWorker
