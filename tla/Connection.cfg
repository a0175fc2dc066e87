CONSTANTS
  SizeMax = 65535
  Null = Null
  Unset = Unset
  RecvBuffer = 16
  Scripts <- MCScripts
  Faults = {"parser", "name", "value", "bucket", "stdin"}
SPECIFICATION FairSpec
CHECK_DEADLOCK FALSE
INVARIANTS
  ExecutesWhatWasSent
  WholeRequestIsExecuted
  RepliesAreEarned
  ServedPeerIsKept
  StaysInStep
PROPERTIES
  PeerIsAnswered
  HangUpCloses
  HandlesAsEventLoop
