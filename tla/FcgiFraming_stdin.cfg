CONSTANTS
  SizeMax = 65535
  Null = Null
  Unset = Unset
  Streams <- MCStreams
SPECIFICATION FairSpec
CHECK_DEADLOCK FALSE
INVARIANT UnpaddedStdinFinishes
