CONSTANTS
  Formats <- ProgramFormats
  Arguments <- ProgramArguments
  Buffers <- MCBuffers
  Name = Name
  Value = Value
  Text = Text
  Number = Number
  Null = Null
  AnyOctet = AnyOctet
  MaxLength = 132
  Numbers <- MCNumbers
  MaxLine = 24
  Date <- MCDate
  LevelText <- MCLevelText
  Reason <- MCReason
  Logs <- MCLogs
  Errnos = {0, 11}
SPECIFICATION Spec
INVARIANTS
  StaysInBuffer
  ContentIsWanted
  LineIsStartOfText
CHECK_DEADLOCK FALSE
