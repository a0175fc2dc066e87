CONSTANTS
  Formats <- ParameterFormats
  Arguments <- ParameterArguments
  Buffers <- MCBuffers
  Name = Name
  Value = Value
  Text = Text
  Number = Number
  Null = Null
  AnyOctet = AnyOctet
  MaxLength = 64
  Numbers <- MCNumbers
  MaxLine = 24
  Date <- MCDate
  LevelText <- MCLevelText
  Reason <- MCReason
  Logs <- MCLogs
  Errnos = {0, 11}
SPECIFICATION Spec
INVARIANT
  StaysInBuffer
CHECK_DEADLOCK FALSE
