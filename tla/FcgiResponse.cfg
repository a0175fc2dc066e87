CONSTANTS
  RequestIds = {1, 258}
  Names <- MCNames
  HeaderValues <- MCHeaderValues
  Outputs <- MCOutputs
  LengthLimit = 16
  MaxOutput = 11
SPECIFICATION Spec
INVARIANTS
  EndIsInStep
  WholeIfItFits
CHECK_DEADLOCK FALSE
