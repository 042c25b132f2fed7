SPECIFICATION Spec
CONSTANTS
  InVals <- ByteVals
  OutLo = 0
  OutHi = 3
  Methods = {1, 2, 3, 4}
  Fills <- ByteFills
  Bounds <- TwoBounds
  Calls <- SomeCalls
  CntMax = 3
  MaxInputs = 3
INVARIANT OnlyValidTakesPart
CHECK_DEADLOCK FALSE
