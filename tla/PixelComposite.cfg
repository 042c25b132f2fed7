SPECIFICATION Spec
CONSTANTS
  InVals <- SignedVals
  OutLo <- SignedLo
  OutHi = 3
  Methods = {1, 2, 3, 4}
  Fills <- SignedFills
  Bounds <- TwoBounds
  Calls <- SomeCalls
  CntMax = 2
  MaxInputs = 4
INVARIANTS
  TypeOK
  ExtremeExact
  SumExact
CHECK_DEADLOCK FALSE
