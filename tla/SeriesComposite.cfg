SPECIFICATION Spec
CONSTANTS
  Lo <- TypeLo
  Hi <- TypeHi
  Methods <- AllMethods
  Ranges <- TwoRanges
  CntMax = 2
  MaxTiles = 8
INVARIANTS
  TypeOK
  ExtremeExact
  MeanBounded
  DriftBounded
CHECK_DEADLOCK FALSE
