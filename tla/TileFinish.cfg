SPECIFICATION FinishSpec
CONSTANTS
  Wid = 3
  Hei = 2
  Tiles <- FourTiles
  Regions <- SmallRegions
  Pictures <- TwoPictures
  Fills = {1}
  ValidMin = 0
  ValidMax = 2
  Area = 6
  Unit = 2
  MaxColors = 5
  Styles <- AllStyles
  FinishStyles <- Masks
  Data <- SomeData
  RampValues = {0, 2, 4}
  RampNodata <- SomeNodata
  Beyond <- Garbage
  Undefined <- Rubbish
  Rounding <- OneEitherWay
  Spans <- SomeSpans
  Palette <- FiveColors
INVARIANTS
  ClipTypeOK
  ClipExact
  LevelClipExact
  LevelClipWhole
  StatExact
  StyleTypeOK
  LookupRight
  LinearBetween
  GrayOrdered
  FinishedExact
PROPERTIES
  ClipShortens
  RenderEnds
CHECK_DEADLOCK FALSE
