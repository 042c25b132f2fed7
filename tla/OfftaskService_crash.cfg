SPECIFICATION Spec
CONSTANTS
  NumOrders = 4
  Ofid <- MixedOfid
  Mode <- MixedMode
  QueueCap = 2
  JobCodes = {0, 256}
  MaxSockets = 12
  Lossy = TRUE
  MaxCrashes = 1
  NoCode = NoCode
INVARIANTS
  TypeOK
  ExclusiveList
  OrdersConserved
  WorkedInOrder
  ReportedOnce
PROPERTY ImplementsLedger
