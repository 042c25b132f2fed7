SPECIFICATION FairSpec
CONSTANTS
  NumOrders = 4
  Ofid <- MixedOfid
  Mode <- MixedMode
  QueueCap = 2
  JobCodes = {0, 256}
  MaxSockets = 8
  Lossy = FALSE
  MaxCrashes = 0
  NoCode = NoCode
INVARIANT FinishedIsReported
PROPERTIES
  EveryOrderSettled
  OutcomeArrives
