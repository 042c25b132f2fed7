SPECIFICATION Spec
CONSTANTS
  Threads = {t1, t2, t3}
  Libraries = {"helper", "connector"}
  NoPlatform = NoPlatform
  MaxCalls = 2
SYMMETRY Permuted
INVARIANTS
  TypeOK
  SafeWhenPreloaded
  MissingOnlyAtFirst
PROPERTY SettledForGood
